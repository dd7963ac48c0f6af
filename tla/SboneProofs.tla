---------------------------- MODULE SboneProofs ----------------------------
(***************************************************************************)
(* The binding of the Linux drivers to their devices, for any devices,     *)
(* structures and BARs, and the sbone stack on top of it, for any number   *)
(* of processes and runs of the program.                                   *)
(***************************************************************************)
EXTENDS Sbone, TLAPS

----------------------------------------------------------------------------
(* Binding *)

LEMMA BindInitInv == BindInit => BindInv
  BY NSlotsAssumption, NoSlotAssumption
     DEF BindInit, BindInv, BindTypeOK, BindPc, StageInv, SlotInv, Slots

LEMMA ModuleBind ==
  ASSUME BindInv, ModuleInit \/ ModuleExit
  PROVE  BindInv'
<1>1. BindTypeOK'
  BY DEF BindInv, BindTypeOK, ModuleInit, ModuleExit
<1>2. StageInv'
  BY DEF BindInv, StageInv, ModuleInit, ModuleExit
<1>3. SlotInv'
  BY DEF BindInv, BindTypeOK, StageInv, SlotInv, ModuleInit, ModuleExit
<1> QED
  BY <1>1, <1>2, <1>3 DEF BindInv

\* The structure kdma_dev_alloc takes is one of the table.
LEMMA AllocSlot ==
  ASSUME BindTypeOK, NEW p \in Pdevs, idx[p] < NSlots
  PROVE  idx[p] \in Slots
  BY NSlotsAssumption DEF BindTypeOK, Slots

LEMMA ProbeType ==
  ASSUME BindInv, NEW p \in Pdevs, Probe(p)
  PROVE  BindTypeOK'
<1> USE DEF BindInv, BindTypeOK, BindPc, At
<1>1. CASE ProbeStart(p)
  BY <1>1, NSlotsAssumption DEF ProbeStart
<1>2. CASE DevAlloc(p)
  <2>1. idx[p] \in Slots
    BY <1>2, AllocSlot DEF DevAlloc
  <2>2. idx' \in [Pdevs -> 0..NSlots] /\ seen' \in [Pdevs -> SUBSET Slots]
    BY <1>2, NSlotsAssumption DEF DevAlloc, DropCapture
  <2> QED
    BY <1>2, <2>1, <2>2 DEF DevAlloc
<1>3. CASE DevAllocNext(p)
  BY <1>3, NSlotsAssumption DEF DevAllocNext
<1>4. CASE DevAllocFail(p)
  BY <1>4, NSlotsAssumption DEF DevAllocFail, DropCapture
<1>5. CASE EnableDevice(p) \/ EnableMsi(p) \/ RequestIrq(p)
  BY <1>5 DEF EnableDevice, EnableMsi, RequestIrq
<1>6. CASE MapBars(p)
  BY <1>6 DEF MapBars
<1>7. CASE CdevInit(p)
  BY <1>7 DEF CdevInit, StageInv
<1> QED
  BY <1>1, <1>2, <1>3, <1>4, <1>5, <1>6, <1>7 DEF Probe

LEMMA ProbeStage ==
  ASSUME BindInv, NEW p \in Pdevs, Probe(p)
  PROVE  StageInv'
<1> USE DEF BindInv, BindTypeOK, BindPc, At
<1>1. CASE ProbeStart(p)
  BY <1>1 DEF ProbeStart, StageInv
<1>2. CASE DevAlloc(p)
  <2>1. idx[p] \in Slots /\ idx[p] # NoSlot /\ idx[p] \notin bits
    BY <1>2, AllocSlot, NoSlotAssumption DEF DevAlloc
  <2>2. \A q \in Pdevs : slot[q] # idx[p]
    BY <2>1 DEF SlotInv
  <2>3. idx[p] \notin cdev
    BY <2>1, <2>2 DEF SlotInv
  <2> QED
    BY <1>2, <2>1, <2>2, <2>3 DEF DevAlloc, StageInv
<1>3. CASE DevAllocNext(p) \/ DevAllocFail(p)
  BY <1>3 DEF DevAllocNext, DevAllocFail, DropCapture, StageInv
<1>5. CASE EnableDevice(p) \/ EnableMsi(p) \/ RequestIrq(p)
  BY <1>5 DEF EnableDevice, EnableMsi, RequestIrq, StageInv
<1>6. CASE MapBars(p)
  BY <1>6 DEF MapBars, StageInv, SlotInv
<1>7. CASE CdevInit(p)
  BY <1>7 DEF CdevInit, StageInv, SlotInv
<1> QED
  BY <1>1, <1>2, <1>3, <1>5, <1>6, <1>7 DEF Probe

LEMMA ProbeSlot ==
  ASSUME BindInv, NEW p \in Pdevs, Probe(p)
  PROVE  SlotInv'
<1> USE DEF BindInv, BindTypeOK, BindPc, At
<1>1. CASE ProbeStart(p)
  BY <1>1 DEF ProbeStart, SlotInv
<1>2. CASE DevAlloc(p)
  BY <1>2, NSlotsAssumption, NoSlotAssumption DEF DevAlloc, DropCapture, Slots, StageInv, SlotInv
<1>3. CASE DevAllocNext(p) \/ DevAllocFail(p)
  BY <1>3 DEF DevAllocNext, DevAllocFail, DropCapture, StageInv, SlotInv
<1>5. CASE EnableDevice(p) \/ EnableMsi(p) \/ RequestIrq(p)
  BY <1>5 DEF EnableDevice, EnableMsi, RequestIrq, StageInv, SlotInv
<1>6. CASE MapBars(p)
  BY <1>6 DEF MapBars, StageInv, SlotInv
<1>7. CASE CdevInit(p)
  BY <1>7 DEF CdevInit, StageInv, SlotInv
<1> QED
  BY <1>1, <1>2, <1>3, <1>5, <1>6, <1>7 DEF Probe

LEMMA RemoveBind ==
  ASSUME BindInv, NEW p \in Pdevs, Remove(p) \/ Unwind(p) \/ ErrorDetected(p)
  PROVE  BindInv'
<1> USE DEF BindInv, BindTypeOK, BindPc, At
<1>1. BindTypeOK'
  BY DEF Remove, Unwind, FreeIrq, DisableMsi, UnmapBars, DevFree, ErrorDetected
<1>2. CASE Remove(p)
  BY <1>1, <1>2 DEF Remove, StageInv, SlotInv
<1>3. CASE FreeIrq(p) \/ DisableMsi(p)
  BY <1>1, <1>3 DEF FreeIrq, DisableMsi, StageInv, SlotInv
<1>4. CASE UnmapBars(p)
  BY <1>1, <1>4 DEF UnmapBars, StageInv, SlotInv
<1>5. CASE DevFree(p)
  BY <1>1, <1>5, NoSlotAssumption DEF DevFree, StageInv, SlotInv
<1>6. CASE ErrorDetected(p)
  BY <1>1, <1>6 DEF ErrorDetected, StageInv, SlotInv
<1> QED
  BY <1>2, <1>3, <1>4, <1>5, <1>6 DEF Unwind

LEMMA BindInvHandler == BindInv => HandlerReady
  BY NoSlotAssumption DEF BindInv, BindTypeOK, StageInv, SlotInv, HandlerReady

LEMMA BindInvClean == BindInv => UnboundClean
  BY NoSlotAssumption DEF BindInv, BindTypeOK, StageInv, SlotInv, UnboundClean

\* A probe takes nobody's structure
LEMMA ProbeSlots ==
  ASSUME BindInv, NEW p \in Pdevs, Probe(p)
  PROVE  /\ \A q \in Pdevs : slot[q] # NoSlot => slot'[q] = slot[q]
         /\ \A s \in Slots : slot[p] = NoSlot /\ slot'[p] = s => \A q \in Pdevs : slot[q] # s
<1>1. CASE DevAlloc(p)
  <2>1. slot[p] = NoSlot /\ slot' = [slot EXCEPT ![p] = idx[p]] /\ idx[p] \notin bits
    BY <1>1 DEF BindInv, StageInv, DevAlloc, At
  <2>2. \A q \in Pdevs : slot[q] # NoSlot => slot[q] \in bits
    BY DEF BindInv, SlotInv
  <2> QED
    BY <2>1, <2>2, NoSlotAssumption DEF BindInv, BindTypeOK
<1>2. CASE UNCHANGED slot
  BY <1>2, NoSlotAssumption
<1>3. DevAlloc(p) \/ UNCHANGED slot
  BY DEF Probe, ProbeStart, DevAllocNext, DevAllocFail, EnableDevice, MapBars, EnableMsi,
         RequestIrq, CdevInit
<1> QED
  BY <1>1, <1>2, <1>3

LEMMA RemoveSlots ==
  ASSUME BindInv, NEW p \in Pdevs, Remove(p) \/ Unwind(p) \/ ErrorDetected(p)
  PROVE  \A q \in Pdevs \ {p} : slot'[q] = slot[q]
BY DEF BindInv, BindTypeOK, Remove, Unwind, FreeIrq, DisableMsi, UnmapBars, DevFree, ErrorDetected

----------------------------------------------------------------------------
(* The stack *)

LEMMA SboneInit == Init => SboneInv
<1> SUFFICES ASSUME Init PROVE SboneInv
  OBVIOUS
<1>1. BindInv
  BY BindInitInv DEF Init
<1>2. TypeOK
  <2>1. killed \in BOOLEAN
    BY DEF Init
  <2> QED
    BY <1>1, <2>1, ExclusiveAssumption DEF Init, TypeOK, BindInv, BarVal, AppPc
<1>3. FileInv /\ CountInv /\ ReportedCount
  BY DEF Init, FileInv, CountInv, ReportedCount
<1> QED
  BY <1>1, <1>2, <1>3 DEF Init, SboneInv

\* Fewer interrupts, and the program where it was
LEMMA CountKept ==
  ASSUME SboneInv, UNCHANGED <<apc, file, nirqs, killed>>, undone \subseteq undone',
         irq_count' \in [Slots -> Nat], pend' \subseteq pend,
         \A s \in Slots : irq_count'[s] <= irq_count[s],
         \A a \in Apps \ undone' : apc[a] = "get" => irq_count'[file[a]] = irq_count[file[a]]
  PROVE  CountInv' /\ ReportedCount'
<1> SUFFICES ASSUME Exclusive PROVE CountInv' /\ ReportedCount'
  BY DEF CountInv, ReportedCount
<1>1. ASSUME NEW a \in Apps, apc[a] \in {"trigger", "select", "get"}
      PROVE  Expected(a)' \in Nat /\ Expected(a) \in Nat /\ Expected(a)' <= Expected(a)
  <2>1. file[a] \in Slots /\ file'[a] = file[a]
    BY <1>1 DEF SboneInv, FileInv
  <2>2. irq_count'[file[a]] \in Nat /\ irq_count[file[a]] \in Nat
        /\ irq_count'[file[a]] <= irq_count[file[a]]
    BY <2>1 DEF SboneInv, TypeOK
  <2> QED
    BY <2>1, <2>2 DEF Expected
<1>2. CountInv'
  <2>1. ASSUME NEW a \in Apps
        PROVE  /\ apc'[a] = "trigger" => Expected(a)' <= LeftOver'
               /\ apc'[a] \in {"select", "get"} => Expected(a)' <= LeftOver' + 1
    BY <1>1 DEF SboneInv, CountInv, LeftOver
  <2>2. ASSUME NEW a \in Apps, apc'[a] = "get", a \notin undone'
        PROVE  irq_count'[file'[a]] >= 1
    BY <2>2 DEF SboneInv, CountInv
  <2>3. /\ \A a, b \in Apps : apc'[a] # "off" /\ apc'[b] # "off" => a = b
        /\ Card \in pend' => killed' \/ \E a \in Apps : apc'[a] = "select"
    BY DEF SboneInv, CountInv
  <2> QED
    BY <2>1, <2>2, <2>3 DEF CountInv
<1>3. ReportedCount'
  BY DEF SboneInv, ReportedCount
<1> QED
  BY <1>2, <1>3

LEMMA ProbeSbone ==
  ASSUME SboneInv, NEW p \in Pdevs, sbone_pci_probe(p)
  PROVE  SboneInv'
<1>1. BindInv'
  BY ProbeType, ProbeStage, ProbeSlot DEF SboneInv, sbone_pci_probe, BindInv
<1>2. UNCHANGED <<pend, bar, apc, saved, file, nirqs, undone, killed, runs>>
  BY DEF sbone_pci_probe, appVars, progVars
<1>3. /\ irq_count' \in [Slots -> Nat]
      /\ \A s \in Slots : irq_count'[s] <= irq_count[s]
      /\ \A s \in Slots : ~(slot[p] = NoSlot /\ slot'[p] = s) => irq_count'[s] = irq_count[s]
  BY DEF SboneInv, TypeOK, sbone_pci_probe
<1>4. /\ \A q \in Pdevs : slot[q] # NoSlot => slot'[q] = slot[q]
      /\ \A s \in Slots : slot[p] = NoSlot /\ slot'[p] = s => \A q \in Pdevs : slot[q] # s
  BY ProbeSlots DEF SboneInv, sbone_pci_probe
<1>5. FileInv'
  <2>1. ASSUME NEW a \in Apps, file[a] # NoSlot, a \notin undone
        PROVE  \E q \in Pdevs : slot'[q] = file[a]
    BY <1>4, <2>1 DEF SboneInv, FileInv
  <2> QED
    BY <1>2, <2>1 DEF SboneInv, FileInv
<1>6. ASSUME NEW a \in Apps \ undone', apc[a] = "get"
      PROVE  irq_count'[file[a]] = irq_count[file[a]]
  <2>1. file[a] \in Slots /\ \E q \in Pdevs : slot[q] = file[a]
    BY <1>2, <1>6, NoSlotAssumption DEF SboneInv, FileInv
  <2> QED
    BY <1>3, <1>4, <2>1
<1>7. CountInv' /\ ReportedCount'
  BY <1>2, <1>3, <1>6, CountKept
<1> QED
  BY <1>1, <1>2, <1>3, <1>5, <1>7 DEF SboneInv, BindInv, TypeOK

LEMMA RemoveSbone ==
  ASSUME SboneInv, NEW p \in Pdevs, sbone_pci_remove(p)
  PROVE  SboneInv'
<1>1. BindInv'
  BY RemoveBind DEF SboneInv, sbone_pci_remove
<1>2. /\ UNCHANGED <<irq_count, bar, apc, saved, file, nirqs, killed, runs>>
      /\ pend' \subseteq pend /\ undone \subseteq undone' /\ undone' \subseteq Apps
  BY DEF SboneInv, TypeOK, sbone_pci_remove, progVars
<1>3. FileInv'
  <2>1. \A q \in Pdevs \ {p} : slot'[q] = slot[q]
    BY RemoveSlots DEF SboneInv, sbone_pci_remove
  <2>2. ASSUME NEW a \in Apps, file[a] # NoSlot, a \notin undone'
        PROVE  \E q \in Pdevs : slot'[q] = file[a]
    <3>1. file[a] # slot[p]
      BY <2>2 DEF sbone_pci_remove
    <3>2. \E q \in Pdevs : slot[q] = file[a]
      BY <1>2, <2>2 DEF SboneInv, FileInv
    <3> QED
      BY <2>1, <3>1, <3>2
  <2> QED
    BY <1>2, <2>2 DEF SboneInv, FileInv
<1>4. CountInv' /\ ReportedCount'
  <2>1. irq_count \in [Slots -> Nat] /\ \A s \in Slots : irq_count[s] <= irq_count[s]
    BY DEF SboneInv, TypeOK
  <2> QED
    BY <1>2, <2>1, CountKept
<1> QED
  BY <1>1, <1>2, <1>3, <1>4 DEF SboneInv, BindInv, TypeOK

\* Nothing but the module's own state changes
LEMMA IdleSbone ==
  ASSUME SboneInv, BindInv', UNCHANGED <<slot, irqVars, appVars>>
  PROVE  SboneInv'
<1>1. UNCHANGED <<irq_count, pend, bar, apc, saved, file, nirqs, undone, killed, runs>>
  BY DEF irqVars, appVars, progVars
<1>2. irq_count \in [Slots -> Nat] /\ \A s \in Slots : irq_count[s] <= irq_count[s]
  BY DEF SboneInv, TypeOK
<1>3. CountInv' /\ ReportedCount'
  BY <1>1, <1>2, CountKept
<1> QED
  BY <1>1, <1>3 DEF SboneInv, BindInv, TypeOK, FileInv

LEMMA ModuleSbone ==
  ASSUME SboneInv, Module
  PROVE  SboneInv'
<1>1. BindInv' /\ UNCHANGED slot
  BY ModuleBind DEF SboneInv, Module, ModuleInit, ModuleExit
<1> QED
  BY <1>1, IdleSbone DEF Module

\* An interrupt on its way becomes one that is counted
LEMMA HandlerSbone ==
  ASSUME SboneInv, NEW p \in Pdevs, irq_handler(p)
  PROVE  SboneInv'
<1>1. UNCHANGED <<bindVars, bar, apc, saved, file, nirqs, undone, killed, runs>>
  BY DEF irq_handler, appVars, progVars
<1>2. slot[p] \in Slots
  BY BindInvHandler DEF irq_handler, SboneInv, HandlerReady, TypeOK, BindTypeOK
<1>3. p = Card /\ Card \in pend /\ pend' = {}
  BY DEF irq_handler, SboneInv
<1>4. /\ irq_count \in [Slots -> Nat] /\ irq_count' \in [Slots -> Nat]
      /\ \A s \in Slots : irq_count'[s] = IF s = slot[p] THEN irq_count[s] + 1 ELSE irq_count[s]
  BY <1>2 DEF irq_handler, SboneInv, TypeOK
<1>5. BindInv'
  BY <1>1 DEF SboneInv, bindVars, BindInv, BindTypeOK, StageInv, SlotInv
<1>6. FileInv'
  BY <1>1 DEF SboneInv, FileInv, bindVars
<1>7. CountInv'
  <2> SUFFICES ASSUME Exclusive PROVE CountInv'
    BY DEF CountInv
  <2>1. ASSUME NEW a \in Apps, apc[a] \in {"trigger", "select", "get"}
        PROVE  /\ Expected(a)' \in Nat /\ Expected(a) \in Nat /\ Expected(a)' <= Expected(a)
               /\ irq_count'[file[a]] >= irq_count[file[a]] /\ irq_count[file[a]] \in Nat
               /\ irq_count'[file[a]] \in Nat
    <3>1. file[a] \in Slots /\ file'[a] = file[a]
      BY <1>1, <2>1 DEF SboneInv, FileInv
    <3> QED
      BY <1>3, <1>4, <3>1 DEF Expected
  <2>2. ASSUME NEW a \in Apps
        PROVE  /\ apc'[a] = "trigger" => Expected(a)' <= LeftOver'
               /\ apc'[a] \in {"select", "get"} => Expected(a)' <= LeftOver' + 1
               /\ apc'[a] = "get" /\ a \notin undone' => irq_count'[file'[a]] >= 1
    BY <1>1, <2>1 DEF SboneInv, CountInv, LeftOver
  <2> QED
    BY <1>1, <1>3, <2>2 DEF SboneInv, CountInv
<1>8. ReportedCount'
  BY <1>1 DEF SboneInv, ReportedCount
<1> QED
  BY <1>1, <1>3, <1>4, <1>5, <1>6, <1>7, <1>8 DEF SboneInv, BindInv, TypeOK

\* What each step of the program changes
LEMMA AppTypes ==
  ASSUME SboneInv, NEW a \in Apps, Start(a) \/ AppStep(a) \/ Kill(a)
  PROVE  BindInv' /\ TypeOK' /\ pend' \subseteq {Card} /\ slot' = slot
<1> USE DEF Start, AppStep, Kill, Save, WriteOnes, Restore, OpenDevice, ClearIrqCount,
            Trigger, Select, ReadIrqCount, CloseDevice
<1>1. UNCHANGED bindVars
  OBVIOUS
<1>2. BindInv' /\ slot' = slot
  BY <1>1 DEF SboneInv, bindVars, BindInv, BindTypeOK, StageInv, SlotInv
<1>3. TypeOK
  BY DEF SboneInv
<1>4. irq_count' \in [Slots -> Nat] /\ nirqs' \in [Apps -> Nat]
  <2>1. ASSUME NEW s, GetIrqCount(s) PROVE irq_count' \in [Slots -> Nat]
    <3>1. irq_count' = [irq_count EXCEPT ![s] = 0] /\ irq_count \in [Slots -> Nat]
      BY <1>3, <2>1, Zenon DEF GetIrqCount, TypeOK
    <3> QED
      BY <3>1
  <2>2. irq_count' \in [Slots -> Nat]
    BY <1>3, <2>1 DEF irqVars, TypeOK
  <2>3. CASE ReadIrqCount(a)
    <3>1. file[a] \in Slots
      BY <2>3 DEF SboneInv, FileInv, Goes
    <3> QED
      BY <1>3, <2>2, <2>3, <3>1 DEF TypeOK
  <2>4. CASE ~ReadIrqCount(a)
    <3>1. nirqs' = nirqs \/ nirqs' = [nirqs EXCEPT ![a] = 0]
      BY <2>4
    <3> QED
      BY <1>3, <2>2, <3>1 DEF TypeOK
  <2> QED
    BY <2>3, <2>4
<1>5. apc' \in [Apps -> AppPc] /\ runs' \in 0..MaxRuns /\ undone' \subseteq Apps
  BY <1>3, ExclusiveAssumption DEF TypeOK, Goes, AppPc
<1>k. killed' \in BOOLEAN
  <2>1. killed' = killed \/ killed' = TRUE
    OBVIOUS
  <2> QED
    BY <1>3, <2>1 DEF TypeOK
<1>6. pend' \subseteq {Card}
  BY DEF SboneInv, irqVars
<1>7. bar' \in BarVal /\ saved' \in [Apps -> BarVal]
  BY <1>3 DEF TypeOK, BarVal
<1>8. file' \in [Apps -> Slots \cup {NoSlot}]
  BY <1>3 DEF TypeOK, BindTypeOK
<1> QED
  BY <1>2, <1>4, <1>5, <1>k, <1>6, <1>7, <1>8, CardAssumption DEF BindInv, TypeOK

LEMMA AppFile ==
  ASSUME SboneInv, NEW a \in Apps, Start(a) \/ AppStep(a) \/ Kill(a)
  PROVE  FileInv'
<1>0. slot' = slot /\ TypeOK /\ FileInv
  BY AppTypes DEF SboneInv
<1> USE DEF Goes
<1>1. CASE Start(a) \/ Save(a) \/ WriteOnes(a) \/ Restore(a)
  BY <1>0, <1>1 DEF Start, Save, WriteOnes, Restore, FileInv, TypeOK
<1>2. CASE OpenDevice(a)
  <2>1. ASSUME NEW s \in cdev \cap bits
        PROVE  s \in Slots /\ \E p \in Pdevs : slot[p] = s
    BY <2>1 DEF SboneInv, BindInv, BindTypeOK, SlotInv
  <2> QED
    BY <1>0, <1>2, <2>1 DEF OpenDevice, FileInv, TypeOK
<1>3. CASE ClearIrqCount(a) \/ Trigger(a) \/ Select(a) \/ ReadIrqCount(a)
  BY <1>0, <1>3 DEF ClearIrqCount, Trigger, Select, ReadIrqCount, FileInv, TypeOK
<1>4. CASE CloseDevice(a) \/ Kill(a)
  BY <1>0, <1>4 DEF CloseDevice, Kill, FileInv, TypeOK
<1> QED
  BY <1>1, <1>2, <1>3, <1>4 DEF AppStep

LEMMA AppCount ==
  ASSUME SboneInv, NEW a \in Apps, Start(a) \/ AppStep(a) \/ Kill(a)
  PROVE  CountInv' /\ ReportedCount'
<1> SUFFICES ASSUME Exclusive PROVE CountInv' /\ ReportedCount'
  BY DEF CountInv, ReportedCount
<1>0. TypeOK /\ FileInv /\ CountInv /\ ReportedCount /\ pend \subseteq {Card}
  BY DEF SboneInv
<1>1. \A b \in Apps \ {a} : apc[b] = "off" /\ apc'[b] = "off"
  BY <1>0 DEF Start, AppStep, Kill, Save, WriteOnes, Restore, OpenDevice, ClearIrqCount,
     Trigger, Select, ReadIrqCount, CloseDevice, Goes, CountInv, TypeOK
\* What is left to show is about the process that takes the step
<1>2. SUFFICES /\ apc'[a] = "trigger" => Expected(a)' <= LeftOver'
               /\ apc'[a] \in {"select", "get"} => Expected(a)' <= LeftOver' + 1
               /\ apc'[a] = "get" /\ a \notin undone' => irq_count'[file'[a]] >= 1
               /\ Card \in pend' => killed' \/ apc'[a] = "select"
               /\ apc'[a] = "report" =>
                    /\ nirqs'[a] <= IF killed' THEN 2 ELSE 1
                    /\ a \notin undone' => nirqs'[a] >= 1
  BY <1>1 DEF CountInv, ReportedCount
<1>3. Card \in pend => killed \/ apc[a] = "select"
  BY <1>0, <1>1 DEF CountInv
<1> USE DEF Goes
<1>4. CASE Start(a) \/ Save(a) \/ WriteOnes(a) \/ Restore(a) \/ OpenDevice(a)
  <2>1. /\ apc[a] \in {"off", "save", "ones", "restore", "open"}
        /\ apc'[a] \in {"save", "ones", "restore", "open", "clear", "off"}
        /\ UNCHANGED <<pend, killed>>
    BY <1>0, <1>4 DEF Start, Save, WriteOnes, Restore, OpenDevice, irqVars, TypeOK
  <2> QED
    BY <1>3, <2>1
<1>5. CASE ClearIrqCount(a)
  <2>1. /\ apc[a] = "clear" /\ apc'[a] = "trigger" /\ UNCHANGED <<pend, killed, file>>
        /\ irq_count' = [irq_count EXCEPT ![file[a]] = 0] /\ file[a] \in Slots
    BY <1>0, <1>5 DEF ClearIrqCount, GetIrqCount, TypeOK, FileInv
  <2>2. irq_count'[file'[a]] = 0
    BY <1>0, <2>1 DEF TypeOK
  <2> QED
    BY <1>3, <2>1, <2>2 DEF Expected, LeftOver
<1>6. CASE Trigger(a)
  <2>1. /\ apc[a] = "trigger" /\ apc'[a] = "select"
        /\ UNCHANGED <<irq_count, killed, file>> /\ file[a] \in Slots
    BY <1>0, <1>6 DEF Trigger, TypeOK, FileInv
  <2>2. Expected(a) <= LeftOver /\ irq_count[file[a]] \in Nat
    BY <1>0, <2>1 DEF CountInv, TypeOK
  <2> QED
    BY <2>1, <2>2 DEF Expected, LeftOver
<1>7. CASE Select(a)
  <2>1. /\ apc[a] = "select" /\ apc'[a] = "get" /\ irq_count[file[a]] > 0
        /\ UNCHANGED <<irq_count, pend, killed, file>> /\ file[a] \in Slots
    BY <1>0, <1>7 DEF Select, TypeOK, FileInv, irqVars
  <2>2. Expected(a) <= LeftOver + 1 /\ irq_count[file[a]] \in Nat
    BY <1>0, <2>1 DEF CountInv, TypeOK
  <2>3. irq_count[file[a]] >= 1 /\ (Card \in pend => killed)
    BY <2>1, <2>2 DEF Expected, LeftOver
  <2> QED
    BY <2>1, <2>2, <2>3 DEF Expected, LeftOver
<1>8. CASE ReadIrqCount(a)
  <2>1. /\ apc[a] = "get" /\ apc'[a] = "report" /\ file[a] \in Slots
        /\ UNCHANGED <<pend, killed, undone>> /\ nirqs'[a] = irq_count[file[a]]
    BY <1>0, <1>8 DEF ReadIrqCount, TypeOK, FileInv
  <2>2. Expected(a) <= LeftOver + 1 /\ irq_count[file[a]] \in Nat
    BY <1>0, <2>1 DEF CountInv, TypeOK
  <2>3. a \notin undone => irq_count[file[a]] >= 1
    BY <1>0, <2>1 DEF CountInv
  <2>4. irq_count[file[a]] <= IF killed THEN 2 ELSE 1
    BY <2>2 DEF Expected, LeftOver
  <2> QED
    BY <1>3, <2>1, <2>3, <2>4
<1>9. CASE CloseDevice(a)
  <2>1. /\ apc[a] \in {"report", "close"} /\ apc'[a] = "off" /\ UNCHANGED <<pend, killed>>
    BY <1>0, <1>9 DEF CloseDevice, irqVars, TypeOK
  <2> QED
    BY <1>3, <2>1
<1>10. CASE Kill(a)
  <2>1. apc'[a] = "close" /\ killed'
    BY <1>0, <1>10 DEF Kill, TypeOK
  <2> QED
    BY <2>1
<1> QED
  BY <1>4, <1>5, <1>6, <1>7, <1>8, <1>9, <1>10 DEF AppStep

LEMMA AppSbone ==
  ASSUME SboneInv, NEW a \in Apps, Start(a) \/ AppStep(a) \/ Kill(a)
  PROVE  SboneInv'
BY AppTypes, AppFile, AppCount DEF SboneInv

LEMMA SboneStep == SboneInv /\ [Next]_vars => SboneInv'
<1> SUFFICES ASSUME SboneInv, [Next]_vars PROVE SboneInv'
  OBVIOUS
<1>1. CASE \E p \in Pdevs : sbone_pci_probe(p) \/ sbone_pci_remove(p) \/ irq_handler(p)
  BY <1>1, ProbeSbone, RemoveSbone, HandlerSbone
<1>2. CASE Module
  BY <1>2, ModuleSbone
<1>3. CASE \E a \in Apps : Start(a) \/ AppStep(a) \/ Kill(a)
  BY <1>3, AppSbone
<1>4. CASE UNCHANGED vars
  <2>1. UNCHANGED <<bindVars, irqVars, appVars>>
    BY <1>4 DEF vars
  <2>2. BindInv' /\ slot' = slot
    BY <2>1 DEF SboneInv, bindVars, BindInv, BindTypeOK, StageInv, SlotInv
  <2> QED
    BY <2>1, <2>2, IdleSbone
<1> QED
  BY <1>1, <1>2, <1>3, <1>4 DEF Next

\* The invariant of the sbone stack holds in every state, over any order of
\* probes, failures, removals, interrupts and runs of the program.
THEOREM SboneSafety == Spec => []SboneInv
  BY SboneInit, SboneStep, PTL DEF Spec

\* Every variable of the driver and the program has its type: the structures
\* taken by sbone_dev_alloc are in its table, and the counter never goes below
\* zero.
THEOREM SboneTyping == Spec => []TypeOK
<1>1. SboneInv => TypeOK
  BY DEF SboneInv
<1> QED
  BY <1>1, SboneSafety, PTL

\* An interrupt handler that runs finds its device: the structure it was given
\* is allocated to that device alone and the BARs are mapped in it, whichever
\* step of whichever concurrent probe failed.
THEOREM HandlerFindsDevice == Spec => []HandlerReady
<1>1. SboneInv => HandlerReady
  BY BindInvHandler DEF SboneInv
<1> QED
  BY <1>1, SboneSafety, PTL

\* The error labels of the probe and the removal give everything back, but for
\* the region of a BAR that could not be mapped.
THEOREM UnwindComplete == Spec => []UnboundClean
<1>1. SboneInv => UnboundClean
  BY BindInvClean DEF SboneInv
<1> QED
  BY <1>1, SboneSafety, PTL

\* With one program at a time, for any number of devices, structures, processes
\* and runs, what a program reports through SBONE_IOCTL_GET_IRQCOUNT is its own
\* interrupt, with at most the one a killed program left behind; and it is not
\* zero unless the device was removed under it.
THEOREM CountsReported == Spec => []ReportedCount
<1>1. SboneInv => ReportedCount
  BY DEF SboneInv
<1> QED
  BY <1>1, SboneSafety, PTL
============================================================================
