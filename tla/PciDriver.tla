----------------------------- MODULE PciDriver -----------------------------
(***************************************************************************)
(* How the Linux drivers bind to PCI devices.  kdma.c and sbone.c have the *)
(* same code for it: a table of device structures with a bitmap of the     *)
(* allocated ones, the probe with its chain of error labels, the removal,  *)
(* and the module's entry points.  Probes and removals of different        *)
(* devices run concurrently, and interrupts arrive at any time.  Each call *)
(* into the kernel is a step, and each may fail where the code handles it. *)
(***************************************************************************)
EXTENDS Naturals

CONSTANTS
  Pdevs,     \* the PCI devices with the driver's identifiers
  NSlots,    \* KDMA_DEV_COUNT, SBONE_DEV_COUNT
  PciBars,   \* the memory BARs of a device
  NoSlot     \* a NULL kdma_dev

Slots == 0..(NSlots - 1)

ASSUME NSlotsAssumption == NSlots \in Nat \ {0}
ASSUME PciBarsAssumption == PciBars \subseteq Nat /\ PciBars # {}
ASSUME NoSlotAssumption == NoSlot \notin Slots

VARIABLES
  mod,       \* the module: "out", "in", or "exit": in kdma_exit
  bits,      \* kdma_driver.bits: the allocated structures
  ppc,       \* where the probe or the removal of each device is
  others,    \* the structures of devices that stay bound while the module is in
  seen,      \* the bitmap kdma_dev_alloc captured
  idx,       \* and the bit it looks at
  slot,      \* the structure of each device, its driver data
  vadr,      \* the BARs mapped in each structure
  region,    \* the regions the driver holds of each device
  msi,       \* the devices with MSI enabled
  irq,       \* the devices with the interrupt handler installed
  cdev,      \* the structures with their character device registered
  enabled,   \* the devices enabled
  failed     \* the devices error_detected has disabled since they were bound

bindVars == <<mod, bits, others, ppc, seen, idx, slot, vadr, region, msi, irq, cdev,
              enabled, failed>>

\* "err4" to "err1" are the labels on_error_4 to on_error_1
BindPc == {"none", "alloc", "enable", "map", "msi", "irq", "cdev", "bound",
           "err4", "err3", "err2", "err1"}

BindTypeOK ==
  /\ mod \in {"out", "in", "exit"} /\ bits \subseteq Slots /\ others \subseteq Slots
  /\ ppc \in [Pdevs -> BindPc] /\ seen \in [Pdevs -> SUBSET Slots]
  /\ idx \in [Pdevs -> 0..NSlots] /\ slot \in [Pdevs -> Slots \cup {NoSlot}]
  /\ vadr \in [Slots -> SUBSET PciBars] /\ region \in [Pdevs -> SUBSET PciBars]
  /\ msi \subseteq Pdevs /\ irq \subseteq Pdevs /\ cdev \subseteq Slots
  /\ enabled \subseteq Pdevs /\ failed \subseteq Pdevs

BindInit ==
  /\ mod = "out" /\ bits = {} /\ others = {}
  /\ ppc = [p \in Pdevs |-> "none"]
  /\ seen = [p \in Pdevs |-> {}] /\ idx = [p \in Pdevs |-> 0]
  /\ slot = [p \in Pdevs |-> NoSlot]
  /\ vadr = [s \in Slots |-> {}] /\ region = [p \in Pdevs |-> {}]
  /\ msi = {} /\ irq = {} /\ cdev = {} /\ enabled = {} /\ failed = {}

----------------------------------------------------------------------------
(* The module *)

\* kdma_init: when one of its calls fails, everything is undone.  Registering
\* the driver probes the devices present: of those outside Pdevs only the
\* structures they take are modelled.
ModuleInit ==
  /\ mod = "out" /\ mod' = "in"
  /\ others' \in SUBSET Slots /\ bits' = others'
  /\ UNCHANGED <<ppc, seen, idx, slot, vadr, region, msi, irq, cdev, enabled, failed>>

\* kdma_exit: pci_unregister_driver removes the devices, and the numbers are
\* given back when all are gone
ModuleExit ==
  /\ \/ mod = "in" /\ mod' = "exit" /\ UNCHANGED <<bits, others>>
     \/ /\ mod = "exit" /\ (\A p \in Pdevs : ppc[p] = "none") /\ mod' = "out"
        /\ bits' = bits \ others /\ others' = {}
  /\ UNCHANGED <<ppc, seen, idx, slot, vadr, region, msi, irq, cdev, enabled, failed>>

----------------------------------------------------------------------------
(* The probe *)

At(p, from, to) == ppc[p] = from /\ ppc' = [ppc EXCEPT ![p] = to]

\* The kernel calls the probe; kdma_dev_alloc captures the bitmap
ProbeStart(p) ==
  /\ mod = "in" /\ At(p, "none", "alloc")
  /\ seen' = [seen EXCEPT ![p] = bits] /\ idx' = [idx EXCEPT ![p] = 0]
  /\ UNCHANGED <<mod, others, bits, slot, vadr, region, msi, irq, cdev, enabled, failed>>

\* The locals of kdma_dev_alloc are gone when it returns
DropCapture(p) == seen' = [seen EXCEPT ![p] = {}] /\ idx' = [idx EXCEPT ![p] = 0]

\* Faulty variant: the bit is set, but not together with the test for a race.
DevAlloc_NoTest(p) ==
  /\ idx[p] < NSlots /\ idx[p] \notin seen[p]
  /\ At(p, "alloc", "enable")
  /\ bits' = bits \cup {idx[p]} /\ slot' = [slot EXCEPT ![p] = idx[p]]
  /\ vadr' = [vadr EXCEPT ![idx[p]] = {}]
  /\ DropCapture(p) /\ UNCHANGED <<mod, others, region, msi, irq, cdev, enabled, failed>>

\* Faulty variant: the loop runs to i <= ndev.
DevAlloc_OffByOne(p) ==
  /\ idx[p] <= NSlots /\ idx[p] \notin seen[p] /\ idx[p] \notin bits
  /\ At(p, "alloc", "enable")
  /\ bits' = bits \cup {idx[p]} /\ slot' = [slot EXCEPT ![p] = idx[p]]
  /\ vadr' = [vadr EXCEPT ![idx[p]] = {}]
  /\ DropCapture(p) /\ UNCHANGED <<mod, others, region, msi, irq, cdev, enabled, failed>>

\* A turn of the loop that takes a structure: the bit was free in the captured
\* bitmap, and still is
DevAlloc(p) ==
  /\ idx[p] < NSlots /\ idx[p] \notin seen[p] /\ idx[p] \notin bits
  /\ At(p, "alloc", "enable")
  /\ bits' = bits \cup {idx[p]} /\ slot' = [slot EXCEPT ![p] = idx[p]]
  /\ vadr' = [vadr EXCEPT ![idx[p]] = {}]
  /\ DropCapture(p) /\ UNCHANGED <<mod, others, region, msi, irq, cdev, enabled, failed>>

\* A turn that goes on to the next bit: it was taken, or has been "in between"
DevAllocNext(p) ==
  /\ ppc[p] = "alloc" /\ idx[p] < NSlots
  /\ ~(idx[p]..(NSlots - 1) \subseteq seen[p])
  /\ idx[p] \in seen[p] \cup bits
  /\ idx' = [idx EXCEPT ![p] = @ + 1]
  /\ UNCHANGED <<mod, others, bits, ppc, seen, slot, vadr, region, msi, irq, cdev, enabled, failed>>

\* No structure is left: on_error_0
DevAllocFail(p) ==
  /\ idx[p]..(NSlots - 1) \subseteq seen[p]
  /\ At(p, "alloc", "none")
  /\ DropCapture(p)
  /\ UNCHANGED <<mod, others, bits, slot, vadr, region, msi, irq, cdev, enabled, failed>>

EnableDevice(p) ==
  /\ \/ At(p, "enable", "map") /\ enabled' = enabled \cup {p}
     \/ p \notin enabled /\ At(p, "enable", "err1") /\ UNCHANGED enabled
  /\ UNCHANGED <<mod, others, bits, seen, idx, slot, vadr, region, msi, irq, cdev, failed>>

\* kdma_dev_map_bars: the BARs in turn.  After the first failure the ones
\* mapped before are unmapped and released, but a BAR whose ioremap failed has
\* a null address, by which kdma_dev_unmap_bars takes it for one not requested.
MapBars(p) ==
  /\ \/ /\ region[p] = {} /\ At(p, "map", "msi")
        /\ region' = [region EXCEPT ![p] = PciBars]
        /\ vadr' = [vadr EXCEPT ![slot[p]] = PciBars]
     \/ /\ At(p, "map", "err2")
        /\ UNCHANGED <<region, vadr>>
     \/ /\ At(p, "map", "err2")
        /\ \E b \in PciBars \ region[p] :
             /\ \A c \in region[p] : b < c
             /\ region' = [region EXCEPT ![p] = @ \cup {b}]
        /\ UNCHANGED vadr
  /\ UNCHANGED <<mod, others, bits, seen, idx, slot, msi, irq, cdev, enabled, failed>>

EnableMsi(p) ==
  /\ \/ At(p, "msi", "irq") /\ msi' = msi \cup {p}
     \/ At(p, "msi", "err2") /\ UNCHANGED msi
  /\ UNCHANGED <<mod, others, bits, seen, idx, slot, vadr, region, irq, cdev, enabled, failed>>

RequestIrq(p) ==
  /\ \/ At(p, "irq", "cdev") /\ irq' = irq \cup {p}
     \/ At(p, "irq", "err3") /\ UNCHANGED irq
  /\ UNCHANGED <<mod, others, bits, seen, idx, slot, vadr, region, msi, cdev, enabled, failed>>

CdevInit(p) ==
  /\ \/ At(p, "cdev", "bound") /\ cdev' = cdev \cup {slot[p]}
     \/ At(p, "cdev", "err4") /\ UNCHANGED cdev
  /\ UNCHANGED <<mod, others, bits, seen, idx, slot, vadr, region, msi, irq, enabled, failed>>

----------------------------------------------------------------------------
(* The way back: the error labels, and the removal, which takes the same steps *)

\* kdma_cdev_fini, when the device is removed
Remove(p) ==
  /\ At(p, "bound", "err4")
  /\ cdev' = cdev \ {slot[p]}
  /\ UNCHANGED <<mod, others, bits, seen, idx, slot, vadr, region, msi, irq, enabled, failed>>

FreeIrq(p) ==
  /\ At(p, "err4", "err3")
  /\ irq' = irq \ {p}
  /\ UNCHANGED <<mod, others, bits, seen, idx, slot, vadr, region, msi, cdev, enabled, failed>>

\* Faulty variant: the label of the step behind the one that failed.
DisableMsi_Skip(p) ==
  /\ At(p, "err3", "err1")
  /\ msi' = msi \ {p}
  /\ UNCHANGED <<mod, others, bits, seen, idx, slot, vadr, region, irq, cdev, enabled, failed>>

DisableMsi(p) ==
  /\ At(p, "err3", "err2")
  /\ msi' = msi \ {p}
  /\ UNCHANGED <<mod, others, bits, seen, idx, slot, vadr, region, irq, cdev, enabled, failed>>

\* kdma_dev_unmap_bars and pci_disable_device
UnmapBars(p) ==
  /\ At(p, "err2", "err1")
  /\ region' = [region EXCEPT ![p] = @ \ vadr[slot[p]]]
  /\ vadr' = [vadr EXCEPT ![slot[p]] = {}]
  /\ enabled' = enabled \ {p}
  /\ UNCHANGED <<mod, others, bits, seen, idx, slot, msi, irq, cdev, failed>>

DevFree(p) ==
  /\ At(p, "err1", "none")
  /\ bits' = bits \ {slot[p]}
  /\ slot' = [slot EXCEPT ![p] = NoSlot]
  /\ failed' = failed \ {p}
  /\ UNCHANGED <<mod, others, seen, idx, vadr, region, msi, irq, cdev, enabled>>

\* kdma_pci_error_detected, unless the failure is permanent.  The handlers
\* that report the recovery change nothing: the device stays disabled.
ErrorDetected(p) ==
  /\ ppc[p] = "bound"
  /\ enabled' = enabled \ {p} /\ failed' = failed \cup {p}
  /\ UNCHANGED <<mod, others, bits, ppc, seen, idx, slot, vadr, region, msi, irq, cdev>>

Probe(p) ==
  \/ ProbeStart(p) \/ DevAlloc(p) \/ DevAllocNext(p) \/ DevAllocFail(p)
  \/ EnableDevice(p) \/ MapBars(p) \/ EnableMsi(p) \/ RequestIrq(p) \/ CdevInit(p)

Unwind(p) == FreeIrq(p) \/ DisableMsi(p) \/ UnmapBars(p) \/ DevFree(p)

----------------------------------------------------------------------------
(* Safety *)

\* A handler that runs finds its device: the structure passed to request_irq is
\* allocated, no other device has it, and the BARs are held and mapped in it
\* (kdma reads the status register there).  Against concurrent probes, failures at any
\* step, and removals.
HandlerReady ==
  \A p \in irq :
    /\ slot[p] \in bits /\ vadr[slot[p]] = PciBars /\ region[p] = PciBars
    /\ slot[p] \notin others /\ \A q \in Pdevs \ {p} : slot[q] # slot[p]
    /\ p \notin failed => p \in enabled

\* A device that is not bound holds nothing, whichever step of its probe
\* failed: no handler, no MSI, no character device, no mapping, no structure.
\* The exception is the region of a BAR whose ioremap failed: nothing releases
\* it, and every later probe of the device fails on it.
UnboundClean ==
  /\ \A p \in Pdevs : ppc[p] = "none" =>
       p \notin msi \cup irq \cup enabled /\ slot[p] = NoSlot
  /\ \A s \in Slots \ others : (\A p \in Pdevs : slot[p] # s) =>
       s \notin bits \cup cdev /\ vadr[s] = {}

----------------------------------------------------------------------------
(* The inductive invariant behind the two *)

\* What a device holds at each place of its probe and its removal
StageInv ==
  \A p \in Pdevs :
    /\ slot[p] = NoSlot <=> ppc[p] \in {"none", "alloc"}
    /\ p \in irq <=> ppc[p] \in {"cdev", "bound", "err4"}
    /\ p \in msi <=> ppc[p] \in {"irq", "cdev", "bound", "err4", "err3"}
    /\ ppc[p] \in {"msi", "irq", "cdev", "bound", "err4", "err3"} =>
         /\ region[p] = PciBars /\ vadr[slot[p]] = PciBars
         /\ p \in failed \/ p \in enabled
    /\ ppc[p] = "map" => p \in enabled
    /\ ppc[p] \in {"enable", "map", "err1"} => vadr[slot[p]] = {}
    /\ p \in enabled => ppc[p] \notin {"none", "alloc", "enable", "err1"}
    /\ p \in failed => ppc[p] \in {"bound", "err4", "err3", "err2", "err1"}
    /\ slot[p] \in cdev <=> ppc[p] = "bound"

\* The structures: one owner each, and nothing in those without one
SlotInv ==
  /\ others \subseteq bits
  /\ \A p \in Pdevs : slot[p] # NoSlot =>
       slot[p] \in bits \ others /\ \A q \in Pdevs : slot[q] = slot[p] => q = p
  /\ \A s \in Slots : (\A p \in Pdevs : slot[p] # s) =>
       s \notin cdev /\ vadr[s] = {} /\ (s \in bits => s \in others)
  /\ mod = "out" => \A p \in Pdevs : ppc[p] = "none"

BindInv == BindTypeOK /\ StageInv /\ SlotInv
============================================================================
