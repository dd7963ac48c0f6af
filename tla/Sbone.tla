------------------------------- MODULE Sbone -------------------------------
(***************************************************************************)
(* The sbone stack in the guest: the driver (sbone.c: PciDriver for the    *)
(* binding; interrupt counter, ioctl, poll), the library (sbone_dev.c) and *)
(* the test program (u/main.c), which maps the BARs of the device at a     *)
(* fixed PCI address, makes it interrupt, and waits for that.              *)
(***************************************************************************)
EXTENDS PciDriver

CONSTANTS
  Apps,        \* the processes that run the test program
  Card,        \* the device at the PCI address the program uses
  Exclusive,   \* the users run one program at a time
  MaxRuns      \* bound on the runs of the program

ASSUME CardAssumption == Card \in Pdevs
ASSUME ExclusiveAssumption == Exclusive \in BOOLEAN /\ MaxRuns \in Nat

VARIABLES
  irq_count,   \* dev->irq_count of each structure
  pend,        \* the devices with an MSI the CPU has not taken yet
  bar,         \* what the register of a BAR of Card holds, see BarVal
  apc,         \* where each process is
  saved,       \* get_bar_size's saved_long
  file,        \* the structure in private_data of the process' open file
  nirqs,       \* the number of interrupts it reports
  undone,      \* the processes running when Card, or the device of their file,
               \* was removed or failed
  killed,      \* a program was killed
  runs         \* runs of the program so far

progVars == <<bar, apc, saved, file, nirqs, killed, runs>>
appVars == <<progVars, undone>>
irqVars == <<irq_count, pend>>
vars == <<bindVars, irqVars, appVars>>

\* The register decodes the address assigned to it, or holds the size mask
BarVal == {"addr", "mask"}

AppPc == {"off", "save", "ones", "restore", "open", "clear", "trigger", "select",
          "get", "report", "close"}

TypeOK ==
  /\ BindTypeOK
  /\ irq_count \in [Slots -> Nat] /\ pend \subseteq Pdevs
  /\ bar \in BarVal /\ apc \in [Apps -> AppPc] /\ saved \in [Apps -> BarVal]
  /\ file \in [Apps -> Slots \cup {NoSlot}] /\ nirqs \in [Apps -> Nat]
  /\ undone \subseteq Apps /\ killed \in BOOLEAN /\ runs \in 0..MaxRuns

Init ==
  /\ BindInit
  /\ irq_count = [s \in Slots |-> 0] /\ pend = {}
  /\ bar = "addr" /\ apc = [a \in Apps |-> "off"]
  /\ saved = [a \in Apps |-> "addr"]
  /\ file = [a \in Apps |-> NoSlot] /\ nirqs = [a \in Apps |-> 0]
  /\ undone = {} /\ killed = FALSE /\ runs = 0

----------------------------------------------------------------------------
(* The driver *)

\* sbone_pci_probe; sbone_dev_init clears the counter of the structure taken
sbone_pci_probe(p) ==
  /\ Probe(p)
  /\ LET fresh == {s \in Slots : slot[p] = NoSlot /\ slot'[p] = s}
     IN  irq_count' = [s \in Slots |-> IF s \in fresh THEN 0 ELSE irq_count[s]]
  /\ UNCHANGED <<pend, appVars>>

sbone_pci_remove(p) ==
  /\ Remove(p) \/ Unwind(p) \/ ErrorDetected(p)
  /\ pend' = pend \cap irq'
  /\ undone' = undone \cup
                 {a \in Apps : \/ (p = Card /\ apc[a] # "off")
                              \/ (slot[p] # NoSlot /\ file[a] = slot[p])}
  /\ UNCHANGED <<irq_count, progVars>>

\* An open file holds a reference to the module.
Module ==
  /\ ModuleInit \/ (ModuleExit /\ \A a \in Apps : file[a] = NoSlot)
  /\ UNCHANGED <<irqVars, appVars>>

irq_handler(p) ==
  /\ p \in irq \cap pend
  /\ pend' = pend \ {p}
  /\ irq_count' = [irq_count EXCEPT ![slot[p]] = @ + 1]
  /\ UNCHANGED <<bindVars, appVars>>

\* Faulty variant: the count is returned and stays.
GetIrqCount_NoClear(s) == irq_count' = irq_count

\* SBONE_IOCTL_GET_IRQCOUNT: read and cleared by one atomic operation
GetIrqCount(s) == irq_count' = [irq_count EXCEPT ![s] = 0]

----------------------------------------------------------------------------
(* The program *)

Goes(a, from, to) == apc[a] = from /\ apc' = [apc EXCEPT ![a] = to]

Start(a) ==
  /\ Goes(a, "off", "save") /\ runs < MaxRuns
  /\ Exclusive => \A b \in Apps : apc[b] = "off"
  /\ runs' = runs + 1 /\ undone' = undone \ {a}
  /\ UNCHANGED <<bindVars, irqVars, bar, saved, file, nirqs, killed>>

\* get_bar_size: the register is read, set to all ones, read (the size) and
\* written back
Save(a) ==
  /\ Goes(a, "save", "ones") /\ saved' = [saved EXCEPT ![a] = bar]
  /\ UNCHANGED <<bindVars, irqVars, bar, file, nirqs, killed, runs, undone>>

WriteOnes(a) ==
  /\ Goes(a, "ones", "restore") /\ bar' = "mask"
  /\ UNCHANGED <<bindVars, irqVars, saved, file, nirqs, killed, runs, undone>>

Restore(a) ==
  /\ Goes(a, "restore", "open") /\ bar' = saved[a]
  /\ UNCHANGED <<bindVars, irqVars, saved, file, nirqs, killed, runs, undone>>

\* sbone_file_open; where the BARs cannot be mapped or the file cannot be
\* opened sbone_dev_open_pcie fails and the process ends, its mappings with it
OpenDevice(a) ==
  /\ \/ \E s \in cdev \cap bits :
          mod = "in" /\ Goes(a, "open", "clear") /\ file' = [file EXCEPT ![a] = s]
     \/ Goes(a, "open", "off") /\ UNCHANGED file
  /\ UNCHANGED <<bindVars, irqVars, bar, saved, nirqs, killed, runs, undone>>

\* clear_irqcount, before the write that triggers the interrupt
ClearIrqCount(a) ==
  /\ Goes(a, "clear", "trigger") /\ GetIrqCount(file[a])
  /\ UNCHANGED <<bindVars, pend, bar, saved, file, nirqs, killed, runs, undone>>

\* w(&dev, 0x20, 0): the write reaches Card if the BAR decodes, and Card sends
\* an MSI if it may
Trigger(a) ==
  /\ Goes(a, "trigger", "select")
  /\ pend' = IF bar = "addr" /\ Card \in msi \cap enabled THEN pend \cup {Card} ELSE pend
  /\ UNCHANGED <<bindVars, irq_count, bar, saved, file, nirqs, killed, runs, undone>>

\* Faulty variant: off by one.
Select_Strict(a) ==
  /\ Goes(a, "select", "get") /\ irq_count[file[a]] > 1
  /\ UNCHANGED <<bindVars, irqVars, bar, saved, file, nirqs, killed, runs, undone>>

\* select returns when sbone_file_poll finds the counter set
Select(a) ==
  /\ Goes(a, "select", "get") /\ irq_count[file[a]] > 0
  /\ UNCHANGED <<bindVars, irqVars, bar, saved, file, nirqs, killed, runs, undone>>

\* get_irqcount, and "got interrupt: %lu"
ReadIrqCount(a) ==
  /\ Goes(a, "get", "report") /\ GetIrqCount(file[a])
  /\ nirqs' = [nirqs EXCEPT ![a] = irq_count[file[a]]]
  /\ UNCHANGED <<bindVars, pend, bar, saved, file, killed, runs, undone>>

\* The file is closed, by the program or when its process ends
CloseDevice(a) ==
  /\ Goes(a, "report", "off") \/ Goes(a, "close", "off")
  /\ file' = [file EXCEPT ![a] = NoSlot] /\ nirqs' = [nirqs EXCEPT ![a] = 0]
  /\ UNCHANGED <<bindVars, irqVars, bar, saved, killed, runs, undone>>

\* The user interrupts a program, in between its calls or in select: a BAR that
\* is being sized keeps the mask
Kill(a) ==
  /\ apc[a] \notin {"off", "close"} /\ apc' = [apc EXCEPT ![a] = "close"]
  /\ killed' = TRUE
  /\ UNCHANGED <<bindVars, irqVars, bar, saved, file, nirqs, runs, undone>>

AppStep(a) ==
  \/ Save(a) \/ WriteOnes(a) \/ Restore(a) \/ OpenDevice(a)
  \/ ClearIrqCount(a) \/ Trigger(a) \/ Select(a) \/ ReadIrqCount(a) \/ CloseDevice(a)

Next ==
  \/ \E p \in Pdevs : sbone_pci_probe(p) \/ sbone_pci_remove(p) \/ irq_handler(p)
  \/ Module
  \/ \E a \in Apps : Start(a) \/ AppStep(a) \/ Kill(a)

Spec == Init /\ [][Next]_vars

----------------------------------------------------------------------------
(* Properties *)

\* With one program at a time, the number a program reports is that of its own
\* interrupt: one, however clear, trigger, handler, poll and read interleave,
\* and over any removals and probes.  Behind a program that was killed it may
\* find one more, the interrupt that one left behind; and it may find none if
\* its device was removed and its structure given out again under it.
ReportedCount ==
  Exclusive =>
    \A a \in Apps : apc[a] = "report" =>
      /\ nirqs[a] <= IF killed THEN 2 ELSE 1
      /\ a \notin undone => nirqs[a] >= 1

----------------------------------------------------------------------------
(* The inductive invariant behind it *)

\* The structure of an open file is a device's, unless that was removed
FileInv ==
  \A a \in Apps :
    /\ apc[a] \in {"clear", "trigger", "select", "get", "report"} => file[a] \in Slots
    /\ apc[a] \in {"off", "save", "ones", "restore", "open"} => file[a] = NoSlot
    /\ file[a] # NoSlot /\ a \notin undone => \E p \in Pdevs : slot[p] = file[a]

\* What a killed program may leave behind
LeftOver == IF killed THEN 1 ELSE 0

\* The interrupts process a would find if it looked when all are taken
Expected(a) == irq_count[file[a]] + (IF Card \in pend THEN 1 ELSE 0)

\* With one program at a time its interrupt is counted or on its way to be, with
\* at most one that is left over
CountInv ==
  Exclusive =>
    /\ \A a, b \in Apps : apc[a] # "off" /\ apc[b] # "off" => a = b
    /\ \A a \in Apps :
         /\ apc[a] = "trigger" => Expected(a) <= LeftOver
         /\ apc[a] \in {"select", "get"} => Expected(a) <= LeftOver + 1
         /\ apc[a] = "get" /\ a \notin undone => irq_count[file[a]] >= 1
    /\ Card \in pend => killed \/ \E a \in Apps : apc[a] = "select"

\* The invariant of the stack
SboneInv ==
  BindInv /\ TypeOK /\ pend \subseteq {Card} /\ FileInv /\ CountInv /\ ReportedCount

----------------------------------------------------------------------------
\* The processes run, a CPU takes its interrupts, and nobody removes a device.
Fairness ==
  /\ \A a \in Apps : WF_vars(AppStep(a))
  /\ \A p \in Pdevs : WF_vars(irq_handler(p))

FairSpec == Spec /\ Fairness

\* The wait of the program ends: the count is cleared before the register is
\* written and the interrupt counted behind it.  Exceptions: the file is
\* another device's, the device was removed or disabled under the program, or
\* a program killed in get_bar_size has left the BAR at the mask, where no
\* access reaches the device.
WaitEnds ==
  \A a \in Apps :
    (apc[a] = "select" /\ file[a] = slot[Card] /\ Card \notin failed /\ bar = "addr")
      ~> (apc[a] # "select" \/ a \in undone)
============================================================================
