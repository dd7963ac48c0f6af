---------------------------- MODULE PcieConfig ----------------------------
(***************************************************************************)
(* The configuration space of the device (pcie.c, pcie.h), its shadow in   *)
(* QEMU, and the probing of the BARs that keeps the two together           *)
(* (00_pciefw.patch).  A register is four bytes of Base values each, so    *)
(* that partial writes and the width of an access matter; Flags stands for *)
(* the 16 of PCI_ADDR_FLAG_MASK.  A message and its handler are one step:  *)
(* the link serves one request at a time, in order (see VPcie).            *)
(***************************************************************************)
EXTENDS Naturals

CONSTANTS
  Base,     \* the values of a byte
  Flags,    \* PCI_ADDR_FLAG_MASK + 1
  NBars,    \* PCIE_BAR_COUNT
  Sizes,    \* the sizes a device may give pcie_set_bar
  Widths,   \* the widths of a guest's accesses, in bytes
  Data      \* the values a guest writes

\* The weight of byte k
Weight(k) ==
  CASE k = 0 -> 1
    [] k = 1 -> Base
    [] k = 2 -> Base * Base
    [] k = 3 -> Base * Base * Base
    [] k = 4 -> Base * Base * Base * Base

Modulus == Weight(4)
Values == 0..(Modulus - 1)
Ones == Modulus - 1              \* (uint32_t)-1

ASSUME BaseAssumption == Base \in Nat \ {0, 1} /\ NBars \in Nat \ {0}
ASSUME FlagsAssumption == Flags \in Nat \ {0} /\ Modulus % Flags = 0
ASSUME WidthsAssumption == Widths \subseteq {1, 2, 4} /\ Data \subseteq Values
\* pcie_set_bar: "size in bytes. must be a power of 2".  That a size is no less
\* than Flags is PCI's minimum for a memory BAR and not tested by pcie_set_bar: a
\* smaller one is lost under the flags, and probed as Flags.
ASSUME SizesAssumption ==
  \A s \in Sizes : s = 0 \/ (s \in Values /\ Modulus % s = 0 /\ s % Flags = 0)

\* Base address registers 0 to NBars - 1, and the register behind the last one
\* (0x28), which the probing loop of QEMU reaches too: PCI_NUM_REGIONS is 7.
BarRegs == 0..(NBars - 1)
ConfigRegs == 0..NBars

VARIABLES
  up,         \* the device runs and is connected
  bar_size,   \* dev->bar_size
  config,     \* dev->config
  mbuf,       \* the first four bytes of the data of the device's message buffer
  pci_conf,   \* QEMU's copy of the registers
  wsize,      \* the size QEMU masks its BAR with, 0: not writable
  hbar,       \* state->bar_size
  probing     \* the next region of pciefw_probe_device, NBars + 1: done

vars == <<up, bar_size, config, mbuf, pci_conf, wsize, hbar, probing>>

Init ==
  /\ up = TRUE /\ bar_size \in [BarRegs -> Sizes]
  /\ config = [r \in ConfigRegs |-> 0] /\ mbuf \in Values
  /\ pci_conf = [r \in ConfigRegs |-> 0] /\ wsize = [r \in BarRegs |-> 0]
  /\ hbar = [r \in ConfigRegs |-> 0] /\ probing = 0

----------------------------------------------------------------------------
(* The device *)

\* memcpy of the first n bytes of d into v at byte b
Put(v, b, n, d) ==
  LET lo == Weight(b)
      hi == Weight(b + n)
  IN  (v \div hi) * hi + (d % Weight(n)) * lo + (v % lo)

\* v & ~(size - 1), for a power of 2
ClearLow(v, size) == v - (v % size)

\* A faulty variant: the bit of the size itself is cleared too.
DecodedMask_Wide(size) == ClearLow(Ones, size) - size

\* What a probe leaves in a BAR
DecodedMask(size) == ClearLow(Ones, size)

\* pcie_net_recv_msg: only the bytes sent are replaced
Received(b, n, d) == Put(b, 0, n, d)

\* The addresses compared with PCI_BASE_ADDRESS_0 and PCI_BASE_ADDRESS_5: the
\* upper bytes of the last BAR are beyond
IsBarAddr(r, b) == r < NBars - 1 \/ (r = NBars - 1 /\ b = 0)

\* on_write_config: a BAR's data is taken as four bytes, whatever the width
on_write_config(cfg, buf, r, b, n) ==
  IF IsBarAddr(r, b) /\ buf = Ones
  THEN IF bar_size[r] # 0 /\ b = 0
       THEN [cfg EXCEPT ![r] = DecodedMask(bar_size[r])]
       ELSE cfg
  ELSE [cfg EXCEPT ![r] = Put(@, b, n, buf)]

----------------------------------------------------------------------------
(* QEMU *)

\* pci_default_write_config, external: a registered BAR keeps its decoded bits
pci_default_write_config(conf, r, b, n, d) ==
  IF r \in BarRegs /\ wsize[r] # 0
  THEN [conf EXCEPT ![r] = ClearLow(Put(@, b, n, d), wsize[r])]
  ELSE conf

\* A faulty variant: 2^32 is not 0 in a wider integer.
ProbedSize_Wide(v) == Modulus - ClearLow(v, Flags)

\* bar_size &= ~PCI_ADDR_FLAG_MASK; bar_size = ~bar_size + 1
ProbedSize(v) == (Modulus - ClearLow(v, Flags)) % Modulus

\* A faulty variant: the address pci_register_bar has set is not sent.
ProbeRegion_NoUpdate ==
  /\ up /\ probing \in ConfigRegs
  /\ LET r == probing
         asked == on_write_config(config, Ones, r, 0, 4)
         restored == on_write_config(asked, pci_conf[r], r, 0, 4)
         size == ProbedSize(asked[r])
     IN  /\ config' = restored
         /\ IF size = 0
            THEN UNCHANGED <<pci_conf, wsize>>
            ELSE /\ pci_conf' = IF r \in BarRegs THEN [pci_conf EXCEPT ![r] = 0] ELSE pci_conf
                 /\ wsize' = IF r \in BarRegs THEN [wsize EXCEPT ![r] = size] ELSE wsize
         /\ mbuf' = pci_conf[r]
         /\ hbar' = [hbar EXCEPT ![r] = size]
  /\ probing' = probing + 1
  /\ UNCHANGED <<up, bar_size>>

\* One turn of the loop of pciefw_probe_device: all ones are written and read
\* back, the address restored, the region registered, which clears QEMU's copy
\* (pci_register_bar, external), and that address is sent.  Region 6 is the ROM
\* to QEMU, so its registration leaves the register behind the BARs alone.
ProbeRegion ==
  /\ up /\ probing \in ConfigRegs
  /\ LET r == probing
         asked == on_write_config(config, Ones, r, 0, 4)
         restored == on_write_config(asked, pci_conf[r], r, 0, 4)
         size == ProbedSize(asked[r])
     IN  /\ IF size = 0
            THEN config' = restored /\ UNCHANGED <<pci_conf, wsize>>
            ELSE /\ pci_conf' = IF r \in BarRegs THEN [pci_conf EXCEPT ![r] = 0] ELSE pci_conf
                 /\ wsize' = IF r \in BarRegs THEN [wsize EXCEPT ![r] = size] ELSE wsize
                 /\ config' = on_write_config(restored, pci_conf'[r], r, 0, 4)
         /\ mbuf' = pci_conf'[r]
         /\ hbar' = [hbar EXCEPT ![r] = size]
  /\ probing' = probing + 1
  /\ UNCHANGED <<up, bar_size>>

\* The device died under the probe: the turn fails and the loop continues
ProbeRegionFails ==
  /\ ~up /\ probing \in ConfigRegs
  /\ hbar' = [hbar EXCEPT ![probing] = 0]
  /\ probing' = probing + 1
  /\ UNCHANGED <<up, bar_size, config, mbuf, pci_conf, wsize>>

\* pciefw_write_config by the guest, aligned: to the device when there is one,
\* and "even if not connected" to QEMU's copy
pciefw_write_config(r, b, n, d) ==
  /\ probing = NBars + 1
  /\ b % n = 0
  /\ IF up
     THEN /\ mbuf' = Received(mbuf, n, d)
          /\ config' = on_write_config(config, mbuf', r, b, n)
     ELSE UNCHANGED <<mbuf, config>>
  /\ pci_conf' = pci_default_write_config(pci_conf, r, b, n, d)
  /\ UNCHANGED <<up, bar_size, wsize, hbar, probing>>

GuestWrite ==
  \E r \in ConfigRegs, n \in Widths, d \in Data :
    \E b \in 0..(4 - n) : d < Weight(n) /\ pciefw_write_config(r, b, n, d)

DeviceDies == up /\ up' = FALSE /\ UNCHANGED <<bar_size, config, mbuf, pci_conf, wsize, hbar, probing>>

\* A device of the same design is started and connected to: pcie_init_net has
\* cleared its registers, and the probe begins
Reconnect ==
  /\ ~up /\ probing = NBars + 1
  /\ up' = TRUE
  /\ config' = [r \in ConfigRegs |-> 0] /\ mbuf' \in Values
  /\ probing' = 0
  /\ UNCHANGED <<bar_size, pci_conf, wsize, hbar>>

Next == ProbeRegion \/ ProbeRegionFails \/ GuestWrite \/ DeviceDies \/ Reconnect
Spec == Init /\ [][Next]_vars

----------------------------------------------------------------------------
(* Properties *)

\* Types: a register is 32 bits wide, and so is the size QEMU computes.
TypeOK ==
  /\ up \in BOOLEAN /\ bar_size \in [BarRegs -> Sizes]
  /\ config \in [ConfigRegs -> Values] /\ mbuf \in Values
  /\ pci_conf \in [ConfigRegs -> Values] /\ wsize \in [BarRegs -> Values]
  /\ hbar \in [ConfigRegs -> Values] /\ probing \in 0..(NBars + 1)

Probed == up /\ probing = NBars + 1

\* The protocol of pciefw_probe_device and on_write_config computes the size of
\* every BAR the device has, in a first life and in later ones.
ProbeExact == Probed => \A r \in BarRegs : hbar[r] = bar_size[r]

\* The address a BAR decodes is the same in the device and in QEMU, across guest
\* writes, writes while unconnected, restarts of the device and probes.
AddrAgree ==
  Probed => \A r \in BarRegs :
    bar_size[r] # 0 => ClearLow(config[r], bar_size[r]) = pci_conf[r]

----------------------------------------------------------------------------
(* The inductive invariants behind the two *)

\* A region the probe has passed in this life of the device has its size in both
\* places; the register of one it has not reached is as pcie_init_net left it.
ProbeInv ==
  \A r \in BarRegs :
    /\ wsize[r] \in {0, bar_size[r]}
    /\ up /\ r < probing => hbar[r] = bar_size[r] /\ wsize[r] = bar_size[r]
    /\ up /\ r >= probing => config[r] = 0

AddrInv ==
  \A r \in BarRegs :
    up /\ r < probing /\ bar_size[r] # 0 => ClearLow(config[r], bar_size[r]) = pci_conf[r]
============================================================================
