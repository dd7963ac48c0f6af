----------------------------- MODULE KdmaProofs -----------------------------
(***************************************************************************)
(* Proofs about Kdma, for any blocks, pages, seeds and processes, and any  *)
(* BARs, mapped or not: types, the bounds of the register accesses, the    *)
(* blocks a program holds, and the chain from the start of a transfer to   *)
(* the check of its data.                                                  *)
(***************************************************************************)
EXTENDS Kdma, TLAPS

----------------------------------------------------------------------------
(* The bounds of a register access *)

\* size_t wraps at most once
LEMMA AddWraps ==
  ASSUME NEW a \in 0..(Span - 1), NEW b \in 0..(Span - 1)
  PROVE  Add(a, b) = IF a + b < Span THEN a + b ELSE a + b - Span
BY SpanAssumption DEF Add

\* The product check_bar_access computes does not wrap
LEMMA SizeFits ==
  ASSUME NEW count \in 0..(Span - 1), count <= (Span - 1) \div Word
  PROVE  count * Word \in 0..(Span - 1)
<1> DEFINE q == (Span - 1) \div Word
<1>1. q \in Nat /\ q * Word <= Span - 1
  BY WordAssumption, SpanAssumption
<1>2. count <= q
  OBVIOUS
<1> HIDE DEF q
<1> DEFINE k == q - count
<1>3. k \in Nat /\ q = count + k
  BY <1>1, <1>2
<1> HIDE DEF k
<1>4. q * Word = count * Word + k * Word /\ count * Word \in Nat /\ k * Word \in Nat
  BY <1>3, WordAssumption
<1> QED
  BY <1>1, <1>4, WordAssumption, SpanAssumption

\* What passes for a BAR that is mapped stays in it, and no sum wraps
LEMMA CheckedInBar ==
  ASSUME NEW bar \in Bars, NEW off \in 0..(Span - 1), NEW count \in 0..(Span - 1),
         check_bar_access(bar, off, count), Vadr[bar] # 0
  PROVE  {Add(Vadr[bar] + off, k) : k \in 0..((count * Word) - 1)} \subseteq BarBytes(bar)
<1> DEFINE size == count * Word
           vadr == Vadr[bar]
           len == BarLen[bar]
           addr == Add(vadr, off)
<1>0. vadr \in 1..(Span - 1) /\ len \in 1..(Span - vadr)
  BY MappedAssumption, SpanAssumption
<1>1. size \in 0..(Span - 1)
  BY SizeFits DEF check_bar_access
<1>2. /\ ~(addr < vadr) /\ ~(Add(addr, size) < addr) /\ Add(off, size) <= len
  BY DEF check_bar_access
<1> HIDE DEF size, vadr, len
<1>3. addr = vadr + off /\ addr \in 0..(Span - 1)
  <2>1. addr = IF vadr + off < Span THEN vadr + off ELSE vadr + off - Span
    BY <1>0, AddWraps
  <2> QED
    BY <1>0, <1>2, <2>1, SpanAssumption
<1> HIDE DEF addr
<1>4. addr + size < Span
  <2>1. Add(addr, size) = IF addr + size < Span THEN addr + size ELSE addr + size - Span
    BY <1>1, <1>3, AddWraps
  <2> QED
    BY <1>1, <1>2, <1>3, <2>1, SpanAssumption
<1>5. off + size <= len
  <2>1. Add(off, size) = IF off + size < Span THEN off + size ELSE off + size - Span
    BY <1>1, AddWraps
  <2> QED
    BY <1>0, <1>1, <1>2, <1>3, <1>4, <2>1, SpanAssumption
<1>6. ASSUME NEW k \in 0..(size - 1)
      PROVE  Add(vadr + off, k) \in vadr..(vadr + len - 1)
  <2>1. k \in 0..(Span - 1) /\ vadr + off \in 0..(Span - 1) /\ vadr + off + k < Span
    BY <1>0, <1>1, <1>3, <1>4, SpanAssumption
  <2>2. Add(vadr + off, k) = vadr + off + k
    BY <2>1, AddWraps
  <2> QED
    BY <1>0, <1>1, <1>5, <2>2, SpanAssumption
<1>7. BarBytes(bar) = vadr..(vadr + len - 1)
  BY DEF BarBytes, vadr, len
<1>8. {Add(vadr + off, k) : k \in 0..(size - 1)} \subseteq BarBytes(bar)
  BY <1>6, <1>7
<1> QED
  BY <1>8 DEF size, vadr

LEMMA AccessStep == MappedAccessInBar /\ [Next]_vars => MappedAccessInBar'
<1> SUFFICES ASSUME MappedAccessInBar, [Next]_vars PROVE MappedAccessInBar'
  OBVIOUS
<1>1. CASE ReadBar
  <2> PICK bar \in 0..NBars, off \in 0..(Span - 1), count \in 0..(Span - 1) :
         /\ check_bar_access(bar, off, count) /\ acc_bar' = bar
         /\ acc' = {Add(Vadr[bar] + off, k) : k \in 0..((count * Word) - 1)}
    BY <1>1 DEF ReadBar
  <2>1. bar \in Bars
    BY SpanAssumption DEF check_bar_access, Bars
  <2> QED
    BY <2>1, CheckedInBar DEF MappedAccessInBar, AccessInBar, BarBytes
<1>2. CASE ReadBarEnd
  BY <1>2 DEF ReadBarEnd, MappedAccessInBar, AccessInBar, BarBytes
<1>3. CASE UNCHANGED <<acc_bar, acc>>
  BY <1>3 DEF MappedAccessInBar, AccessInBar, BarBytes
<1>4. Device \/ HostReceive \/ Handler => UNCHANGED <<acc_bar, acc>>
  BY DEF Device, HostReceive, Handler, irq_handler_read, irq_handler_status, irq_handler_store, envVars
<1>5. ASSUME NEW p \in Procs, Start(p) \/ Kill(p) \/ Program(p)
      PROVE  UNCHANGED <<acc_bar, acc>>
  <2>1. Start(p) \/ Kill(p) => UNCHANGED <<acc_bar, acc>>
    BY DEF Start, Kill
  <2>2. AllocBuf(p) \/ Mmap(p) \/ ResetBuffer(p) \/ ClearPending(p) => UNCHANGED <<acc_bar, acc>>
    BY DEF AllocBuf, Mmap, ResetBuffer, ClearPending, envVars
  <2>3. Registers(p) \/ Select(p) \/ Get(p) \/ CheckIo(p) \/ FileClose(p) => UNCHANGED <<acc_bar, acc>>
    BY DEF Registers, Select, Get, CheckIo, FileClose, envVars
  <2> QED
    BY <1>5, <2>1, <2>2, <2>3 DEF Program
<1>6. UNCHANGED vars => UNCHANGED <<acc_bar, acc>>
  BY DEF vars, envVars
<1> QED
  BY <1>1, <1>2, <1>3, <1>4, <1>5, <1>6 DEF Next

\* READ_BAR of a BAR that is mapped reads nothing outside of it, for any number
\* of BARs of any size and place in an address space of any width, although the
\* sums of check_bar_access wrap around.
THEOREM RegisterAccess == Spec => []MappedAccessInBar
<1>1. Init => MappedAccessInBar
  BY DEF Init, MappedAccessInBar, AccessInBar
<1> QED
  BY <1>1, AccessStep, PTL DEF Spec

----------------------------------------------------------------------------
(* Types *)

\* The list of messages of each direction
LEMMA HostMsgs ==
  /\ ReadSta \in HostMsg /\ WriteReg("ctl", TRUE) \in HostMsg
  /\ \A b \in Blocks : WriteReg("adr", b) \in HostMsg
  /\ \A v \in Seeds : WriteReg("baz", v) \in HostMsg
BY DEF HostMsg

LEMMA DevMsgs ==
  /\ Msi \in DevMsg /\ \A d \in BOOLEAN : Reply(d) \in DevMsg
  /\ \A b \in Addrs, i \in Pages, v \in Seeds : Page(b, i, v) \in DevMsg
<1>1. Msi \in DevMsg /\ Reply(TRUE) \in DevMsg /\ Reply(FALSE) \in DevMsg
  BY DEF DevMsg
<1>2. ASSUME NEW d \in BOOLEAN PROVE Reply(d) \in DevMsg
  <2>1. d = TRUE \/ d = FALSE
    OBVIOUS
  <2> QED
    BY <1>1, <2>1, Zenon
<1>3. \A b \in Addrs, i \in Pages, v \in Seeds : Page(b, i, v) \in DevMsg
  BY DEF DevMsg, Page
<1> QED
  BY <1>1, <1>2, <1>3, Zenon

LEMMA HostMsgCases ==
  ASSUME NEW m \in HostMsg
  PROVE  \/ m = ReadSta /\ m.op = "read"
         \/ m.op = "write" /\ m.reg = "ctl" /\ m.val = TRUE
         \/ m.op = "write" /\ m.reg = "adr" /\ m.val \in Blocks
         \/ m.op = "write" /\ m.reg = "baz" /\ m.val \in Seeds
BY DEF HostMsg, ReadSta, WriteReg

LEMMA DevMsgCases ==
  ASSUME NEW m \in DevMsg
  PROVE  \/ m.op = "msi"
         \/ m = Reply(TRUE) \/ m = Reply(FALSE)
         \/ m.op = "page" /\ m.block \in Addrs /\ m.page \in Pages /\ m.seed \in Seeds
BY DEF DevMsg, Msi, Reply, Page

LEMMA InitInv == Init => KdmaInv
<1> SUFFICES ASSUME Init PROVE KdmaInv
  OBVIOUS
<1>1. (CHOOSE v \in Seeds : TRUE) \in Seeds
  BY DEF Init, DevInit
<1>2. DevTypeOK
  <2>1. h2d \in Seq(HostMsg) /\ d2h \in Seq(DevMsg)
    BY DEF Init, DevInit
  <2>2. adr \in Addrs /\ baz \in Seeds
    BY DEF Init, DevInit, Addrs
  <2>3. saved = [adr |-> Nowhere, baz |-> baz]
    BY DEF Init, DevInit
  <2>4. saved \in [adr : Addrs, baz : Seeds]
    BY <2>2, <2>3 DEF Addrs
  <2>5. sta \in BOOLEAN /\ task \in BOOLEAN /\ dropped \in BOOLEAN
    BY DEF Init, DevInit
  <2> QED
    BY <2>1, <2>2, <2>4, <2>5 DEF DevTypeOK
<1>3. TypeOK
  <2>1. /\ mem \in [Blocks -> [Pages -> Content]]
        /\ pc \in [Procs -> Pc] /\ buf \in [Procs -> Addrs]
    BY DEF Init, Addrs, Content, Pc
  <2>2. io_baz \in [Procs -> Seeds]
    BY <1>1 DEF Init
  <2>3. /\ io_sta \in [Procs -> BOOLEAN] /\ nio \in [Procs -> 0..MaxIo]
        /\ runs \in 0..MaxRuns /\ kills \in 0..MaxKills
    BY BoundsAssumption DEF Init
  <2>4. /\ ctx \in BOOLEAN /\ pend \in BOOLEAN /\ ipc \in {"idle", "read", "store"}
        /\ pmem \subseteq Blocks /\ used \subseteq Blocks /\ acc \subseteq 0..(Span - 1)
    BY DEF Init
  <2>5. acc_bar \in Bars
    BY SpanAssumption DEF Init, Bars
  <2> QED
    BY <1>2, <2>1, <2>2, <2>3, <2>4, <2>5 DEF TypeOK
<1>4. Exclusive /\ BuffersHeld /\ MappedAccessInBar
  BY DEF Init, Exclusive, BuffersHeld, MappedAccessInBar, AccessInBar
<1>5. ChainInv
  BY DEF Init, DevInit, ChainInv, Quiet, NoInterrupt
<1> QED
  BY <1>3, <1>4, <1>5 DEF KdmaInv

LEMMA DeviceTypes ==
  ASSUME DevTypeOK, DevNext
  PROVE  DevTypeOK'
<1>1. CASE on_write
  <2>1. /\ h2d \in Seq(HostMsg) /\ Head(h2d) \in HostMsg
        /\ h2d' \in Seq(HostMsg)
    BY <1>1 DEF DevTypeOK, on_write
  <2>2. \/ Head(h2d).reg = "ctl"
        \/ Head(h2d).reg = "adr" /\ Head(h2d).val \in Blocks
        \/ Head(h2d).reg = "baz" /\ Head(h2d).val \in Seeds
    BY <1>1, <2>1, HostMsgCases DEF on_write
  <2>3. adr' \in Addrs /\ baz' \in Seeds /\ saved' \in [adr : Addrs, baz : Seeds]
    BY <1>1, <2>2 DEF DevTypeOK, on_write, Addrs
  <2>4. sta' \in BOOLEAN /\ task' \in BOOLEAN /\ dropped' \in BOOLEAN
    BY <1>1 DEF DevTypeOK, on_write
  <2> QED
    BY <1>1, <2>1, <2>3, <2>4 DEF DevTypeOK, on_write
<1>2. CASE on_read
  <2>1. h2d' \in Seq(HostMsg)
    BY <1>2 DEF DevTypeOK, on_read
  <2>2. Reply(sta) \in DevMsg
    BY DevMsgs DEF DevTypeOK
  <2>3. d2h' \in Seq(DevMsg)
    BY <1>2, <2>2 DEF DevTypeOK, on_read
  <2> QED
    BY <1>2, <2>1, <2>3 DEF DevTypeOK, on_read, engVars
<1>3. CASE finalize_transfer
  <2> DEFINE pages == [i \in Pages |-> Page(saved.adr, i, saved.baz)]
  <2>1. \A i \in Pages : Page(saved.adr, i, saved.baz) \in DevMsg
    BY DevMsgs DEF DevTypeOK
  <2>2. pages \in Seq(DevMsg)
    BY <2>1, NPagesAssumption DEF Pages
  <2> HIDE DEF pages
  <2>3. Append(d2h \o pages, Msi) \in Seq(DevMsg)
    BY <2>2, DevMsgs DEF DevTypeOK
  <2>4. d2h' = Append(d2h \o pages, Msi) \/ d2h' = d2h
    BY <1>3 DEF finalize_transfer, GiveUp, pages
  <2> QED
    BY <1>3, <2>3, <2>4 DEF DevTypeOK, finalize_transfer, GiveUp
<1> QED
  BY <1>1, <1>2, <1>3 DEF DevNext

\* Kdma's own steps leave the engine's registers alone
LEMMA LinkTypes ==
  ASSUME DevTypeOK, UNCHANGED engVars, h2d' \in Seq(HostMsg), d2h' \in Seq(DevMsg)
  PROVE  DevTypeOK'
BY DEF DevTypeOK, engVars

LEMMA HostTypes ==
  ASSUME TypeOK, HostReceive \/ Handler
  PROVE  TypeOK'
<1>1. CASE HostReceive
  <2>1. Head(d2h) \in DevMsg /\ d2h' \in Seq(DevMsg)
    BY <1>1 DEF TypeOK, DevTypeOK, HostReceive
  <2>2. DevTypeOK'
    BY <1>1, <2>1, LinkTypes DEF TypeOK, DevTypeOK, HostReceive
  <2>3. mem' \in [Blocks -> [Pages -> Content]]
    <3>1. CASE Head(d2h).op = "page" /\ Head(d2h).block \in Blocks
      <4>1. Head(d2h).page \in Pages /\ Head(d2h).seed \in Seeds
        BY <2>1, <3>1, DevMsgCases DEF Msi, Reply
      <4> QED
        BY <1>1, <3>1, <4>1 DEF TypeOK, HostReceive, Content
    <3>2. CASE ~(Head(d2h).op = "page" /\ Head(d2h).block \in Blocks)
      BY <1>1, <3>2 DEF TypeOK, HostReceive
    <3> QED
      BY <3>1, <3>2
  <2>4. pend' \in BOOLEAN
    BY <1>1 DEF TypeOK, HostReceive
  <2> QED
    BY <1>1, <2>2, <2>3, <2>4 DEF TypeOK, HostReceive, procVars, envVars
<1>2. CASE irq_handler_read
  <2>1. DevTypeOK'
    BY <1>2, LinkTypes, HostMsgs DEF TypeOK, DevTypeOK, irq_handler_read
  <2> QED
    BY <1>2, <2>1 DEF TypeOK, irq_handler_read, memVars, procVars, envVars
<1>3. CASE irq_handler_status
  <2>1. DevTypeOK'
    BY <1>3, LinkTypes DEF TypeOK, DevTypeOK, irq_handler_status
  <2> QED
    BY <1>3, <2>1 DEF TypeOK, irq_handler_status, memVars, procVars, envVars
<1>4. CASE irq_handler_store
  <2>1. DevTypeOK'
    BY <1>4, LinkTypes DEF TypeOK, DevTypeOK, irq_handler_store, linkVars
  <2> QED
    BY <1>4, <2>1 DEF TypeOK, irq_handler_store, memVars, procVars, envVars
<1> QED
  BY <1>1, <1>2, <1>3, <1>4 DEF Handler

LEMMA ReadBarTypes ==
  ASSUME TypeOK, ReadBar \/ ReadBarEnd
  PROVE  TypeOK'
<1>1. acc_bar' \in Bars /\ acc' \subseteq 0..(Span - 1)
  <2>1. CASE ReadBar
    <3> PICK bar \in 0..NBars, off \in 0..(Span - 1), count \in 0..(Span - 1) :
           /\ check_bar_access(bar, off, count) /\ acc_bar' = bar
           /\ acc' = {Add(Vadr[bar] + off, k) : k \in 0..((count * Word) - 1)}
      BY <2>1 DEF ReadBar
    <3>1. bar \in Bars
      BY SpanAssumption DEF check_bar_access, Bars
    <3>2. Vadr[bar] \in Nat /\ count * Word \in Nat
      BY <3>1, WordAssumption, MappedAssumption
    <3>3. \A k \in 0..((count * Word) - 1) : Add(Vadr[bar] + off, k) \in 0..(Span - 1)
      <4> DEFINE v == Vadr[bar]
                 size == count * Word
      <4> HIDE DEF v, size
      <4>1. \A k \in 0..(size - 1) : Add(v + off, k) \in 0..(Span - 1)
        BY <3>2, SpanAssumption DEF Add, v, size
      <4> QED
        BY <4>1 DEF v, size
    <3> QED
      BY <3>1, <3>3
  <2>2. CASE ReadBarEnd
    BY <2>2 DEF ReadBarEnd, TypeOK
  <2> QED
    BY <2>1, <2>2
<1>2. UNCHANGED <<linkVars, engVars, irqVars, memVars, procVars, runs, kills>>
  BY DEF ReadBar, ReadBarEnd
<1>3. DevTypeOK'
  BY <1>2 DEF TypeOK, DevTypeOK, linkVars, engVars
<1> QED
  BY <1>1, <1>2, <1>3 DEF TypeOK, irqVars, memVars, procVars

LEMMA ProgramTypes ==
  ASSUME TypeOK, BuffersHeld, NEW p \in Procs, Start(p) \/ Program(p) \/ Kill(p)
  PROVE  TypeOK'
<1> USE DEF Goes
<1>1. CASE Start(p)
  <2>1. DevTypeOK'
    BY <1>1 DEF TypeOK, DevTypeOK, Start, linkVars, engVars
  <2>2. /\ pc' \in [Procs -> Pc] /\ runs' \in 0..MaxRuns
        /\ nio' \in [Procs -> 0..MaxIo]
    BY <1>1, BoundsAssumption DEF TypeOK, Start, Pc
  <2> QED
    BY <1>1, <2>1, <2>2 DEF TypeOK, Start, irqVars, memVars
<1>2. CASE AllocBuf(p)
  <2>1. DevTypeOK'
    BY <1>2 DEF TypeOK, DevTypeOK, AllocBuf, linkVars, engVars
  <2>2. /\ pc' \in [Procs -> Pc] /\ buf' \in [Procs -> Addrs]
        /\ used' \subseteq Blocks /\ pmem' \subseteq Blocks
    BY <1>2 DEF TypeOK, AllocBuf, PmemAlloc, Pc, Addrs
  <2> QED
    BY <1>2, <2>1, <2>2 DEF TypeOK, AllocBuf, irqVars, envVars
<1>3. CASE Mmap(p)
  <2>1. DevTypeOK'
    BY <1>3 DEF TypeOK, DevTypeOK, Mmap, linkVars, engVars
  <2>2. /\ pc' \in [Procs -> Pc] /\ used' \subseteq Blocks /\ pmem' \subseteq Blocks
    BY <1>3 DEF TypeOK, Mmap, PmemFree, Pc
  <2> QED
    BY <1>3, <2>1, <2>2 DEF TypeOK, Mmap, irqVars, envVars
<1>4. CASE ResetBuffer(p)
  <2>1. DevTypeOK'
    BY <1>4 DEF TypeOK, DevTypeOK, ResetBuffer, linkVars, engVars
  <2>2. /\ pc' \in [Procs -> Pc] /\ io_baz' \in [Procs -> Seeds]
    BY <1>4 DEF TypeOK, ResetBuffer, Pc
  <2>3. nio' \in [Procs -> 0..MaxIo]
    <3>1. nio[p] + 1 \in 0..MaxIo /\ nio' = [nio EXCEPT ![p] = nio[p] + 1]
      BY <1>4, BoundsAssumption DEF TypeOK, ResetBuffer
    <3> QED
      BY <3>1 DEF TypeOK
  <2>4. mem' \in [Blocks -> [Pages -> Content]]
    BY <1>4 DEF TypeOK, ResetBuffer, Content
  <2> QED
    BY <1>4, <2>1, <2>2, <2>3, <2>4 DEF TypeOK, ResetBuffer, irqVars, envVars
<1>5. CASE ClearPending(p) \/ Get(p)
  <2>1. DevTypeOK'
    BY <1>5 DEF TypeOK, DevTypeOK, ClearPending, Get, linkVars, engVars
  <2>2. pc' \in [Procs -> Pc]
    BY <1>5 DEF TypeOK, ClearPending, Get, Pc
  <2>3. ctx' \in BOOLEAN /\ io_sta' \in [Procs -> BOOLEAN]
    BY <1>5 DEF TypeOK, ClearPending, Get, GetIrqContext, ClearIrqContext
  <2> QED
    BY <1>5, <2>1, <2>2, <2>3 DEF TypeOK, ClearPending, Get, memVars, envVars
<1>6. CASE Registers(p)
  <2>1. pc[p] \in {"baz", "adr", "ctl"} /\ buf[p] \in Blocks /\ io_baz[p] \in Seeds
    BY <1>6 DEF Registers, BuffersHeld, TypeOK
  <2>2. h2d' \in Seq(HostMsg) /\ d2h' = d2h
    <3>1. \/ h2d' = Append(h2d, WriteReg("baz", io_baz[p]))
          \/ h2d' = Append(h2d, WriteReg("adr", buf[p]))
          \/ h2d' = Append(h2d, WriteReg("ctl", TRUE))
      BY <1>6, Zenon DEF Registers, WriteBar
    <3>2. \E m \in HostMsg : h2d' = Append(h2d, m)
      BY <2>1, <3>1, HostMsgs, Zenon
    <3>3. d2h' = d2h
      BY <1>6 DEF Registers, WriteBar
    <3> QED
      BY <3>2, <3>3 DEF TypeOK, DevTypeOK
  <2>3. DevTypeOK'
    BY <1>6, <2>2, LinkTypes DEF TypeOK, DevTypeOK, Registers
  <2>4. pc' \in [Procs -> Pc]
    BY <1>6 DEF TypeOK, Registers, Pc
  <2> QED
    BY <1>6, <2>3, <2>4 DEF TypeOK, Registers, irqVars, memVars, envVars
<1>7. CASE Select(p) \/ CheckIo(p)
  <2>1. DevTypeOK'
    BY <1>7 DEF TypeOK, DevTypeOK, Select, CheckIo, linkVars, engVars
  <2>2. pc' \in [Procs -> Pc]
    BY <1>7 DEF TypeOK, Select, CheckIo, Pc
  <2> QED
    BY <1>7, <2>1, <2>2 DEF TypeOK, Select, CheckIo, irqVars, memVars, envVars
<1>8. CASE FileClose(p)
  <2>1. DevTypeOK'
    BY <1>8 DEF TypeOK, DevTypeOK, FileClose, linkVars, engVars
  <2>2. /\ pc' \in [Procs -> Pc] /\ buf' \in [Procs -> Addrs]
        /\ used' \subseteq Blocks /\ pmem' \subseteq Blocks
    BY <1>8 DEF TypeOK, FileClose, FreePmemNodes, Pc, Addrs
  <2> QED
    BY <1>8, <2>1, <2>2 DEF TypeOK, FileClose, irqVars, envVars
<1>9. CASE Kill(p)
  <2>1. DevTypeOK'
    BY <1>9 DEF TypeOK, DevTypeOK, Kill, linkVars, engVars
  <2>2. pc' \in [Procs -> Pc] /\ kills' \in 0..MaxKills
    BY <1>9, BoundsAssumption DEF TypeOK, Kill, Pc
  <2> QED
    BY <1>9, <2>1, <2>2 DEF TypeOK, Kill, irqVars, memVars
<1> QED
  BY <1>1, <1>2, <1>3, <1>4, <1>5, <1>6, <1>7, <1>8, <1>9 DEF Program

LEMMA StepTypes ==
  ASSUME TypeOK, BuffersHeld, [Next]_vars
  PROVE  TypeOK'
<1>1. CASE Device
  BY <1>1, DeviceTypes DEF Device, TypeOK, irqVars, memVars, procVars, envVars
<1>2. CASE UNCHANGED vars
  BY <1>2 DEF vars, TypeOK, DevTypeOK, linkVars, engVars, irqVars, memVars, procVars, envVars
<1> QED
  BY <1>1, <1>2, HostTypes, ReadBarTypes, ProgramTypes DEF Next

----------------------------------------------------------------------------
(* One program at a time, and its block *)

LEMMA StepExclusive ==
  ASSUME TypeOK, Exclusive, [Next]_vars
  PROVE  Exclusive'
<1>1. CASE UNCHANGED pc
  BY <1>1 DEF Exclusive
<1>2. \/ UNCHANGED pc
      \/ \E p \in Procs : Start(p)
      \/ \E p \in Procs : pc[p] # "off" /\ \E l \in Pc : pc' = [pc EXCEPT ![p] = l]
  <2>1. Device \/ HostReceive \/ Handler \/ ReadBar \/ ReadBarEnd \/ UNCHANGED vars => UNCHANGED pc
    BY DEF Device, HostReceive, Handler, irq_handler_read, irq_handler_status, irq_handler_store,
           ReadBar, ReadBarEnd, vars, procVars
  <2>2. ASSUME NEW p \in Procs, Program(p) \/ Kill(p)
        PROVE  pc[p] # "off" /\ \E l \in Pc : pc' = [pc EXCEPT ![p] = l]
    <3>1. CASE AllocBuf(p) \/ Mmap(p) \/ ResetBuffer(p)
      BY <3>1 DEF AllocBuf, PmemAlloc, Mmap, ResetBuffer, Goes, Pc
    <3>2. CASE ClearPending(p) \/ Registers(p) \/ Select(p)
      BY <3>2 DEF ClearPending, Registers, Select, Goes, Pc
    <3>3. CASE Get(p) \/ CheckIo(p) \/ FileClose(p) \/ Kill(p)
      BY <3>3 DEF Get, CheckIo, FileClose, Kill, Goes, Pc
    <3> QED
      BY <2>2, <3>1, <3>2, <3>3 DEF Program
  <2> QED
    BY <2>1, <2>2 DEF Next
<1>3. ASSUME NEW p \in Procs, Start(p)
      PROVE  Exclusive'
  BY <1>3 DEF Exclusive, Start, Goes, TypeOK
<1>4. ASSUME NEW p \in Procs, pc[p] # "off", NEW l \in Pc, pc' = [pc EXCEPT ![p] = l]
      PROVE  Exclusive'
  BY <1>4 DEF Exclusive, TypeOK
<1> QED
  BY <1>1, <1>2, <1>3, <1>4

LEMMA StepBuffers ==
  ASSUME TypeOK, Exclusive, BuffersHeld, [Next]_vars
  PROVE  BuffersHeld'
<1> USE DEF Goes
<1>1. CASE UNCHANGED <<pc, buf, pmem, used>>
  BY <1>1 DEF BuffersHeld
<1>2. Device \/ HostReceive \/ Handler \/ ReadBar \/ ReadBarEnd \/ UNCHANGED vars
        => UNCHANGED <<pc, buf, pmem, used>>
  BY DEF Device, HostReceive, Handler, irq_handler_read, irq_handler_status, irq_handler_store,
         ReadBar, ReadBarEnd, vars, procVars, memVars
<1>3. ASSUME NEW p \in Procs, Start(p) \/ Program(p) \/ Kill(p)
      PROVE  BuffersHeld'
  <2>1. CASE Start(p)
    BY <2>1 DEF Start, BuffersHeld, TypeOK, memVars
  <2>2. CASE AllocBuf(p)
    BY <2>2 DEF AllocBuf, PmemAlloc, BuffersHeld, Exclusive, TypeOK
  <2>3. CASE Mmap(p)
    BY <2>3 DEF Mmap, PmemFree, BuffersHeld, Exclusive, TypeOK
  <2>4. CASE ResetBuffer(p) \/ ClearPending(p)
    BY <2>4 DEF ResetBuffer, ClearPending, BuffersHeld, TypeOK, memVars
  <2>5. CASE Registers(p) \/ Select(p)
    BY <2>5 DEF Registers, Select, BuffersHeld, TypeOK, memVars
  <2>6. CASE Get(p) \/ CheckIo(p)
    BY <2>6 DEF Get, CheckIo, BuffersHeld, TypeOK, memVars
  <2>7. CASE FileClose(p)
    BY <2>7 DEF FileClose, FreePmemNodes, BuffersHeld, Exclusive, TypeOK
  <2>8. CASE Kill(p)
    BY <2>8 DEF Kill, BuffersHeld, TypeOK, memVars
  <2> QED
    BY <1>3, <2>1, <2>2, <2>3, <2>4, <2>5, <2>6, <2>7, <2>8 DEF Program
<1> QED
  BY <1>1, <1>2, <1>3 DEF Next

----------------------------------------------------------------------------
(* The chain: steps of the device, of QEMU and of the interrupt handler *)

EnvNext == Device \/ HostReceive \/ Handler

LEMMA EnvKeeps ==
  ASSUME EnvNext
  PROVE  UNCHANGED <<pc, buf, io_baz, io_sta, kills>>
BY DEF EnvNext, Device, HostReceive, Handler, irq_handler_read, irq_handler_status,
       irq_handler_store, procVars, envVars

\* What an action of the three needs
LEMMA EnvEnabled ==
  ASSUME EnvNext
  PROVE  \/ Device /\ on_write /\ h2d # <<>>
         \/ Device /\ on_read /\ h2d # <<>>
         \/ Device /\ finalize_transfer /\ task
         \/ HostReceive /\ d2h # <<>> /\ Head(d2h).op # "reply"
         \/ irq_handler_read /\ pend
         \/ irq_handler_status /\ ipc = "read" /\ d2h # <<>> /\ Head(d2h).op = "reply"
         \/ irq_handler_store /\ ipc = "store"
<1>1. on_write \/ on_read => h2d # <<>>
  BY DEF on_write, on_read
<1>2. finalize_transfer => task
  BY DEF finalize_transfer
<1>3. HostReceive => d2h # <<>> /\ Head(d2h).op # "reply"
  BY DEF HostReceive
<1>4. irq_handler_read => pend
  BY DEF irq_handler_read
<1>5. irq_handler_status => ipc = "read" /\ d2h # <<>> /\ Head(d2h).op = "reply"
  BY DEF irq_handler_status
<1>6. irq_handler_store => ipc = "store"
  BY DEF irq_handler_store
<1>7. Device => on_write \/ on_read \/ finalize_transfer
  BY DEF Device, DevNext
<1> QED
  BY <1>1, <1>2, <1>3, <1>4, <1>5, <1>6, <1>7 DEF EnvNext, Handler

LEMMA QuietStops ==
  ASSUME h2d = <<>>, d2h = <<>>, ~task, ~pend, ipc = "idle"
  PROVE  ~EnvNext
BY EnvEnabled

LEMMA WriteStep ==
  ASSUME Device, on_write
  PROVE  UNCHANGED <<d2h, pend, ipc, ctx, mem>>
BY DEF Device, on_write, irqVars, memVars

LEMMA Message ==
  /\ ReadSta.op = "read"
  /\ \A r, v : WriteReg(r, v).op = "write" /\ WriteReg(r, v).reg = r /\ WriteReg(r, v).val = v
  /\ Msi.op = "msi"
  /\ \A d : Reply(d).op = "reply" /\ Reply(d).done = d
  /\ \A b, i, v : /\ Page(b, i, v).op = "page" /\ Page(b, i, v).block = b
                  /\ Page(b, i, v).page = i /\ Page(b, i, v).seed = v
BY DEF ReadSta, WriteReg, Msi, Reply, Page

LEMMA Sequences ==
  ASSUME NEW T, NEW h \in Seq(T), NEW a \in T, NEW b \in T
  PROVE  /\ <<a, b>> \o h # <<>> /\ Head(<<a, b>> \o h) = a /\ Tail(<<a, b>> \o h) = <<b>> \o h
         /\ <<a>> \o h # <<>> /\ Head(<<a>> \o h) = a /\ Tail(<<a>> \o h) = h
         /\ <<a>> \o h \in Seq(T) /\ <<a, b>> \o h \in Seq(T)
OBVIOUS

LEMMA Appended ==
  ASSUME NEW T, NEW h \in Seq(T), NEW a \in T, NEW b \in T, NEW c \in T
  PROVE  /\ Append(<<a>> \o h, c) = <<a>> \o Append(h, c)
         /\ Append(<<a, b>> \o h, c) = <<a, b>> \o Append(h, c)
OBVIOUS

LEMMA Pair ==
  ASSUME NEW T, NEW a \in T, NEW b \in T
  PROVE  Append(<<a>>, b) = <<a, b>> \o <<>> /\ Append(<<>>, a) = <<a>> /\ <<a>> \o <<>> = <<a>>
<1> DEFINE s == Append(<<a>>, b)
           t == <<a, b>>
<1>1. <<a>> \in Seq(T) /\ Len(<<a>>) = 1 /\ <<a>>[1] = a
  OBVIOUS
<1>2. s \in Seq(T) /\ Len(s) = 2 /\ s[1] = a /\ s[2] = b
  BY <1>1
<1>3. t \in Seq(T) /\ Len(t) = 2 /\ t[1] = a /\ t[2] = b /\ t \o <<>> = t
  OBVIOUS
<1>4. <<a>> \o <<>> = <<a>> /\ Append(<<>>, a) = <<a>>
  OBVIOUS
<1> HIDE DEF s, t
<1>5. \A i \in 1..2 : i = 1 \/ i = 2
  OBVIOUS
<1>6. \A i \in 1..2 : s[i] = t[i]
  BY <1>2, <1>3, <1>5
<1>7. s = t
  BY <1>2, <1>3, <1>6
<1> QED
  BY <1>3, <1>4, <1>7 DEF s, t

\* A register reaches the engine: of those on their way the first
LEMMA ProgrammingStep ==
  ASSUME TypeOK, NEW p \in Procs, NEW h \in Seq(HostMsg), buf[p] \in Blocks,
         Programming(p, h), EnvNext
  PROVE  \/ Programming(p, h)'
         \/ /\ h2d = h /\ baz = io_baz[p] /\ adr = buf[p] /\ d2h = <<>> /\ ~task /\ NoInterrupt
            /\ h # <<>> /\ Device /\ (on_write \/ on_read)
<1> DEFINE seed == WriteReg("baz", io_baz[p])
           addr == WriteReg("adr", buf[p])
<1>0. seed \in HostMsg /\ addr \in HostMsg
  BY HostMsgs DEF TypeOK
<1>1. /\ d2h = <<>> /\ ~task /\ ~pend /\ ipc = "idle" /\ ~ctx
      /\ \/ h2d = <<seed, addr>> \o h
         \/ h2d = <<addr>> \o h /\ baz = io_baz[p]
         \/ h2d = h /\ baz = io_baz[p] /\ adr = buf[p]
  BY DEF Programming, NoInterrupt
<1>2. Device /\ (on_write \/ on_read) /\ h2d # <<>>
  BY <1>1, EnvEnabled
<1>3. buf' = buf /\ io_baz' = io_baz
  BY EnvKeeps
<1>s. seed.op = "write" /\ seed.reg = "baz" /\ seed.val = io_baz[p]
  BY Message
<1>a. addr.op = "write" /\ addr.reg = "adr" /\ addr.val = buf[p]
  BY Message
<1>p. seed' = seed /\ addr' = addr
  BY <1>3
<1> HIDE DEF seed, addr
<1>4. CASE h2d = <<seed, addr>> \o h
  <2>1. Head(h2d) = seed /\ Tail(h2d) = <<addr>> \o h
    BY <1>0, <1>4, Sequences
  <2>2. on_write
    BY <1>2, <1>s, <2>1, Message DEF on_read
  <2>3. h2d' = <<addr>> \o h /\ baz' = io_baz[p] /\ task' = FALSE
    BY <1>1, <1>s, <2>1, <2>2 DEF on_write, TypeOK, DevTypeOK
  <2> QED
    BY <1>1, <1>2, <1>3, <1>p, <2>2, <2>3, WriteStep DEF Programming, NoInterrupt, addr
<1>5. CASE h2d = <<addr>> \o h /\ baz = io_baz[p]
  <2>1. Head(h2d) = addr /\ Tail(h2d) = h
    BY <1>0, <1>5, Sequences
  <2>2. on_write
    BY <1>2, <1>a, <2>1, Message DEF on_read
  <2>3. h2d' = h /\ baz' = io_baz[p] /\ adr' = buf[p] /\ task' = FALSE
    BY <1>1, <1>5, <1>a, <2>1, <2>2 DEF on_write, TypeOK, DevTypeOK
  <2> QED
    BY <1>1, <1>2, <1>3, <2>2, <2>3, WriteStep DEF Programming, NoInterrupt
<1>6. CASE h2d = h /\ baz = io_baz[p] /\ adr = buf[p]
  BY <1>1, <1>2, <1>6 DEF NoInterrupt
<1> QED
  BY <1>1, <1>4, <1>5, <1>6

\* The transfer starts
LEMMA StartStep ==
  ASSUME TypeOK, NEW p \in Procs,
         h2d = <<WriteReg("ctl", TRUE)>>, baz = io_baz[p], adr = buf[p],
         d2h = <<>>, NoInterrupt, Device, on_write \/ on_read
  PROVE  /\ h2d' = <<>> /\ d2h' = <<>> /\ NoInterrupt'
         /\ task' /\ saved' = [adr |-> buf[p], baz |-> io_baz[p]]
<1>1. Head(h2d) = WriteReg("ctl", TRUE) /\ Tail(h2d) = <<>>
  OBVIOUS
<1>2. Head(h2d).op = "write" /\ Head(h2d).reg = "ctl"
  BY <1>1 DEF WriteReg
<1>3. on_write
  BY <1>2, Message DEF on_read
<1>4. h2d' = <<>> /\ task' /\ saved' = [adr |-> buf[p], baz |-> io_baz[p]]
  BY <1>1, <1>2, <1>3 DEF on_write
<1> QED
  BY <1>3, <1>4, WriteStep DEF NoInterrupt

\* finalize_transfer sends the pages in order, and the MSI behind them, or gives
\* up and tells nobody
LEMMA FinalizeStep ==
  ASSUME TypeOK, NEW p \in Procs, d2h = <<>>, NoInterrupt, h2d = <<>>,
         saved = [adr |-> buf[p], baz |-> io_baz[p]],
         Device, finalize_transfer, buf' = buf, io_baz' = io_baz
  PROVE  /\ h2d' = <<>> /\ task' = FALSE /\ NoInterrupt'
         /\ (sta' = TRUE /\ Writing(p, 0)') \/ (d2h' = <<>> /\ dropped' = TRUE)
<1>1. h2d' = <<>> /\ task' = FALSE /\ NoInterrupt'
  BY DEF finalize_transfer, Device, irqVars, NoInterrupt
<1>g. CASE GiveUp
  BY <1>1, <1>g DEF GiveUp
<1> SUFFICES ASSUME ~GiveUp PROVE sta' = TRUE /\ Writing(p, 0)'
  BY <1>1, <1>g
<1>s. sta' = TRUE
  BY DEF finalize_transfer
<1> DEFINE pages == [i \in Pages |-> Page(buf[p], i, io_baz[p])]
<1>2. d2h' = Append(<<>> \o pages, Msi)
  BY DEF finalize_transfer
<1>3. pages \in Seq(DevMsg) /\ Len(pages) = NPages /\ \A i \in 1..NPages : pages[i] = Page(buf[p], i, io_baz[p])
  BY DevMsgs, NPagesAssumption DEF TypeOK, Pages
<1> HIDE DEF pages
<1>4. d2h' = Append(pages, Msi)
  BY <1>2, <1>3
<1>5. /\ Len(d2h') = NPages + 1 /\ d2h'[NPages + 1] = Msi
      /\ \A i \in 1..NPages : d2h'[i] = Page(buf[p], i, io_baz[p])
  BY <1>3, <1>4, DevMsgs, NPagesAssumption
<1>6. Writing(p, 0)'
  BY <1>5, NPagesAssumption DEF Writing
<1> QED
  BY <1>s, <1>6

\* A page is copied, or the MSI is raised behind the last one
LEMMA PageStep ==
  ASSUME TypeOK, NEW p \in Procs, buf[p] \in Blocks, NEW k \in 0..NPages, Writing(p, k),
         HostReceive, ~pend
  PROVE  \/ k < NPages /\ Writing(p, k + 1)' /\ pend' = FALSE
         \/ k = NPages /\ d2h' = <<>> /\ Arrived(p)' /\ pend' = TRUE
<1>0. buf' = buf /\ io_baz' = io_baz
  BY DEF HostReceive, procVars
<1>1. /\ d2h \in Seq(DevMsg) /\ d2h # <<>> /\ Head(d2h) = d2h[1] /\ d2h' = Tail(d2h)
      /\ Len(d2h') = Len(d2h) - 1 /\ \A i \in 1..(Len(d2h) - 1) : d2h'[i] = d2h[i + 1]
  BY DEF HostReceive, TypeOK, DevTypeOK
<1>2. CASE k < NPages
  <2>1. Head(d2h) = Page(buf[p], k + 1, io_baz[p])
    BY <1>1, <1>2, NPagesAssumption DEF Writing
  <2>2. pend' = FALSE /\ mem' = [mem EXCEPT ![buf[p]][k + 1] = io_baz[p]]
    <3>1. /\ Head(d2h).op = "page" /\ Head(d2h).block = buf[p]
          /\ Head(d2h).page = k + 1 /\ Head(d2h).seed = io_baz[p]
      BY <2>1, Message
    <3> QED
      BY <3>1 DEF HostReceive
  <2>3. k + 1 \in Pages
    BY <1>2, NPagesAssumption DEF Pages
  <2>4. \A i \in 1..(k + 1) : mem'[buf[p]][i] = io_baz[p]
    BY <1>2, <2>2, <2>3, NPagesAssumption DEF Writing, TypeOK, Pages
  <2>5. /\ Len(d2h') = NPages - (k + 1) + 1 /\ d2h'[NPages - (k + 1) + 1] = Msi
    BY <1>1, <1>2, NPagesAssumption DEF Writing
  <2>6. \A i \in 1..(NPages - (k + 1)) : d2h'[i] = Page(buf[p], (k + 1) + i, io_baz[p])
    <3> SUFFICES ASSUME NEW i \in 1..(NPages - (k + 1))
                 PROVE  d2h'[i] = Page(buf[p], (k + 1) + i, io_baz[p])
      OBVIOUS
    <3>1. d2h'[i] = d2h[i + 1] /\ i + 1 \in 1..(NPages - k) /\ k + (i + 1) = (k + 1) + i
      BY <1>1, <1>2, NPagesAssumption DEF Writing
    <3> QED
      BY <3>1 DEF Writing
  <2> QED
    BY <1>0, <1>2, <2>2, <2>4, <2>5, <2>6 DEF Writing
<1>3. CASE k = NPages
  <2>1. Len(d2h) = 1 /\ Head(d2h) = Msi
    BY <1>1, <1>3, NPagesAssumption DEF Writing
  <2>2. d2h' = <<>>
    BY <1>1, <2>1
  <2>3. pend' = TRUE /\ mem' = mem
    BY <2>1, Message DEF HostReceive
  <2>4. Arrived(p)'
    BY <1>0, <1>3, <2>3, NPagesAssumption DEF Writing, Arrived, Pages
  <2> QED
    BY <1>3, <2>2, <2>3, <2>4
<1>4. k < NPages \/ k = NPages
  BY NPagesAssumption
<1> QED
  BY <1>2, <1>3, <1>4

LEMMA ArrivedKept ==
  ASSUME NEW p \in Procs, Arrived(p), UNCHANGED <<mem, buf, io_baz>>
  PROVE  Arrived(p)'
BY DEF Arrived

\* The interrupt: the status is read behind the data, and says that it is there
LEMMA InterruptStep ==
  ASSUME TypeOK, NEW p \in Procs, Transfer(p), EnvNext, ~task, sta, ~ctx, Arrived(p),
         \/ h2d = <<>> /\ d2h = <<>> /\ pend /\ ipc = "idle"
         \/ h2d = <<ReadSta>> /\ d2h = <<>> /\ ~pend /\ ipc = "read"
         \/ h2d = <<>> /\ d2h = <<Reply(TRUE)>> /\ ~pend /\ ipc = "read"
         \/ h2d = <<>> /\ d2h = <<>> /\ ~pend /\ ipc = "store"
  PROVE  Transfer(p)' \/ Ended(p)'
<1>0. buf' = buf /\ io_baz' = io_baz
  BY EnvKeeps
<1>1. CASE h2d = <<>> /\ d2h = <<>> /\ pend /\ ipc = "idle"
  <2>1. irq_handler_read
    BY <1>1, EnvEnabled
  <2>2. /\ h2d' = <<ReadSta>> /\ d2h' = <<>> /\ ~pend' /\ ipc' = "read"
        /\ task' = task /\ sta' = sta /\ ctx' = ctx /\ mem' = mem
    BY <1>1, <2>1 DEF irq_handler_read, engVars, memVars
  <2> QED
    BY <1>0, <2>2, ArrivedKept DEF Transfer
<1>2. CASE h2d = <<ReadSta>> /\ d2h = <<>> /\ ~pend /\ ipc = "read"
  <2>1. Head(h2d) = ReadSta /\ Tail(h2d) = <<>>
    BY <1>2
  <2>2. Device /\ on_read
    BY <1>2, <2>1, EnvEnabled, Message DEF on_write
  <2>3. sta = TRUE
    BY DEF TypeOK, DevTypeOK
  <2>4. d2h' = Append(<<>>, Reply(TRUE))
    BY <1>2, <2>2, <2>3, Zenon DEF on_read
  <2>5. d2h' = <<Reply(TRUE)>>
    BY <2>4
  <2>6. /\ h2d' = <<>> /\ ~pend' /\ ipc' = "read"
        /\ task' = task /\ sta' = sta /\ ctx' = ctx /\ mem' = mem
    BY <1>2, <2>1, <2>2 DEF on_read, Device, engVars, irqVars, memVars
  <2> QED
    BY <1>0, <2>5, <2>6, ArrivedKept DEF Transfer
<1>3. CASE h2d = <<>> /\ d2h = <<Reply(TRUE)>> /\ ~pend /\ ipc = "read"
  <2>1. Head(d2h) = Reply(TRUE) /\ Tail(d2h) = <<>>
    BY <1>3
  <2>2. Head(d2h).op = "reply" /\ Head(d2h).done
    BY <2>1 DEF Reply
  <2>3. irq_handler_status
    BY <1>3, <2>2, EnvEnabled
  <2>4. /\ h2d' = <<>> /\ d2h' = <<>> /\ ~pend' /\ ipc' = "store"
        /\ task' = task /\ sta' = sta /\ ctx' = ctx /\ mem' = mem
    BY <1>3, <2>1, <2>2, <2>3 DEF irq_handler_status, engVars, memVars
  <2> QED
    BY <1>0, <2>4, ArrivedKept DEF Transfer
<1>4. CASE h2d = <<>> /\ d2h = <<>> /\ ~pend /\ ipc = "store"
  <2>1. irq_handler_store
    BY <1>4, EnvEnabled
  <2>2. /\ h2d' = <<>> /\ d2h' = <<>> /\ ~pend' /\ ipc' = "idle"
        /\ task' = task /\ ctx' /\ mem' = mem
    BY <1>4, <2>1 DEF irq_handler_store, linkVars, engVars, memVars
  <2> QED
    BY <1>0, <2>2, ArrivedKept DEF Ended
<1> QED
  BY <1>1, <1>2, <1>3, <1>4

\* A transfer under way goes on, or ends with its status in irq_context
LEMMA TransferStep ==
  ASSUME TypeOK, NEW p \in Procs, buf[p] \in Blocks, Transfer(p), EnvNext
  PROVE  Transfer(p)' \/ Ended(p)'
<1>0. buf' = buf /\ io_baz' = io_baz
  BY EnvKeeps
<1> DEFINE ctl == WriteReg("ctl", TRUE)
<1>1. CASE Programming(p, <<ctl>>)
  <2>1. <<ctl>> \in Seq(HostMsg) /\ <<ctl>> # <<>>
    <3>1. ctl \in HostMsg
      BY HostMsgs, Zenon
    <3> HIDE DEF ctl
    <3> QED
      BY <3>1
  <2>2. CASE Programming(p, <<ctl>>)'
    BY <2>2 DEF Transfer
  <2>3. CASE /\ h2d = <<ctl>> /\ baz = io_baz[p] /\ adr = buf[p] /\ d2h = <<>> /\ ~task
             /\ NoInterrupt /\ Device /\ (on_write \/ on_read)
    <3>1. /\ h2d' = <<>> /\ d2h' = <<>> /\ NoInterrupt'
          /\ task' /\ saved' = [adr |-> buf[p], baz |-> io_baz[p]]
      BY <2>3, StartStep
    <3> QED
      BY <1>0, <3>1 DEF Transfer
  <2> QED
    BY <1>1, <2>1, <2>2, <2>3, ProgrammingStep
<1>2. CASE /\ h2d = <<>> /\ d2h = <<>> /\ NoInterrupt
           /\ task /\ saved = [adr |-> buf[p], baz |-> io_baz[p]]
  <2>1. Device /\ finalize_transfer
    BY <1>2, EnvEnabled DEF NoInterrupt
  <2>2. /\ h2d' = <<>> /\ task' = FALSE /\ NoInterrupt'
        /\ (sta' = TRUE /\ Writing(p, 0)') \/ (d2h' = <<>> /\ dropped' = TRUE)
    BY <1>0, <1>2, <2>1, FinalizeStep
  <2>3. 0 \in 0..NPages
    BY NPagesAssumption
  <2> QED
    BY <2>2, <2>3 DEF Transfer, Quiet
<1>3. CASE /\ h2d = <<>> /\ ~task /\ sta /\ NoInterrupt
           /\ \E k \in 0..NPages : Writing(p, k)
  <2> PICK k \in 0..NPages : Writing(p, k)
    BY <1>3
  <2>1. HostReceive
    BY <1>3, EnvEnabled DEF NoInterrupt
  <2>2. h2d' = <<>> /\ task' = task /\ sta' = sta /\ ctx' = ctx /\ ipc' = ipc
    BY <1>3, <2>1 DEF HostReceive, engVars
  <2>3. CASE k < NPages /\ Writing(p, k + 1)' /\ pend' = FALSE
    <3>1. k + 1 \in 0..NPages
      BY <2>3, NPagesAssumption
    <3> QED
      BY <1>3, <2>2, <2>3, <3>1 DEF Transfer, NoInterrupt
  <2>4. CASE k = NPages /\ d2h' = <<>> /\ Arrived(p)' /\ pend' = TRUE
    BY <1>3, <2>2, <2>4 DEF Transfer, NoInterrupt
  <2> QED
    BY <1>3, <2>1, <2>3, <2>4, PageStep DEF NoInterrupt
<1>4. CASE /\ ~task /\ sta /\ ~ctx /\ Arrived(p)
           /\ \/ h2d = <<>> /\ d2h = <<>> /\ pend /\ ipc = "idle"
              \/ h2d = <<ReadSta>> /\ d2h = <<>> /\ ~pend /\ ipc = "read"
              \/ h2d = <<>> /\ d2h = <<Reply(TRUE)>> /\ ~pend /\ ipc = "read"
              \/ h2d = <<>> /\ d2h = <<>> /\ ~pend /\ ipc = "store"
  BY <1>4, InterruptStep
<1>5. CASE Quiet /\ dropped
  BY <1>5, QuietStops DEF Quiet, NoInterrupt
<1> QED
  BY <1>1, <1>2, <1>3, <1>4, <1>5 DEF Transfer

LEMMA EnvStage ==
  ASSUME TypeOK, NEW p \in Procs, pc[p] \notin {"off", "alloc", "close"} => buf[p] \in Blocks,
         Stage(p), EnvNext
  PROVE  Stage(p)'
<1>0. pc' = pc /\ buf' = buf /\ io_baz' = io_baz
  BY EnvKeeps
<1>1. CASE pc[p] = "adr"
  <2> DEFINE seed == WriteReg("baz", io_baz[p])
  <2>1. /\ d2h = <<>> /\ ~task /\ NoInterrupt
        /\ h2d = <<seed>> \/ (h2d = <<>> /\ baz = io_baz[p])
    BY <1>1 DEF Stage
  <2>2. Device /\ (on_write \/ on_read) /\ h2d = <<seed>>
    BY <2>1, EnvEnabled DEF NoInterrupt
  <2>3. Head(h2d) = seed /\ Tail(h2d) = <<>>
    BY <2>2
  <2>4. seed.op = "write" /\ seed.reg = "baz" /\ seed.val = io_baz[p]
    BY Message
  <2> HIDE DEF seed
  <2>5. on_write
    BY <2>2, <2>3, <2>4, Message DEF on_read
  <2>6. h2d' = <<>> /\ baz' = io_baz[p] /\ task' = FALSE
    BY <2>1, <2>3, <2>4, <2>5 DEF on_write, TypeOK, DevTypeOK
  <2> QED
    BY <1>0, <1>1, <2>1, <2>2, <2>5, <2>6, WriteStep DEF Stage, NoInterrupt
<1>2. CASE pc[p] = "ctl"
  <2>1. Programming(p, <<>>) /\ <<>> \in Seq(HostMsg)
    BY <1>2 DEF Stage
  <2>2. Programming(p, <<>>)'
    BY <1>2, <2>1, ProgrammingStep
  <2> QED
    BY <1>0, <1>2, <2>2 DEF Stage
<1>3. CASE pc[p] = "select"
  <2>1. Transfer(p)
    BY <1>3, QuietStops DEF Stage, Ended
  <2>2. Transfer(p)' \/ Ended(p)'
    BY <1>3, <2>1, TransferStep
  <2> QED
    BY <1>0, <1>3, <2>2 DEF Stage
<1>4. CASE pc[p] \notin {"adr", "ctl", "select"}
  BY <1>4, QuietStops DEF Stage, Ended, Quiet, NoInterrupt
<1> QED
  BY <1>1, <1>2, <1>3, <1>4

----------------------------------------------------------------------------
(* The chain: steps of the program *)

LEMMA ProgramStage ==
  ASSUME TypeOK, NEW p \in Procs, pc[p] \notin {"off", "alloc", "close"} => buf[p] \in Blocks,
         Stage(p), Program(p)
  PROVE  (pc'[p] # "off" => Stage(p)') /\ (pc'[p] = "off" => Quiet')
<1> USE DEF Goes
<1>0. pc \in [Procs -> Pc]
  BY DEF TypeOK
<1>1. CASE AllocBuf(p) \/ Mmap(p)
  <2>1. /\ pc[p] \in {"alloc", "mmap"} /\ pc'[p] \in {"mmap", "reset", "close"}
        /\ UNCHANGED <<linkVars, engVars, irqVars>>
    BY <1>0, <1>1 DEF AllocBuf, PmemAlloc, Mmap
  <2> QED
    BY <2>1 DEF Stage, Quiet, NoInterrupt, linkVars, engVars, irqVars
<1>2. CASE ResetBuffer(p)
  <2>1. pc[p] = "reset" /\ pc'[p] = "clear" /\ UNCHANGED <<linkVars, engVars, irqVars>>
    BY <1>0, <1>2 DEF ResetBuffer
  <2> QED
    BY <2>1 DEF Stage, Quiet, NoInterrupt, linkVars, engVars, irqVars
<1>3. CASE ClearPending(p)
  <2>1. /\ \/ pc[p] = "clear" /\ pc'[p] = "clear2" /\ ctx' = ctx
           \/ pc[p] = "clear2" /\ pc'[p] = "baz" /\ ctx' = FALSE
        /\ UNCHANGED <<linkVars, engVars, pend, ipc>>
    BY <1>0, <1>3 DEF ClearPending, GetIrqContext, ClearIrqContext
  <2> QED
    BY <2>1 DEF Stage, Quiet, NoInterrupt, linkVars, engVars
<1>4. CASE Registers(p)
  <2> DEFINE seed == WriteReg("baz", io_baz[p])
             addr == WriteReg("adr", buf[p])
             ctl == WriteReg("ctl", TRUE)
  <2>m. seed \in HostMsg /\ addr \in HostMsg /\ ctl \in HostMsg
    <3>1. pc[p] \in {"baz", "adr", "ctl"} /\ io_baz[p] \in Seeds
      BY <1>4 DEF Registers, TypeOK
    <3>2. ctl \in HostMsg
      BY HostMsgs, Zenon
    <3> QED
      BY <3>1, <3>2, HostMsgs
  <2>0. /\ d2h' = d2h /\ buf' = buf /\ io_baz' = io_baz
        /\ UNCHANGED <<engVars, irqVars>>
    BY <1>4 DEF Registers, WriteBar
  <2>1. CASE pc[p] = "baz"
    <3>1. h2d' = Append(h2d, seed) /\ pc'[p] = "adr"
      BY <1>0, <1>4, <2>1 DEF Registers, WriteBar
    <3>2. h2d' = <<seed>>
      BY <2>1, <3>1 DEF Stage, Quiet
    <3> QED
      BY <2>0, <2>1, <3>1, <3>2 DEF Stage, Quiet, NoInterrupt, engVars, irqVars
  <2>2. CASE pc[p] = "adr"
    <3>1. h2d' = Append(h2d, addr) /\ pc'[p] = "ctl"
      BY <1>0, <1>4, <2>2 DEF Registers, WriteBar
    <3>2. \/ h2d = <<seed>>
          \/ h2d = <<>> /\ baz = io_baz[p]
      BY <2>2 DEF Stage
    <3>3. \/ h2d' = <<seed, addr>> \o <<>>
          \/ h2d' = <<addr>> \o <<>> /\ baz = io_baz[p]
      <4> HIDE DEF seed, addr
      <4> QED
        BY <2>m, <3>1, <3>2, Pair
    <3>4. Programming(p, <<>>)'
      BY <2>0, <2>2, <3>3 DEF Stage, Programming, NoInterrupt, engVars, irqVars
    <3> QED
      BY <3>1, <3>4 DEF Stage
  <2>3. CASE pc[p] = "ctl"
    <3>1. pc'[p] = "select"
      BY <1>0, <1>4, <2>3 DEF Registers
    <3>2. h2d' = Append(h2d, ctl)
      BY <1>4, <2>3, Zenon DEF Registers, WriteBar
    <3>3. \/ h2d = <<seed, addr>> \o <<>>
          \/ h2d = <<addr>> \o <<>> /\ baz = io_baz[p]
          \/ h2d = <<>> /\ baz = io_baz[p] /\ adr = buf[p]
      BY <2>3 DEF Stage, Programming
    <3>4. \/ h2d' = <<seed, addr>> \o <<ctl>>
          \/ h2d' = <<addr>> \o <<ctl>> /\ baz = io_baz[p]
          \/ h2d' = <<ctl>> /\ baz = io_baz[p] /\ adr = buf[p]
      <4>1. <<>> \in Seq(HostMsg) /\ Append(<<>>, ctl) = <<ctl>>
        BY <2>m, Pair
      <4> HIDE DEF seed, addr, ctl
      <4>2. /\ Append(<<seed, addr>> \o <<>>, ctl) = <<seed, addr>> \o Append(<<>>, ctl)
            /\ Append(<<addr>> \o <<>>, ctl) = <<addr>> \o Append(<<>>, ctl)
        BY <2>m, <4>1, Appended
      <4> QED
        BY <3>2, <3>3, <4>1, <4>2, Zenon
    <3>5. d2h' = <<>> /\ ~task' /\ NoInterrupt'
      BY <2>0, <2>3 DEF Stage, Programming, NoInterrupt, engVars, irqVars
    <3>6. baz' = baz /\ adr' = adr
      BY <2>0 DEF engVars
    <3>7. Programming(p, <<ctl>>)'
      BY <2>0, <3>4, <3>5, <3>6, Zenon DEF Programming
    <3> QED
      BY <3>1, <3>7 DEF Stage, Transfer
  <2> QED
    BY <1>4, <2>1, <2>2, <2>3 DEF Registers
<1>5. CASE Select(p)
  <2>1. /\ pc[p] = "select" /\ pc'[p] = "get" /\ ctx
        /\ UNCHANGED <<linkVars, engVars, irqVars, mem, buf, io_baz>>
    BY <1>0, <1>5 DEF Select, memVars
  <2>2. Ended(p)
    BY <2>1 DEF Stage, Transfer, Programming, Quiet, NoInterrupt
  <2> QED
    BY <2>1, <2>2, ArrivedKept DEF Stage, Ended, linkVars, engVars, irqVars
<1>6. CASE Get(p)
  <2>0. UNCHANGED <<linkVars, engVars, pend, ipc, mem, buf, io_baz>>
    BY <1>6 DEF Get, memVars
  <2>1. CASE pc[p] = "get"
    <3>1. pc'[p] = "get2" /\ ctx' = ctx /\ io_sta' = [io_sta EXCEPT ![p] = ctx]
      BY <1>0, <1>6, <2>1 DEF Get, GetIrqContext
    <3>2. Ended(p) /\ ctx
      BY <2>1 DEF Stage, Ended
    <3>3. io_sta'[p] = ctx
      BY <3>1 DEF TypeOK
    <3> QED
      BY <2>0, <3>1, <3>2, <3>3, ArrivedKept DEF Stage, Ended, linkVars, engVars
  <2>2. CASE pc[p] = "get2"
    <3>1. Ended(p) /\ io_sta[p]
      BY <2>2 DEF Stage
    <3>2. pc'[p] = "check" /\ ctx' = FALSE
      BY <1>0, <1>6, <2>2, <3>1 DEF Get, ClearIrqContext
    <3> QED
      BY <2>0, <3>1, <3>2, ArrivedKept DEF Stage, Ended, Quiet, NoInterrupt, linkVars, engVars
  <2> QED
    BY <1>6, <2>1, <2>2 DEF Get
<1>7. CASE CheckIo(p)
  <2>1. /\ pc[p] = "check" /\ pc'[p] \in {"reset", "close"}
        /\ UNCHANGED <<linkVars, engVars, irqVars>>
    BY <1>0, <1>7 DEF CheckIo
  <2> QED
    BY <2>1 DEF Stage, Quiet, NoInterrupt, linkVars, engVars, irqVars
<1>8. CASE FileClose(p)
  <2>1. /\ pc[p] = "close" /\ pc'[p] = "off"
        /\ UNCHANGED <<linkVars, engVars, irqVars>>
    BY <1>0, <1>8 DEF FileClose
  <2> QED
    BY <2>1 DEF Stage, Quiet, NoInterrupt, linkVars, engVars, irqVars
<1> QED
  BY <1>1, <1>2, <1>3, <1>4, <1>5, <1>6, <1>7, <1>8 DEF Program

LEMMA ProgramKeeps ==
  ASSUME NEW p \in Procs, Program(p)
  PROVE  kills' = kills /\ pc[p] # "off" /\ \E l \in Pc : pc' = [pc EXCEPT ![p] = l]
<1> USE DEF Goes
<1>1. CASE AllocBuf(p) \/ Mmap(p) \/ ResetBuffer(p)
  BY <1>1 DEF AllocBuf, PmemAlloc, Mmap, ResetBuffer, Pc, envVars
<1>2. CASE ClearPending(p) \/ Registers(p) \/ Select(p)
  BY <1>2 DEF ClearPending, Registers, Select, Pc, envVars
<1>3. CASE Get(p) \/ CheckIo(p) \/ FileClose(p)
  BY <1>3 DEF Get, CheckIo, FileClose, Pc, envVars
<1> QED
  BY <1>1, <1>2, <1>3 DEF Program

LEMMA StepChain ==
  ASSUME TypeOK, Exclusive, BuffersHeld, ChainInv, [Next]_vars
  PROVE  ChainInv'
<1> SUFFICES ASSUME kills' = 0 PROVE ChainInv'
  BY DEF ChainInv
<1>1. CASE EnvNext
  <2>1. /\ kills = 0 /\ pc' = pc
    BY <1>1, EnvKeeps
  <2>2. ASSUME NEW p \in Procs, pc[p] # "off" PROVE Stage(p)'
    <3>1. pc[p] \notin {"off", "alloc", "close"} => buf[p] \in Blocks
      BY DEF BuffersHeld, TypeOK
    <3> QED
      BY <1>1, <2>1, <2>2, <3>1, EnvStage DEF ChainInv
  <2>3. ~ \A p \in Procs : pc[p] = "off"
    BY <1>1, <2>1, QuietStops DEF ChainInv, Quiet, NoInterrupt
  <2> QED
    BY <2>1, <2>2, <2>3 DEF ChainInv
<1>2. CASE ReadBar \/ ReadBarEnd \/ UNCHANGED vars
  <2>1. UNCHANGED <<linkVars, engVars, irqVars, memVars, procVars, kills>>
    BY <1>2 DEF ReadBar, ReadBarEnd, vars, envVars
  <2>3. Quiet => Quiet'
    BY <2>1 DEF Quiet, NoInterrupt, linkVars, engVars, irqVars
  <2>2. ASSUME NEW p \in Procs, Stage(p) PROVE Stage(p)'
    <3>1. NoInterrupt => NoInterrupt'
      BY <2>1 DEF NoInterrupt, irqVars
    <3>2. Arrived(p) => Arrived(p)'
      BY <2>1 DEF Arrived, memVars, procVars
    <3>3. \A h : Programming(p, h) => Programming(p, h)'
      BY <2>1, <3>1 DEF Programming, linkVars, engVars, procVars
    <3>4. \A k \in 0..NPages : Writing(p, k) => Writing(p, k)'
      BY <2>1 DEF Writing, linkVars, memVars, procVars
    <3>5. Transfer(p) => Transfer(p)'
      BY <2>1, <2>3, <3>1, <3>2, <3>3, <3>4 DEF Transfer, linkVars, engVars, irqVars, procVars
    <3>6. Ended(p) => Ended(p)'
      BY <2>1, <3>2 DEF Ended, linkVars, engVars, irqVars
    <3> QED
      BY <2>1, <2>2, <2>3, <3>1, <3>2, <3>3, <3>5, <3>6
         DEF Stage, linkVars, engVars, procVars
  <2> QED
    BY <2>1, <2>2, <2>3 DEF ChainInv, procVars
<1>3. ASSUME NEW p \in Procs, Start(p) PROVE ChainInv'
  <2>1. /\ kills = 0 /\ (\A q \in Procs : pc[q] = "off") /\ pc' = [pc EXCEPT ![p] = "alloc"]
        /\ UNCHANGED <<linkVars, engVars, irqVars>>
    BY <1>3 DEF Start, Goes
  <2>2. Quiet'
    BY <2>1 DEF ChainInv, Quiet, NoInterrupt, linkVars, engVars, irqVars
  <2>3. pc'[p] = "alloc" /\ \A q \in Procs : pc'[q] # "off" => q = p
    BY <2>1 DEF TypeOK
  <2> QED
    BY <2>2, <2>3 DEF ChainInv, Stage
<1>4. ASSUME NEW p \in Procs, Program(p) PROVE ChainInv'
  <2>1. /\ kills = 0 /\ pc[p] # "off" /\ \E l \in Pc : pc' = [pc EXCEPT ![p] = l]
    BY <1>4, ProgramKeeps
  <2>2. (pc'[p] # "off" => Stage(p)') /\ (pc'[p] = "off" => Quiet')
    <3>1. pc[p] \notin {"off", "alloc", "close"} => buf[p] \in Blocks
      BY DEF BuffersHeld, TypeOK
    <3> QED
      BY <1>4, <2>1, <3>1, ProgramStage DEF ChainInv
  <2>3. \A q \in Procs : pc'[q] # "off" => q = p
    BY <2>1 DEF TypeOK, Exclusive
  <2> QED
    BY <2>2, <2>3 DEF ChainInv
<1>5. ASSUME NEW p \in Procs, Kill(p) PROVE FALSE
  BY <1>5 DEF Kill, TypeOK
<1> QED
  BY <1>1, <1>2, <1>3, <1>4, <1>5 DEF Next, EnvNext

\* The inductive invariant, for every instance: types, one program at a time,
\* its block, the bounds of accesses, and the place of its transfer.
THEOREM KdmaSafety == Spec => []KdmaInv
<1>1. KdmaInv /\ [Next]_vars => KdmaInv'
  BY StepTypes, StepExclusive, StepBuffers, AccessStep, StepChain DEF KdmaInv
<1> QED
  BY <1>1, InitInv, PTL DEF Spec

\* All state of the driver, the program and the engine keeps its type.
THEOREM KdmaTyping == Spec => []TypeOK
<1>1. KdmaInv => TypeOK
  BY DEF KdmaInv
<1> QED
  BY <1>1, KdmaSafety, PTL

\* pmem_alloc, pmem_free and free_pmem_nodes keep the list exact: the buffer of
\* a running program is allocated, and nothing is left behind the last close,
\* whenever a program is killed.
THEOREM BuffersExact == Spec => []BuffersHeld
<1>1. KdmaInv => BuffersHeld
  BY DEF KdmaInv
<1> QED
  BY <1>1, KdmaSafety, PTL

\* As long as no program was killed, dma_wait_io returns only when every page of
\* the transfer it waits for is in the buffer, for any number of transfers.
THEOREM WaitMeansArrived == Spec => []DataArrivedUnkilled
<1>1. KdmaInv => DataArrivedUnkilled
  BY DEF KdmaInv, ChainInv, Stage, DataArrivedUnkilled, DataArrived
<1> QED
  BY <1>1, KdmaSafety, PTL

\* Work for the engine, or a page on its way, is for the buffer of a program
\* that waits in select
LEMMA WorkIsTransfer ==
  ASSUME KdmaInv, kills = 0, NEW p \in Procs, pc[p] # "off"
  PROVE  /\ task => saved.adr = buf[p] /\ pc[p] = "select"
         /\ \A j \in 1..Len(d2h) : d2h[j].op = "page" => d2h[j].block = buf[p] /\ pc[p] = "select"
<1>1. Stage(p)
  BY DEF KdmaInv, ChainInv
<1>2. CASE ~task /\ d2h = <<>>
  BY <1>2
<1>3. CASE task \/ d2h # <<>>
  <2>1. pc[p] = "select" /\ Transfer(p) /\ ~Programming(p, <<WriteReg("ctl", TRUE)>>)
    BY <1>1, <1>3 DEF Stage, Programming, Ended, Quiet
  <2>2. CASE /\ d2h = <<>> /\ saved = [adr |-> buf[p], baz |-> io_baz[p]]
    BY <2>1, <2>2
  <2>3. CASE /\ ~task /\ \E k \in 0..NPages : Writing(p, k)
    <3> PICK k \in 0..NPages : Writing(p, k)
      BY <2>3
    <3> SUFFICES ASSUME NEW j \in 1..Len(d2h), d2h[j].op = "page"
                 PROVE  d2h[j].block = buf[p]
      BY <2>1, <2>3
    <3>1. j # NPages - k + 1
      BY Message DEF Writing
    <3>2. j \in 1..(NPages - k)
      BY <3>1, NPagesAssumption DEF Writing
    <3> QED
      BY <3>2, Message DEF Writing
  <2>4. CASE ~task /\ (d2h = <<>> \/ d2h = <<Reply(TRUE)>>)
    <3>1. ASSUME d2h = <<Reply(TRUE)>>, NEW j \in 1..Len(d2h) PROVE d2h[j].op # "page"
      <4>1. Len(d2h) = 1 /\ d2h[1] = Reply(TRUE)
        BY <3>1
      <4>2. j = 1
        BY <4>1
      <4> QED
        BY <4>1, <4>2 DEF Reply
    <3>2. ASSUME d2h = <<>> PROVE 1..Len(d2h) = {}
      BY <3>2
    <3>3. \A j \in 1..Len(d2h) : d2h[j].op # "page"
      BY <2>4, <3>1, <3>2, Zenon
    <3> QED
      BY <2>4, <3>3
  <2> QED
    BY <1>3, <2>1, <2>2, <2>3, <2>4 DEF Transfer, Quiet
<1> QED
  BY <1>2, <1>3

\* As long as no program was killed, the engine's writes, those on their way and
\* the one it is about to do, go to the block of the program that waits for
\* them, which pmem_alloc has allocated and nothing has freed.
THEOREM EngineInBuffer == Spec => []DmaInBuffer
<1>1. KdmaInv => DmaInBuffer
  <2> SUFFICES ASSUME KdmaInv, kills = 0
               PROVE  /\ \A j \in 1..Len(d2h) : d2h[j].op = "page" => d2h[j].block \in pmem
                      /\ task => saved.adr \in pmem
    BY DEF DmaInBuffer
  <2>1. CASE \A p \in Procs : pc[p] = "off"
    BY <2>1 DEF KdmaInv, ChainInv, Quiet
  <2>2. ASSUME NEW p \in Procs, pc[p] # "off"
        PROVE  /\ \A j \in 1..Len(d2h) : d2h[j].op = "page" => d2h[j].block \in pmem
               /\ task => saved.adr \in pmem
    <3>1. pc[p] = "select" => buf[p] \in pmem
      BY DEF KdmaInv, BuffersHeld
    <3> QED
      BY <2>2, <3>1, WorkIsTransfer
  <2> QED
    BY <2>1, <2>2
<1> QED
  BY <1>1, KdmaSafety, PTL
=============================================================================
