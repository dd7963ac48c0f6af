-------------------------------- MODULE Kdma --------------------------------
(***************************************************************************)
(* The dma stack from the test program down to the engine: the file        *)
(* interface and interrupt handler of the kdma driver (kdma.c), for a      *)
(* device that is bound (PciDriver), the program on top of it (u/main.c,   *)
(* with the check for the C device) and DmaDevice below.  The handler runs *)
(* beside the system calls.  A processor waits in a read of a register     *)
(* until QEMU has the reply, and no other access is made meanwhile; a      *)
(* write is posted.  Programs may be killed, in between their calls or in  *)
(* select, and started again.                                              *)
(***************************************************************************)
EXTENDS DmaDevice

CONSTANTS
  Procs,       \* processes
  MaxIo,       \* bound on the transfers of a program
  MaxRuns,     \* bound on the programs started
  MaxKills,    \* bound on the programs killed
  Span,        \* uintptr_t holds 0..Span-1
  Word,        \* sizeof(uint32_t)
  NBars,       \* the entries of dev->vadr
  Vadr,        \* dev->vadr: where each BAR is mapped, 0 where it is not
  BarLen       \* dev->len

Bars == 0..(NBars - 1)

ASSUME BoundsAssumption == {MaxIo, MaxRuns, MaxKills} \subseteq Nat
ASSUME WordAssumption == Word \in Nat \ {0}
ASSUME SpanAssumption == Span \in Nat \ {0} /\ NBars \in Nat \ {0}
ASSUME MappedAssumption ==
  /\ Vadr \in [Bars -> 0..(Span - 1)] /\ BarLen \in [Bars -> Nat]
  /\ \A b \in Bars : Vadr[b] # 0 => BarLen[b] \in 1..(Span - Vadr[b])

VARIABLES
  ctx,         \* bit 31 of irq_context.sta
  pend,        \* an MSI the CPU has not taken yet
  ipc,         \* the handler: "idle", "read": waits for the status, "store"
  pmem,        \* the blocks in the list pmem_head
  used,        \* the blocks that are not free for __get_free_pages
  mem,         \* what each page of a block holds: see Content
  pc,          \* where each process is
  buf,         \* its buffer
  io_baz,      \* io->baz
  io_sta,      \* bit 31 of io->sta
  nio,         \* transfers it has started
  acc_bar,     \* the BAR of a READ_BAR under way
  acc,         \* and the addresses it reads
  runs,        \* programs started so far
  kills        \* programs killed so far

irqVars == <<ctx, pend, ipc>>
memVars == <<pmem, used, mem>>
procVars == <<pc, buf, io_baz, io_sta, nio>>
envVars == <<acc_bar, acc, runs, kills>>
vars == <<linkVars, engVars, irqVars, memVars, procVars, envVars>>

Reset == "0x2a"
Content == Seeds \cup {Reset}

\* "clear2" and "get2" are inside GET_IRQCONTEXT, between its load and its store
Pc == {"off", "alloc", "mmap", "reset", "clear", "clear2", "baz", "adr", "ctl",
       "select", "get", "get2", "check", "close"}

TypeOK ==
  /\ DevTypeOK
  /\ ctx \in BOOLEAN /\ pend \in BOOLEAN /\ ipc \in {"idle", "read", "store"}
  /\ pmem \subseteq Blocks /\ used \subseteq Blocks
  /\ mem \in [Blocks -> [Pages -> Content]]
  /\ pc \in [Procs -> Pc] /\ buf \in [Procs -> Addrs]
  /\ io_baz \in [Procs -> Seeds] /\ io_sta \in [Procs -> BOOLEAN]
  /\ nio \in [Procs -> 0..MaxIo] /\ acc_bar \in Bars /\ acc \subseteq 0..(Span - 1)
  /\ runs \in 0..MaxRuns /\ kills \in 0..MaxKills

Init ==
  /\ DevInit
  /\ ctx = FALSE /\ pend = FALSE /\ ipc = "idle"
  /\ pmem = {} /\ used = {} /\ mem = [b \in Blocks |-> [i \in Pages |-> Reset]]
  /\ pc = [p \in Procs |-> "off"] /\ buf = [p \in Procs |-> Nowhere]
  /\ io_baz = [p \in Procs |-> CHOOSE v \in Seeds : TRUE]
  /\ io_sta = [p \in Procs |-> FALSE] /\ nio = [p \in Procs |-> 0]
  /\ acc_bar = 0 /\ acc = {} /\ runs = 0 /\ kills = 0

----------------------------------------------------------------------------
(* QEMU *)

\* The next message from the device: a page is copied to guest memory, or an MSI
\* is raised.  Interrupts the CPU has not taken are merged.
HostReceive ==
  /\ d2h # <<>> /\ d2h' = Tail(d2h)
  /\ LET m == Head(d2h)
     IN  /\ mem' = IF m.op = "page" /\ m.block \in Blocks
                   THEN [mem EXCEPT ![m.block][m.page] = m.seed] ELSE mem
         /\ pend' = (pend \/ m.op = "msi")
         /\ m.op # "reply"
  /\ UNCHANGED <<h2d, engVars, ctx, ipc, pmem, used, procVars, envVars>>

----------------------------------------------------------------------------
(* The interrupt handler *)

\* irq_handler: read_sta, and the wait for the reply
irq_handler_read ==
  /\ pend /\ ipc = "idle" /\ ipc' = "read" /\ pend' = FALSE
  /\ h2d' = Append(h2d, ReadSta)
  /\ UNCHANGED <<d2h, engVars, ctx, memVars, procVars, envVars>>

\* the reply; nothing is stored unless the transfer is done
irq_handler_status ==
  /\ ipc = "read" /\ d2h # <<>> /\ Head(d2h).op = "reply" /\ d2h' = Tail(d2h)
  /\ ipc' = IF Head(d2h).done THEN "store" ELSE "idle"
  /\ UNCHANGED <<h2d, engVars, ctx, pend, memVars, procVars, envVars>>

irq_handler_store ==
  /\ ipc = "store" /\ ipc' = "idle" /\ ctx' = TRUE
  /\ UNCHANGED <<linkVars, engVars, pend, memVars, procVars, envVars>>

Handler == irq_handler_read \/ irq_handler_status \/ irq_handler_store

----------------------------------------------------------------------------
(* The file interface *)

\* a + b in size_t
Add(a, b) == (a + b) % Span

\* Faulty variant: the overflow of the address is not checked.
check_bar_access_NoOverflow(bar, off, count) ==
  /\ bar < NBars
  /\ Vadr[bar] # 0 => Add(off, count * Word) <= BarLen[bar] /\ off % Word = 0

\* check_bar_access.  A BAR that is not mapped passes, with any range
check_bar_access(bar, off, count) ==
  /\ bar < NBars
  /\ Vadr[bar] # 0 =>
       LET size == count * Word
           bar_addr == Add(Vadr[bar], off)
       IN  /\ count <= (Span - 1) \div Word
           /\ ~(bar_addr < Vadr[bar])
           /\ ~(Add(bar_addr, size) < bar_addr)
           /\ Add(off, size) <= BarLen[bar]
           /\ off % Word = 0

\* KDMA_IOCTL_READ_BAR with any arguments, NBars being a BAR that is none: what
\* passes is read word by word from the address on (read_bar_safe).  It leaves
\* nothing behind for the other steps, and the model has it ahead of the first
\* program only.
ReadBar ==
  /\ acc = {} /\ runs = 0
  /\ \E bar \in 0..NBars, off, count \in 0..(Span - 1) :
       /\ check_bar_access(bar, off, count) /\ acc_bar' = bar
       /\ acc' = {Add(Vadr[bar] + off, k) : k \in 0..((count * Word) - 1)}
  /\ UNCHANGED <<linkVars, engVars, irqVars, memVars, procVars, runs, kills>>

ReadBarEnd ==
  /\ acc # {} /\ acc' = {}
  /\ UNCHANGED <<linkVars, engVars, irqVars, memVars, procVars, acc_bar, runs, kills>>

Goes(p, from, to) == pc[p] = from /\ pc' = [pc EXCEPT ![p] = to]

\* KDMA_IOCTL_WRITE_BAR of a register
WriteBar(r, v) ==
  /\ ipc # "read" /\ h2d' = Append(h2d, WriteReg(r, v)) /\ UNCHANGED d2h

\* KDMA_IOCTL_GET_IRQCONTEXT, in two steps: the load, and the store of 0
GetIrqContext(p) == io_sta' = [io_sta EXCEPT ![p] = ctx] /\ UNCHANGED ctx

\* Faulty variant: the status is copied and stays.
ClearIrqContext_Not == ctx' = ctx /\ UNCHANGED io_sta

ClearIrqContext == ctx' = FALSE /\ UNCHANGED io_sta

\* pmem_alloc: fails without memory for the block or for the list's node
PmemAlloc(p) ==
  \/ \E b \in Blocks \ used :
       /\ Goes(p, "alloc", "mmap") /\ buf' = [buf EXCEPT ![p] = b]
       /\ used' = used \cup {b} /\ pmem' = pmem \cup {b}
  \/ Goes(p, "alloc", "close") /\ UNCHANGED <<buf, used, pmem>>

PmemFree(b) == used' = used \ {b} /\ pmem' = pmem \ {b}

\* Faulty variant: close forgets the list instead of freeing it.
FreePmemNodes_Forget == used' = used /\ pmem' = {}

\* free_pmem_nodes, in kdma_file_close
FreePmemNodes == used' = used \ pmem /\ pmem' = {}

----------------------------------------------------------------------------
(* The program *)

\* Users run one program at a time ("open must be exclusive", and is not)
Start(p) ==
  /\ Goes(p, "off", "alloc") /\ runs < MaxRuns /\ runs' = runs + 1
  /\ acc = {} /\ \A q \in Procs : pc[q] = "off"
  /\ nio' = [nio EXCEPT ![p] = 0]
  /\ UNCHANGED <<linkVars, engVars, irqVars, memVars, buf, io_baz, io_sta, acc_bar, acc, kills>>

\* dma_alloc_buf
AllocBuf(p) ==
  /\ PmemAlloc(p)
  /\ UNCHANGED <<linkVars, engVars, irqVars, mem, io_baz, io_sta, nio, envVars>>

Mmap(p) ==
  /\ \/ Goes(p, "mmap", "reset") /\ UNCHANGED <<pmem, used>>
     \/ Goes(p, "mmap", "close") /\ PmemFree(buf[p])
  /\ UNCHANGED <<linkVars, engVars, irqVars, mem, buf, io_baz, io_sta, nio, envVars>>

\* reset_buffer, and the seed dma_start_read draws
ResetBuffer(p) ==
  /\ Goes(p, "reset", "clear") /\ nio[p] < MaxIo
  /\ nio' = [nio EXCEPT ![p] = @ + 1]
  /\ mem' = [mem EXCEPT ![buf[p]] = [i \in Pages |-> Reset]]
  /\ \E v \in Seeds : io_baz' = [io_baz EXCEPT ![p] = v]
  /\ UNCHANGED <<linkVars, engVars, irqVars, pmem, used, buf, io_sta, envVars>>

\* dma_start_read: "clear pending interrupt", then the registers
ClearPending(p) ==
  /\ \/ Goes(p, "clear", "clear2") /\ GetIrqContext(p)
     \/ Goes(p, "clear2", "baz") /\ ClearIrqContext
  /\ UNCHANGED <<linkVars, engVars, pend, ipc, memVars, buf, io_baz, nio, envVars>>

\* Faulty variant: the transfer is started ahead of the address.
Registers_Swapped(p) ==
  /\ \/ Goes(p, "baz", "adr") /\ WriteBar("baz", io_baz[p])
     \/ Goes(p, "adr", "ctl") /\ WriteBar("ctl", TRUE)
     \/ Goes(p, "ctl", "select") /\ WriteBar("adr", buf[p])
  /\ UNCHANGED <<engVars, irqVars, memVars, buf, io_baz, io_sta, nio, envVars>>

Registers(p) ==
  /\ \/ Goes(p, "baz", "adr") /\ WriteBar("baz", io_baz[p])
     \/ Goes(p, "adr", "ctl") /\ WriteBar("adr", buf[p])
     \/ Goes(p, "ctl", "select") /\ WriteBar("ctl", TRUE)
  /\ UNCHANGED <<engVars, irqVars, memVars, buf, io_baz, io_sta, nio, envVars>>

\* dma_wait_io: select (kdma_file_poll), then the context, until bit 31 is in it
Select(p) ==
  /\ Goes(p, "select", "get") /\ ctx
  /\ UNCHANGED <<linkVars, engVars, irqVars, memVars, buf, io_baz, io_sta, nio, envVars>>

Get(p) ==
  /\ \/ Goes(p, "get", "get2") /\ GetIrqContext(p)
     \/ Goes(p, "get2", IF io_sta[p] THEN "check" ELSE "select") /\ ClearIrqContext
  /\ UNCHANGED <<linkVars, engVars, pend, ipc, memVars, buf, io_baz, nio, envVars>>

Arrived(p) == \A i \in Pages : mem[buf[p]][i] = io_baz[p]

\* check_io: the program ends at the first difference, else transfers again
CheckIo(p) ==
  /\ Goes(p, "check", IF Arrived(p) THEN "reset" ELSE "close")
  /\ UNCHANGED <<linkVars, engVars, irqVars, memVars, buf, io_baz, io_sta, nio, envVars>>

\* The file is closed, by the program or when its process ends
FileClose(p) ==
  /\ Goes(p, "close", "off") /\ FreePmemNodes /\ buf' = [buf EXCEPT ![p] = Nowhere]
  /\ UNCHANGED <<linkVars, engVars, irqVars, mem, io_baz, io_sta, nio, envVars>>

Kill(p) ==
  /\ pc[p] \notin {"off", "close", "clear2", "get2"} /\ kills < MaxKills
  /\ pc' = [pc EXCEPT ![p] = "close"] /\ kills' = kills + 1
  /\ UNCHANGED <<linkVars, engVars, irqVars, memVars, buf, io_baz, io_sta, nio, acc_bar, acc, runs>>

Program(p) ==
  \/ AllocBuf(p) \/ Mmap(p) \/ ResetBuffer(p) \/ ClearPending(p) \/ Registers(p)
  \/ Select(p) \/ Get(p) \/ CheckIo(p) \/ FileClose(p)

Device == DevNext /\ UNCHANGED <<irqVars, memVars, procVars, envVars>>

Next ==
  \/ Device
  \/ HostReceive
  \/ Handler
  \/ ReadBar \/ ReadBarEnd
  \/ \E p \in Procs : Start(p) \/ Program(p) \/ Kill(p)

Spec == Init /\ [][Next]_vars

----------------------------------------------------------------------------
(* Properties *)

\* The wait returns when the transfer that was started has ended: all of its
\* data is in the buffer.
DataArrived == \A p \in Procs : pc[p] = "check" => Arrived(p)

\* As long as no program was killed, the chain from the start of a transfer to
\* the check of its data holds: the engine works on the registers as the program
\* left them, the reply to the handler's read of the status comes behind the
\* data, and no status of an earlier transfer is left for the wait to find.
DataArrivedUnkilled == kills = 0 => DataArrived

\* The engine writes to the buffer of the running program and nowhere else, as
\* long as no program was killed: the driver does not stop a transfer when the
\* file is closed, and frees the block under it.
DmaInBuffer ==
  LET busy == {d2h[i].block : i \in {j \in 1..Len(d2h) : d2h[j].op = "page"}}
              \cup (IF task THEN {saved.adr} ELSE {})
  IN  kills = 0 => busy \subseteq pmem

\* The list of blocks is exact, killed programs or not: the buffer of a running
\* program is allocated, no block is lost to the list, and none is left when no
\* program runs.
BuffersHeld ==
  /\ pmem = used
  /\ \A p \in Procs : pc[p] \notin {"off", "alloc", "close"} => buf[p] \in pmem
  /\ (\A p \in Procs : pc[p] = "off") => pmem = {}

\* The addresses a BAR is mapped at
BarBytes(b) == IF Vadr[b] = 0 THEN {} ELSE Vadr[b]..(Vadr[b] + BarLen[b] - 1)

\* READ_BAR reads the BAR it was given and nothing else ("check accessed
\* range"), whatever the arguments.
AccessInBar == acc \subseteq BarBytes(acc_bar)

\* It does where the BAR is mapped, for every offset and count, although the
\* sums check_bar_access compares wrap around.
MappedAccessInBar == Vadr[acc_bar] # 0 => AccessInBar

----------------------------------------------------------------------------
(* The inductive invariant behind the four *)

\* At most one program runs
Exclusive == \A p, q \in Procs : pc[p] # "off" /\ pc[q] # "off" => p = q

NoInterrupt == ~pend /\ ipc = "idle" /\ ~ctx
Quiet == h2d = <<>> /\ d2h = <<>> /\ ~task /\ NoInterrupt

\* The registers are on their way: what is not in h2d is in the engine
Programming(p, h) ==
  /\ d2h = <<>> /\ ~task /\ NoInterrupt
  /\ LET seed == WriteReg("baz", io_baz[p])
         addr == WriteReg("adr", buf[p])
     IN  \/ h2d = <<seed, addr>> \o h
         \/ h2d = <<addr>> \o h /\ baz = io_baz[p]
         \/ h2d = h /\ baz = io_baz[p] /\ adr = buf[p]

\* The first k pages have been written, the others and the MSI are on their way
Writing(p, k) ==
  /\ Len(d2h) = NPages - k + 1 /\ d2h[NPages - k + 1] = Msi
  /\ \A i \in 1..(NPages - k) : d2h[i] = Page(buf[p], k + i, io_baz[p])
  /\ \A i \in 1..k : mem[buf[p]][i] = io_baz[p]

\* A transfer that was started, from the registers to irq_context, or given up
Transfer(p) ==
  \/ Programming(p, <<WriteReg("ctl", TRUE)>>)
  \/ /\ h2d = <<>> /\ d2h = <<>> /\ NoInterrupt
     /\ task /\ saved = [adr |-> buf[p], baz |-> io_baz[p]]
  \/ /\ h2d = <<>> /\ ~task /\ sta /\ NoInterrupt
     /\ \E k \in 0..NPages : Writing(p, k)
  \/ /\ ~task /\ sta /\ ~ctx /\ Arrived(p)
     /\ \/ h2d = <<>> /\ d2h = <<>> /\ pend /\ ipc = "idle"
        \/ h2d = <<ReadSta>> /\ d2h = <<>> /\ ~pend /\ ipc = "read"
        \/ h2d = <<>> /\ d2h = <<Reply(TRUE)>> /\ ~pend /\ ipc = "read"
        \/ h2d = <<>> /\ d2h = <<>> /\ ~pend /\ ipc = "store"
  \/ Quiet /\ dropped

\* It is in irq_context
Ended(p) ==
  /\ h2d = <<>> /\ d2h = <<>> /\ ~task /\ ~pend /\ ipc = "idle" /\ ctx
  /\ Arrived(p)

\* Where the one transfer there may be is, by the place of the program
Stage(p) ==
  CASE pc[p] = "adr" ->
         /\ d2h = <<>> /\ ~task /\ NoInterrupt
         /\ \/ h2d = <<WriteReg("baz", io_baz[p])>>
            \/ h2d = <<>> /\ baz = io_baz[p]
    [] pc[p] = "ctl" -> Programming(p, <<>>)
    [] pc[p] = "select" -> Transfer(p) \/ Ended(p)
    [] pc[p] = "get" -> Ended(p)
    [] pc[p] = "get2" -> Ended(p) /\ io_sta[p]
    [] pc[p] = "check" -> Quiet /\ Arrived(p)
    [] OTHER -> Quiet

ChainInv ==
  kills = 0 => /\ \A p \in Procs : pc[p] # "off" => Stage(p)
               /\ (\A p \in Procs : pc[p] = "off") => Quiet

KdmaInv == TypeOK /\ Exclusive /\ BuffersHeld /\ MappedAccessInBar /\ ChainInv

----------------------------------------------------------------------------
\* The processes and the device run, and an interrupt is taken.
Fairness ==
  /\ WF_vars(Device) /\ WF_vars(HostReceive) /\ WF_vars(Handler)
  /\ \A p \in Procs : WF_vars(Program(p))

FairSpec == Spec /\ Fairness

\* A transfer is always waited for with success, also behind a program that was
\* killed with its own transfer under way: of two starts the later one's
\* interrupt comes, and the clear never eats it.  Exception: a transfer the
\* device gave up, of which it tells nobody.
WaitEnds ==
  \A p \in Procs :
    (pc[p] = "select") ~> (pc[p] # "select" \/ (dropped /\ h2d = <<>>))
=============================================================================
