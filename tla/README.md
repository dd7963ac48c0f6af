# Verification of vpcie

vpcie lets a guest in QEMU use a PCIe device that is simulated by another
process, often a VHDL design run by GHDL. This directory holds TLA+ models of
its core and of the drivers and programs it comes with, TLC runs on small
instances, and TLAPS proofs, for every instance, of the safety properties those
runs check and of the refinement. Paths below are relative to the repository.

## The system

| part | source | state | operations |
|---|---|---|---|
| `pciefw`, a QEMU device | `qemu/03e9.../00_pciefw.patch` | socket, one message buffer, sizes of the regions, shadow of the configuration space | connect and probe, guest reads and writes (memory, configuration), reply loop, descriptor handler, exit |
| `pcie_net`, transport and event loop | `src/pcie/pcie_net.{h,c}` | listening and connected sockets, event descriptor, one task slot | accept, send, receive, select loop, close |
| `pcie`, device API | `src/pcie/pcie.{h,c}` | BAR sizes and callbacks, configuration space | dispatch of requests, configuration accesses, MSI |
| `pcie_glue`, bridge to GHDL | `src/pcie/pcie_glue.c`, `src/main/main_ghdl.c` | two fifos, a pipe, `reply_node`, the thread's state | io thread; calls of the simulation: send MSI, write, reply, poll; create, join |
| `endpoint`, VHDL entity | `src/pcie/pcie_endpoint.vhdl` | request outputs, pending acknowledgement | one clocked process |
| `dma` device | `src/dma/hw` (VHDL and C), datasheet in `src/dma/ds` | five registers, an engine | programmed transfer to host memory, status, MSI |
| `kdma` driver and application | `src/dma/sw` | interrupt context, list of buffers, mapped BARs | probe, ioctl, poll, mmap, interrupt handler |
| `sbone` example | `src/sbone` | register bank, MSI register; driver and application | accesses, MSI |
| `ebone` bus | `src/ebone` | arbiter, watchdog, bridge state machines, fifos | bus transactions, broad-call |
| older patch, NVMe patch, slides | `qemu/5861...`, `01_nvme.patch`, `doc` | | |

QEMU and the endpoint process talk over one TCP connection with
length-prefixed messages. Reads are answered on the same connection on which
the device's posted writes and MSIs travel. In the endpoint process the io
thread and the simulation thread share the fifos under a mutex, wake each other
through a pipe (one way) and a flag the io thread polls (the other way).

What is hard here: two threads and two processes without a common order; a
protocol whose replies carry no tag; a spinning wait inside the event loop; a
blocking pipe between two threads that wait for each other; the end of either
process at any point and the reconnection after it; drivers whose probes,
removals, interrupts and system calls run beside each other; a transfer that
outlives the program that started it; hardware whose registered
and combinational parts see values of different delta cycles; the arithmetic of
the BAR probe. `PROJECT.json` lists these hazards line by line, with the
properties that would catch each of them.

What makes the parts correct:

- link: a read gets its own reply; nothing is reordered, lost or duplicated;
  a reconnection never reaches a socket nobody accepts from;
- glue: no node is used after it is freed, no wake-up is lost, the branches the
  code marks `should_not_occur` do not occur, reads return, the join ends;
- configuration space: the probe computes the sizes, and device and QEMU agree
  on the addresses;
- dma: status and interrupt come behind the data, writes stay in the buffer, a
  transfer ends, the documented procedure works;
- drivers: a handler finds its device, a probe that fails leaves nothing behind,
  a program learns of its own interrupt, blocks are neither lost nor written to
  when free, accesses stay in the BAR;
- programs: a wait ends, and ends when what was waited for is there.

## Modules

### The session: `PcieNet`, `Pciefw`, `PcieGlue`, `VPcie`

`PcieNet` is the connection: `h2d` and `d2h` are the bytes in flight, as
sequences of messages, and `conn` says which end still holds it. Closing an end
with unread data may cost the other end what is in flight to it (TCP reset).
`SendToDevice` and `SendToHost` are `send`: bytes sent to a peer that has gone
are lost, whether or not `send` reports it.

`Pciefw` is QEMU: one sequential process, since device callbacks and descriptor
handlers run under QEMU's lock. `HostCall` is the entry of a guest access,
`HostIssue` its transmission, `RecvReply` one turn of the loop in
`pciefw_recv_reply`, `OnRead`/`OnReadError` the descriptor handler,
`HostConnect`/`HostConnectFail` `pciefw_connect_probe_device`, `HostProbe` the
probe's accesses (write, read, restore of one BAR; the arithmetic is in
`PcieConfig`), `HostExit` the end of QEMU.

`PcieGlue` is the endpoint process. The io thread's program counter `iopc`
follows `thread_entry` and `pcie_net_loop`: `IoSelect`, then the four `IoRecv*`
cases of `on_msg_recv`, `IoWait` (the spin in `on_bar_read`), `IoReply`,
`IoEvent`/`IoKey`/`IoBatch` (`on_event`: events read, list detached, messages
sent one at a time), `IoEndLoop`, and the two closes of `pcie_net_fini`. The
simulation thread's `gpc` follows the endpoint's clocked process: `EdgeMsi` and
`EdgeMwr` push, `WriteEvent` writes to the pipe and blocks while it is full,
`EdgeReply` copies the data, `ReplyDone` sets the flag behind the barrier,
`PollRxFifo` pops; `GhdlEnd`, `WriteQuit` and `Join` are
`pcie_glue_join_thread`. A critical section is one step; everything outside one
that the other thread can see is a step of its own. `Nodes` are the addresses
`malloc` returns: a freed node may be allocated again at once, so a late access
hits a live object of another access, as in the program.

`VPcie` composes the three, adds the user logic and the life of the endpoint
process (`Kill`, `Restart`). The user logic is sbone's: `req_ack` tied to '1', a
register bank, one reply pulse per read after any number of clocks; it also
posts writes and MSIs whenever it likes.

### The abstract bus: `PcieBus`, `VPcieBus`

`PcieBus` is what a session promises to the guest driver and to the device's
logic: locations written and read one access at a time, one answer for each
read, and a channel of posted messages that is in order and complete while the
connection lasts; what a break costs is a suffix. Answers and posted messages
are deliberately not ordered against each other, because the code does not order
them (run `overtake`). `VPcieBus` gives the refinement mapping: a location holds
what the guest wrote last (the effect of a write that is still in the socket or
in `rx_fifo` is not observable), a message is in the channel from its push to
`tx_fifo` on, through the list `on_event` detached and the socket, until QEMU has
processed it; a read is being served while `hreq` is set, and answered from the
moment its reply is on the socket. `LocOf`, `Reading`, `AnswerIn` and `Channel`
are these parts of the mapping. A connection opens with an empty channel:
`pcie_glue_create_thread` lets the simulation go on only once the io thread has
accepted, so that nothing is emitted before.

### The drivers: `PciDriver`, `Sbone`, `Kdma`

`PciDriver` is how both Linux drivers bind: `kdma.c` and `sbone.c` have the same
text for it, up to names, so that it is modelled once and its definitions are
mapped to the one or the other. Every call into the kernel is a step that may
fail where the code tests it. `ppc` is where the probe or the removal of a device
is, `err4` to `err1` being the labels `on_error_4` to `on_error_1`, which the
removal goes through as well. `DevAlloc` and `DevAllocNext` are turns of the loop
over the bitmap captured at its start. `others` are structures held by devices
outside `Pdevs`, which the module binds when it is loaded and which stay bound, so
that the table can be full. The region of a BAR whose `ioremap` failed
stays held (`MapBars`), as in the code.

`Sbone` adds the rest of that stack: the interrupt counter with the handler,
`GET_IRQCOUNT` and poll; the BAR sizing of `sbone_dev.c`, one configuration access
at a time (`Save`, `WriteOnes`, `Restore`); and the program, which
maps the BARs through `/dev/mem` at a fixed PCI address, clears the counter,
triggers an interrupt, waits, and reports the count (`nirqs`). The file it opens
may belong to another device, and devices may be removed, disabled by `error_detected` and bound again under
it; `undone` remembers for which processes that happened. MSIs the CPU has not
taken are merged, as by the interrupt controller. A user may interrupt a program
at any point (`Kill`): its interrupt then comes under the next one, and a BAR that
was being sized keeps the size mask, which the next program saves as the address.

`DmaDevice` is the C device: the registers, the one task slot of
`pcie_net_loop`, and `finalize_transfer` as one step, which appends the pages and
the MSI to the connection, or gives the transfer up when it cannot allocate its
buffer (`GiveUp`, `dropped`). The registers start uninitialised, so that the status
may be set before any transfer. `Kdma` is the file interface and the handler of
the kdma driver on a bound device, with the program on top. The handler reads the
status register over the connection (`irq_handler_read`, `irq_handler_status`)
and stores it (`irq_handler_store`); `GET_IRQCONTEXT` is a load and a store, with
the handler free to run in between. A processor that waits for a register keeps
QEMU busy, so that no other register access is made. Programs run one at a time;
they can be killed between their calls or in `select`, upon which the file is
closed and its blocks are freed while a transfer may be under way.
`check_bar_access` computes with addresses that wrap around at `Span`, and lets
every access to a BAR that is not mapped pass, as the code does; `ReadBar` is a
`READ_BAR` with any BAR, offset and count, and `acc` are the addresses it reads for
BAR `acc_bar`. It leaves no state behind, so that the model has it ahead of the
first program only. `MCKdma` says where the BARs are mapped.
The program's check of the data is the one for the C device (`#if 0` in
`check_buf`; as it stands in the repository the file is set for the VHDL one).

### The dma engine: `DmaEngine`

One action, `Clock`, is a rising edge; every clocked process reads the values
from before it. The state machine's output process is sensitive to `dma_state`
alone, so what it assigns on entering a state uses the signals of that delta
cycle: `dma_off` still follows the old counter. This is why `Outputs` uses `Off`
unprimed and the registers primed. `Endpoint` is the same entity as in
`PcieGlue`, here with a user logic that drives `req_ack`, so that requests are
held. `Width` stands for 2^16, `Block` for 128 bytes.

### The configuration space: `PcieConfig`

A register has four bytes of `Base` values. `on_write_config` is the device's
handler with its special case for all ones and its four-byte read of the
message buffer `mbuf`; `ProbeRegion` is one turn of QEMU's probing loop;
`pciefw_write_config` a guest write, which reaches QEMU's copy even when the
device is not connected. `pci_default_write_config` and the reset of the BAR by
`pci_register_bar` are QEMU's and marked external. A message and its handler are
one step, which the session model justifies: requests are served one at a time
and in order. Data of earlier memory writes in `mbuf` is not modelled; stale
bytes come from configuration writes and from the uninitialised allocation.
`ConfigRegs` has one register more than there are BARs, as the probing loop.
`Weight(k)` is the weight of byte `k`, written as products of `Base` because the
prover knows nothing of `^`.

### Proof modules

`VPcieTyping`, `VPcieProofs` and `VPcieDelivery` are about `VPcie`,
`VPcieBusProofs` about `VPcieBus`, `SboneProofs` about `PciDriver` and `Sbone`,
`KdmaProofs` about `DmaDevice` and `Kdma`, `DmaEngineProofs` and
`PcieConfigProofs` about the modules they are named after. The inductive
invariants are defined beside the properties, in the modules of the model. See
"Proofs".

## Runs

| run | instance | shows |
|---|---|---|
| `restart` | two lives, 2 accesses, 2 nodes, 2 emissions over a connection, pipe and event buffer of 2 | the thread handshake: `NoUseAfterFree`, `ShouldNotOccur`, `NoStrayReply`, `ReadYourWrites`; `BusSpec` (the refinement), `InOrder`, `WakeUpPending`, `QuitDrains` as an action property, `NoOrphanConnect`, and `IInv`, the invariant the proofs use |
| `live` | fair threads, pipe of 1, 2 emissions, one access, bars 1 and 6 (missing) | `ReadReturns`, `JoinEnds`, `Delivered` |
| `overtake` | one read, one emission | violated: `ReadPushes` |
| `user_size` | an emission smaller than the payload | violated: `UserSizeRespected` |
| `transfers` | every size that is a number of blocks, a second transfer or a status read behind it | `StatusCovers`, `MsiAfterData`, `TransferEnds` |
| `buffer` | one request | violated: `InBuffer` |
| `procedure` | the datasheet's procedure | violated: `ProcedureStarts` |
| `probe` | two BARs of sizes 0, 2, 8 of a 16-valued register, writes of four values, deaths and reconnections | `ProbeExact`, `AddrAgree` |
| `sbone` | two devices for two structures, of which other devices may hold any, one BAR, two runs of the program | `HandlerReady`, `UnboundClean`, `ReportedCount`, `WaitEnds` |
| `transfer` | three runs of the program, two of them killed, two transfers each, two blocks of two pages, two seeds; 5 bit addresses, a mapped BAR and one that is not | `DataArrivedUnkilled`, `DmaInBuffer`, `BuffersHeld`, `MappedAccessInBar`, `WaitEnds` |
| `stale` | two runs, one killed | violated: `DataArrived` |
| `unmapped` | the same two BARs | violated: `AccessInBar` |

The bounds are where the interesting cases are. Two accesses are needed for a
write ahead of a read in the fifo, and the second may get the node that the first
has freed. Two emissions and an event buffer of two give
events that find the fifo already empty, and two events in one turn. A
pipe of one event blocks the simulation thread with the io thread in every
position. Two lives are one reconnection with everything that the first life
left behind. In `DmaEngine` the whole range of the 16-valued offset is covered;
in `PcieConfig` the values written have low bits set and clear under both sizes,
and all ones is one of them. In `probe` the guest writes whole registers, as
operating systems do with BARs. Two devices and two structures let two probes
race for one structure, and let a structure change hands under an open file; with
other devices holding one or both, an allocation fails at once or after a lost race.
The one BAR is the one the program and the devices use. Two
killed programs in front of a third leave a transfer in the task slot, one on the
connection and an interrupt pending at once; two seeds tell the transfers' data
apart, two blocks the buffers.

Deadlock is not checked in the session runs: a session ends when QEMU has exited,
the bound on accesses is used up or the last life is over, and the wait of
`ReadReturns`' exceptions is a state the program can really be stuck in. Nor in
`transfer`, `stale` and `unmapped`, where a program stops at the bound on its
transfers. It
is checked in the others.

### Fairness

`FairSpec` of `VPcie` makes the two threads (weakly) fair, as a scheduler does,
each as one process; QEMU finishes handlers it is in and serves readable
descriptors; and a user logic with a read pending answers it after finitely many
clocks (strong fairness of `EdgeAnswer`, since the simulation thread also does
other things). Nothing makes the guest access the device, the device emit, or a
process end. `DmaEngine`'s fairness is the running clock. In `Sbone` and `Kdma` a
program takes its next step when it can, a CPU takes its interrupts and finishes
the handler, and the device and QEMU handle their messages; probes, removals,
starts and kills need not happen. The task's timeout is part of the device's
progress: with nothing to read, `select` times out.

The liveness properties name their exceptions, and these are real: a simulation
that ends with a read pending leaves the io thread in `on_bar_read`, with QEMU
blocked behind it and the join waiting; and with the pipe full, a simulation
thread blocked in `write` cannot reply to the read the io thread spins on
(`PipeDeadlock`). A real pipe holds 64 KiB of events, so the second takes
that many emissions during one read. `WaitEnds` of `Sbone` excepts a program
whose device was removed, disabled or is not the one of its file, and one behind a
program that was killed while it sized the BAR: the register is left at the mask
and nothing reaches the device. That of `Kdma` excepts a transfer the C device gave
up, of which nobody is told.

## Findings

- `pcie_glue_send_write` sends the payload buffer's size instead of the user's.
- `dma.vhdl`: `mwr_addr` is one counter value behind, so that the first block of
  a transfer after another goes beyond the buffer; and a held CTL write is
  latched again after the self-clear, so that one request gives two transfers.
- `dma.vhdl`: only `write_done` acknowledges, so that the documented procedure
  blocks at its first register write.
- The reply of a read overtakes posted writes that the device emitted before it,
  because the io thread spins in `on_bar_read` and then sends the reply first: a
  status register read as done does not mean that the data has arrived.
- A program of the kdma driver takes the interrupt of a transfer left by a killed
  program for its own, and checks its buffer before its data has arrived: the
  status is cleared once, before the start, and closing the file stops nothing.
- `check_bar_access` lets every access to a BAR that is not mapped pass, before it
  has looked at the range, and the driver then reads at the offset itself
  (`kdma.c:99`). The dma device has one BAR of six, and removing a device unmaps it
  under the files that are still open.

Met while modelling, and without a run of their own:

- The probing loop runs to `PCI_NUM_REGIONS` (7): the register behind the six BARs
  answers all ones, and a seventh region of 16 bytes is registered
  (`00_pciefw.patch:574`; `hbar[NBars]` in `PcieConfig`).
- `on_write_config` reads four bytes whatever the message's size: a narrow write
  is combined with bytes of an earlier message, and may be taken for a probe
  (`pcie.c:127`; with `Widths = {1, 2, 4}` `AddrAgree` fails).
- A transfer of the VHDL engine whose size is no multiple of the block never ends
  (equality test, `dma.vhdl:410`).
- `on_write_config` clears the low bits of a BAR only for the all-ones value,
  although its comment asks for it in general; QEMU masks its own copy, and
  `AddrAgree` compares the decoded bits.
- The C device sends its whole memory whatever the size in `DMA_REG_CTL`.
- The C device gives a transfer up without a word when `malloc` fails
  (`main_dma.c:111`); the program waits for ever.
- A program killed in `get_bar_size` leaves the BAR's register at the size mask, and
  each later run saves and restores the mask (`sbone_dev.c:37`).
- A BAR of less than 16 bytes is taken for one of 16 by QEMU's probe, which clears
  four flag bits; `pcie_set_bar` asks for a power of 2 and tests nothing. PCI has no
  smaller memory BARs, and `SizesAssumption` leaves them out.
- The region of a BAR whose `ioremap` fails is never released, so that each later
  probe of the device fails (`kdma.c:406`); a device disabled by `error_detected`
  is not enabled again by `slot_reset`.
- `open` is not exclusive in either driver, as their TODOs say: `close` of kdma
  frees the blocks of every process, and two processes that size a BAR at the
  same time may leave its register at the size mask.
- `sbone_dev_open_pcie` unmaps the BAR that failed instead of those before it
  (`sbone_dev.c:104`).

## Proofs

Constants are arbitrary: any sets of registers, values, bars, nodes, devices,
structures, blocks, seeds and programs, any capacity of the pipe and the event
buffer, any width of an address, any bound on accesses, emissions, lives, runs and
kills, under the named assumptions beside their declarations. Those say that
values that stand for different things differ (0 is a value, all ones is not,
`NULL` is no node and no request), that sizes do not exceed the payload, that the
engine's width is a multiple of its block, that BAR sizes divide the address
space and are at least the flag bits', and that where the driver has a BAR mapped,
the mapping ends within it.

| module | theorems |
|---|---|
| `VPcieTyping` | `TypeCorrect` |
| `VPcieProofs` | `ReadProtocol`; `RepliesMatch` (`NoStrayReply`), `NodesAlive` (`NoUseAfterFree`), `BranchesUnreachable` (`ShouldNotOccur`) |
| `VPcieDelivery` | `Delivery`; `ConnectSafety` (`NoOrphanConnect`), `NoLostWakeUp` (`WakeUpPending`), `DeliveryInOrder` (`InOrder`), `ReadsSeeWrites` (`ReadYourWrites`), `QuitDrainsFifo` (`QuitDrains`, an action property) |
| `VPcieBusProofs` | `Refinement` (`Spec => BusSpec`) |
| `SboneProofs` | `SboneSafety`; `SboneTyping`, `HandlerFindsDevice` (`HandlerReady`), `UnwindComplete` (`UnboundClean`), `CountsReported` (`ReportedCount`) |
| `KdmaProofs` | `KdmaSafety`; `KdmaTyping`, `RegisterAccess` (`MappedAccessInBar`), `BuffersExact` (`BuffersHeld`), `WaitMeansArrived` (`DataArrivedUnkilled`), `EngineInBuffer` (`DmaInBuffer`) |
| `DmaEngineProofs` | `EngineSafety`; `EngineTyping`, `StatusIsTrue` (`StatusCovers`), `InterruptBehindData` (`MsiAfterData`) |
| `PcieConfigProofs` | `ProbeSafety`; `ConfigTyping`, `ProbeIsExact` (`ProbeExact`), `AddressesAgree` (`AddrAgree`) |

Every theorem has the same shape: an inductive invariant (the first theorem of a
row), with one lemma per group of actions and one step per action in it, and the
properties as its consequences.

### The read protocol (`IInv`)

None of the three properties is inductive alone. That at most one reply is in
flight follows from there being at most one read anywhere, which is a statement
about the request stream, the io thread and the reply stream at once: a read is a
token (`TokenInv`), last in the request stream, or in the io thread, or a reply,
and QEMU waits while it exists. Its node (`NodeInv`) is the only read node:
in `rx_fifo`, in `reply_node`, or in the hands of `pcie_glue_send_reply`, and
not yet replied in any of these; so the io thread cannot free it while the
simulation can still reach it. The user logic (`LogicInv`) has that read on its
inputs or in its pipeline and nowhere else, so that a reply pulse finds
`reply_node`. Connections that broke matter: a request stream of a dead process
is empty, a reply stream of an exited QEMU too, and a reconnection starts fresh.

### Delivery (`DInv`)

`DInv` adds to `IInv` what the data needs. `ThreadInv` says where in its loop the
io thread may hold lists at all, `HostInv` that QEMU is without a socket only where
the endpoint process accepts or refuses (this gives `NoOrphanConnect`), `QuitInv`
that `evk_quit` is the last event there is: behind a quit nothing is pushed, which
is why a loop that stops has sent everything. `OrderInv` is `InOrder` with a
break's prefix extended over the socket, since what QEMU still receives behind a
break must continue the prefix. `WakeUpPending` is inductive with these.
`WritesInv` says that for each location the last write still on its way, through
the socket and then `rx_fifo`, carries what the guest wrote last, and if there is
none the location holds it already (`Coming`, `Queued`, `Held`). `TokenDataInv`
follows the read behind those writes: no write to its location comes after it, and
from the user logic on it carries the data. Together they make the reply what
`ReadYourWrites` expects. The registers are excepted when the simulation has
ended, because nothing pops `rx_fifo` then.

The lemmas that carry this are about sequences: what `Posted` and `ReplyAt` are of
an appended or a shortened stream, and how the last element with a property moves.

### The refinement

Initial states map to initial states, and each action, in a state of `DInv`, to a
step of `PcieBus` or to a stutter. Sending, popping, the events and the whole
handshake of the threads are stutters; a push to `tx_fifo` is an emission, a reply
on the socket an answer (with the register's value, by `TokenDataInv`), the
handlers of QEMU deliver, breaks and deaths cut a suffix. `BusAssumption` keeps
the mapping's markers apart from locations and values.

### The drivers (`BindInv`, `SboneInv`)

`StageInv` makes what a device holds (structure, regions, mappings, MSI, handler,
character device) a function of where its probe or removal is; `SlotInv` gives
each structure one owner and leaves nothing in the structures without one. The
second is what makes the first inductive: a probe that fails clears a structure,
which must not be another device's.

`SboneInv` adds the interrupts. That a program finds exactly one at the end says
nothing about the steps before; `CountInv` follows it: what is in the counter of
its structure and what the CPU has still to take are together at most what a killed
program left before the trigger, one more behind it, and at least one from the
return of `select` on. Only a program in `select`, or one that was killed, has an
interrupt pending, since `select` returned upon it. `FileInv` ties the structure of
an open file to the device that holds it, so that a probe, which clears a counter,
takes another one.

### The kdma stack (`KdmaInv`)

`MappedAccessInBar` needs no invariant but a lemma on addresses: each of the two sums
of `check_bar_access` onto an address wraps around at most once, and one that
does is caught by the comparison behind it; the product does not wrap, by the
first test. `BuffersHeld` is inductive with `Exclusive`. `ChainInv` is the
argument for the rest: while no program was killed there is at most one
transfer, and the program's place determines where it may be (`Stage`): its
registers on the way to the device (`Programming`), in the task slot, its first
pages written and the others on the connection with the MSI behind them
(`Writing`), in the handler, in `irq_context` (`Ended`). So an interrupt that
the program sees is its own, and the pages are in front of it; a transfer that was
given up leaves nothing on the way. A kill ends this
argument, which is what run `stale` shows.

### The engine (`TransferInv`)

In `write_one` the offset on its way out closes the only gap below the counter, in
`write_next` there is none, in `write_done` the requested size is covered, and
status and MSI are about a transfer that nothing has overwritten since. The address
of the first block may be a stale one (see the findings); the counter that is
compared with the size is reset, so that the status is right nevertheless.

### The configuration space (`ProbeInv`, `AddrInv`)

The arithmetic lemmas say that for a size that divides the address space the mask
that the device answers is the address space's size less the BAR's, and that
QEMU's negation of it gives the size back; that four bytes put together are the
value they were taken from; and that clearing the low bits twice clears them once.
`ProbeInv` then follows the probing loop through deaths and reconnections.
`AddressesAgree` assumes that guests write BARs as 32 bits; for narrower writes it
is false (see the findings).

### Only model-checked

The liveness properties (`ReadReturns`, `JoinEnds`, `Delivered`, `TransferEnds`,
`WaitEnds` of `Sbone` and of `Kdma`), since fairness is out of the prover's reach;
and the six violations, which need an instance. The inductive invariants beside
`IInv` were model-checked on the instances of the runs before they were proved, and
are not among the properties of the runs.

## Not modelled

UDP (a build option); byte-level framing and full socket buffers (sends do not
block, so the wait of both processes in `send` is not covered); `recv` cut short
by a signal; a second QEMU connecting while the first is served (the endpoint
accepts once); QEMU's memory regions and MSI delivery beyond their effect; the
contents of posted writes beyond their order and length; capability bytes of
the configuration space; sbone's reply multiplexer clock by clock; the ebone bus
and the rashpa design on it, which a session sees only as requests answered and
messages emitted at the endpoint entity; two processes in the kdma driver at the
same time, and with them its unlocked list of blocks; `PMEM_SYNC`, which changes no
state of the driver; the boot and early allocators, compiled
out; the older patch and the NVMe patch.

## Plan

Done: the session model, its refinement of the abstract bus, the dma engine and
the C device, the configuration space, the two drivers with their programs; the
proofs of all safety properties of the passing runs and of the refinement.

To come: the sizes a BAR may have in the device's 64 bit `bar_size` and what the
32 bit probe makes of the largest; two processes in the kdma driver, with its
unlocked list of blocks; step properties of the drivers and the engine as theorems,
from the invariants there are.
