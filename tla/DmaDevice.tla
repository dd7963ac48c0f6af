----------------------------- MODULE DmaDevice -----------------------------
(***************************************************************************)
(* The dma engine written in C (main_dma.c) on the event loop of           *)
(* pcie_net.c, and the connection to QEMU.  The loop handles one message   *)
(* at a time; a transfer is a delayed task, for which the loop has one     *)
(* slot, run when select times out (a message may be on its way).  ADL and *)
(* ADH, written one behind the other, are one register here.               *)
(***************************************************************************)
EXTENDS Naturals, Sequences

CONSTANTS
  Blocks,    \* the physical blocks of the size of the bram
  NPages,    \* the pages of a block
  Seeds,     \* the values of DMA_REG_BAZ
  Nowhere    \* an address that is no block: the registers at first

Pages == 1..NPages

ASSUME NPagesAssumption == NPages \in Nat \ {0}
ASSUME NowhereAssumption == Nowhere \notin Blocks

VARIABLES
  h2d,       \* register accesses on the connection
  d2h,       \* posted writes, MSIs and replies on the connection
  adr, baz,  \* the registers
  sta,       \* bit 31 of DMA_REG_STA: the transfer has ended
  saved,     \* the context finalize_transfer works on
  task,      \* net->task_fn is set
  dropped    \* the transfer started last was given up, for want of memory

linkVars == <<h2d, d2h>>
engVars == <<adr, baz, sta, saved, task, dropped>>

\* A WRITE_MEM of a page of a block: the bram with the seed added to each byte
Page(b, i, seed) == [op |-> "page", block |-> b, page |-> i, seed |-> seed]
Msi == [op |-> "msi"]
Reply(d) == [op |-> "reply", done |-> d]

WriteReg(r, v) == [op |-> "write", reg |-> r, val |-> v]
ReadSta == [op |-> "read"]

Addrs == Blocks \cup {Nowhere}

HostMsg == {ReadSta, WriteReg("ctl", TRUE)} \cup {WriteReg("adr", b) : b \in Blocks}
           \cup {WriteReg("baz", v) : v \in Seeds}
DevMsg == {Msi, Reply(TRUE), Reply(FALSE)}
          \cup [op : {"page"}, block : Addrs, page : Pages, seed : Seeds]

DevTypeOK ==
  /\ h2d \in Seq(HostMsg) /\ d2h \in Seq(DevMsg)
  /\ adr \in Addrs /\ baz \in Seeds /\ sta \in BOOLEAN
  /\ saved \in [adr : Addrs, baz : Seeds] /\ task \in BOOLEAN /\ dropped \in BOOLEAN

\* main initialises the bram, not the registers
DevInit ==
  /\ h2d = <<>> /\ d2h = <<>>
  /\ adr = Nowhere /\ baz \in Seeds /\ sta \in BOOLEAN
  /\ saved = [adr |-> Nowhere, baz |-> baz] /\ task = FALSE /\ dropped = FALSE

\* on_write.  A write to DMA_REG_CTL with bit 31 set captures the context and
\* puts finalize_transfer in the task slot, over a task that waits there
on_write ==
  /\ h2d # <<>> /\ Head(h2d).op = "write" /\ h2d' = Tail(h2d)
  /\ LET m == Head(h2d)
         start == m.reg = "ctl"
     IN  /\ adr' = IF m.reg = "adr" THEN m.val ELSE adr
         /\ baz' = IF m.reg = "baz" THEN m.val ELSE baz
         /\ saved' = IF start THEN [adr |-> adr, baz |-> baz] ELSE saved
         /\ sta' = (sta /\ ~start)
         /\ task' = (task \/ start) /\ dropped' = (dropped /\ ~start)
  /\ UNCHANGED d2h

\* on_read of DMA_REG_STA, and the reply
on_read ==
  /\ h2d # <<>> /\ Head(h2d) = ReadSta /\ h2d' = Tail(h2d)
  /\ d2h' = Append(d2h, Reply(sta))
  /\ UNCHANGED engVars

\* The rest of finalize_transfer, when its buffer cannot be allocated: neither
\* the status nor an MSI tells of it
GiveUp == dropped' = TRUE /\ UNCHANGED <<d2h, sta>>

\* Faulty variant: i <= n.
finalize_transfer_Long ==
  /\ task /\ task' = FALSE
  /\ \/ /\ d2h' = Append(d2h \o [i \in 1..(NPages + 1) |-> Page(saved.adr, i, saved.baz)], Msi)
        /\ sta' = TRUE /\ UNCHANGED dropped
     \/ GiveUp
  /\ UNCHANGED <<h2d, adr, baz, saved>>

\* Faulty variant: the status register is not set.
finalize_transfer_NoSta ==
  /\ task /\ task' = FALSE
  /\ \/ /\ d2h' = Append(d2h \o [i \in Pages |-> Page(saved.adr, i, saved.baz)], Msi)
        /\ UNCHANGED <<sta, dropped>>
     \/ GiveUp
  /\ UNCHANGED <<h2d, adr, baz, saved>>

\* finalize_transfer, when select times out: the slot is emptied first.  The
\* bram is sent whole, whatever the size in DMA_REG_CTL
finalize_transfer ==
  /\ task /\ task' = FALSE
  /\ \/ /\ d2h' = Append(d2h \o [i \in Pages |-> Page(saved.adr, i, saved.baz)], Msi)
        /\ sta' = TRUE /\ UNCHANGED dropped
     \/ GiveUp
  /\ UNCHANGED <<h2d, adr, baz, saved>>

DevNext == on_write \/ on_read \/ finalize_transfer
============================================================================
