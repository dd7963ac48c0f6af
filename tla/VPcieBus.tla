------------------------------ MODULE VPcieBus ------------------------------
(***************************************************************************)
(* VPcie implements PcieBus.  A message the device has emitted is on its   *)
(* way from the moment it is in tx_fifo, and an answer from the moment the *)
(* io thread has sent the reply.                                           *)
(***************************************************************************)
EXTENDS VPcie

\* Values that stand for different things are different
ASSUME BusAssumption ==
  /\ NULL \notin Loc \cup {"absent"}
  /\ NULL \notin Vals \cup {AllOnes}
  /\ "absent" \notin Regs

LocOf(m) == IF m.op = "READ_MEM" /\ m.bar >= PCIE_BAR_COUNT THEN "absent" ELSE m.addr

Reading == IF hreq = NULL THEN NULL ELSE LocOf(hreq)

AnswerIn(s) == IF ReplyAt(s) = {} THEN NULL ELSE s[CHOOSE i \in ReplyAt(s) : TRUE].data

Channel == IF conn = "up" THEN Posted(d2h) \o batch \o tx_fifo ELSE Posted(d2h)

Bus == INSTANCE PcieBus WITH
  Locs <- Loc, Data <- Vals, Zero <- 0, Absent <- "absent", Ones <- AllOnes,
  None <- NULL,
  up <- conn = "up",
  mem <- shadow,
  rd <- Reading,
  ans <- AnswerIn(d2h),
  chan <- Channel,
  got <- hmem

\* The session implements the abstract bus: whatever the two threads of the
\* endpoint process, QEMU, breaks of the connection and restarts do, the guest
\* and the device see registers and a reliable channel.
BusSpec == Bus!Spec
=============================================================================
