------------------------------- MODULE Pciefw -------------------------------
(***************************************************************************)
(* The pciefw device of QEMU: guest accesses to the device are forwarded   *)
(* to the endpoint process, and messages from it become DMA writes and     *)
(* MSIs.  All of it runs under QEMU's global lock, so the host is one      *)
(* sequential process: it is either between two handlers or inside one.    *)
(***************************************************************************)
EXTENDS PcieNet

CONSTANTS
  MaxOps     \* bound on the guest accesses of a behaviour

ASSUME MaxOpsAssumption == MaxOps \in Nat

VARIABLES
  hpc,       \* "init": before pciefw_pci_init; "idle": between two handlers or
             \* inside one that does not block; "wait": in pciefw_recv_reply;
             \* "exit": QEMU has ended
  hsock,     \* state->sock != -1
  hprobe,    \* configuration accesses pciefw_probe_device has left to do
  hcall,     \* the guest access being handled, or NULL
  hreq,      \* the read that pciefw_recv_reply waits for, or NULL
  hmem,      \* the messages process_msg carried out, in order
  shadow,    \* what the guest wrote last to each location (history)
  nops       \* guest accesses so far (bounded by MaxOps)

hostVars == <<hpc, hsock, hprobe, hcall, hreq, hmem, shadow, nops>>

\* For each BAR: write all ones, read the mask back, restore the address.
ProbeLen == 3
ProbeReq(k) ==
  [op |-> IF k = 2 THEN "READ_CONFIG" ELSE "WRITE_CONFIG",
   bar |-> CHOOSE b \in Bars : TRUE, addr |-> "conf", data |-> 0]

\* The accesses a guest can make
GuestCalls ==
  {m \in Request : /\ IsRead(m) => m.data = 0
                   /\ m.addr = "conf" => \A b \in Bars : m.bar <= b}

HostTypeOK ==
  /\ hpc \in {"init", "idle", "wait", "exit"} /\ hsock \in BOOLEAN
  /\ hprobe \in 0..ProbeLen
  /\ hcall \in Request \cup {NULL} /\ hreq \in Request \cup {NULL}
  /\ hmem \in Seq(Message) /\ shadow \in [Loc -> Vals] /\ nops \in 0..MaxOps

HostInit ==
  /\ hpc = "init" /\ hsock = FALSE /\ hprobe = 0
  /\ hcall = NULL
  /\ hreq = NULL
  /\ hmem = <<>>
  /\ shadow = [l \in Loc |-> 0]
  /\ nops = 0

----------------------------------------------------------------------------
(* Connecting and probing *)

\* pciefw_connect_probe_device is called: by pciefw_pci_init, or by an access
\* that finds the device unconnected
ConnectNow == hpc = "init" \/ (hpc = "idle" /\ ~hsock /\ hcall # NULL)

HostConnect ==
  /\ ConnectNow
  /\ OpenConn
  /\ hpc' = "idle"
  /\ hsock' = TRUE
  /\ hprobe' = ProbeLen
  /\ hmem' = <<>>
  /\ shadow' = [l \in Loc |-> 0]
  /\ UNCHANGED <<hcall, hreq, nops>>

\* connect is refused: the access returns all ones, or is dropped; an error in
\* pciefw_pci_init is not reported
HostConnectFail ==
  /\ ConnectNow
  /\ hpc' = "idle"
  /\ hcall' = NULL
  /\ UNCHANGED <<hsock, hprobe, hreq, hmem, shadow, nops, linkVars>>

\* What a location holds once a request that reached the link is served
Written(m) ==
  IF ~IsRead(m) /\ conn = "up" /\ (m.op = "WRITE_MEM" => m.bar < PCIE_BAR_COUNT)
  THEN [shadow EXCEPT ![m.addr] = m.data]
  ELSE shadow

\* pciefw_send_write_mem, pciefw_send_write_config, pciefw_send_read_common:
\* a write returns once it is sent, a read waits for its reply.  On a
\* connection the endpoint has left, a read may fail already in send.
Forward(m) ==
  /\ SendToDevice(m)
  /\ shadow' = Written(m)
  /\ IF IsRead(m)
     THEN \/ hreq' = m /\ hpc' = "wait"
          \/ conn # "up" /\ UNCHANGED <<hreq, hpc>>
     ELSE UNCHANGED <<hreq, hpc>>

\* Faulty variant: one access too many.
HostProbe_TooFar ==
  /\ hpc = "idle" /\ hsock
  /\ Forward(ProbeReq(hprobe))
  /\ hprobe' = hprobe - 1
  /\ UNCHANGED <<hsock, hcall, hmem, nops, d2h, conn>>

HostProbe ==
  /\ hpc = "idle" /\ hsock /\ hprobe > 0
  /\ Forward(ProbeReq(hprobe))
  /\ hprobe' = hprobe - 1
  /\ UNCHANGED <<hsock, hcall, hmem, nops, d2h, conn>>

----------------------------------------------------------------------------
(* Guest accesses *)

\* The guest executes an access to the device: pciefw_mmio_read,
\* pciefw_mmio_write, pciefw_read_config or pciefw_write_config is entered.
HostCall(m) ==
  /\ hpc = "idle" /\ hprobe = 0 /\ hcall = NULL
  /\ nops < MaxOps
  /\ hcall' = m
  /\ nops' = nops + 1
  /\ UNCHANGED <<hpc, hsock, hprobe, hreq, hmem, shadow, linkVars>>

\* ... and the device is connected, now if it was not before
HostIssue ==
  /\ hpc = "idle" /\ hsock /\ hprobe = 0 /\ hcall # NULL
  /\ Forward(hcall)
  /\ hcall' = NULL
  /\ UNCHANGED <<hsock, hprobe, hmem, nops, d2h, conn>>

----------------------------------------------------------------------------
(* Messages from the endpoint *)

\* Faulty variant: the comparison is strict.
IsReply_Strict(m) == m.size < ReplySize

\* The one test by which pciefw_recv_reply recognises a reply
IsReply(m) == m.size <= ReplySize

\* process_msg: pci_dma_write or msi_notify; any other opcode is dropped
ProcessMsg(m) ==
  hmem' = IF m.op \in {"WRITE_MEM", "MSI"} THEN Append(hmem, m) ELSE hmem

\* One turn of the loop of pciefw_recv_reply
RecvReply ==
  /\ hpc = "wait" /\ d2h # <<>>
  /\ d2h' = Tail(d2h)
  /\ IF IsReply(Head(d2h))
     THEN hpc' = "idle" /\ hreq' = NULL /\ UNCHANGED hmem
     ELSE ProcessMsg(Head(d2h)) /\ UNCHANGED <<hpc, hreq>>
  /\ UNCHANGED <<hsock, hprobe, hcall, shadow, nops, h2d, conn>>

\* Faulty variant: the read gives up on a connection that is up.
RecvReplyError_Timeout ==
  /\ hpc = "wait" /\ d2h = <<>>
  /\ hpc' = "idle" /\ hreq' = NULL
  /\ UNCHANGED <<hsock, hprobe, hcall, hmem, shadow, nops, linkVars>>

\* recv fails: the read returns all ones; sock stays open
RecvReplyError ==
  /\ hpc = "wait" /\ d2h = <<>> /\ conn = "eof_h"
  /\ hpc' = "idle" /\ hreq' = NULL
  /\ UNCHANGED <<hsock, hprobe, hcall, hmem, shadow, nops, linkVars>>

\* Between two handlers QEMU's main loop may run the descriptor's handler,
\* which is registered once the device is probed.
HandlerRuns == hpc = "idle" /\ hsock /\ hprobe = 0 /\ hcall = NULL

\* pciefw_on_read
OnRead ==
  /\ HandlerRuns /\ d2h # <<>>
  /\ d2h' = Tail(d2h)
  /\ ProcessMsg(Head(d2h))
  /\ UNCHANGED <<hpc, hsock, hprobe, hcall, hreq, shadow, nops, h2d, conn>>

\* pciefw_on_read, error or disconnection: the socket is closed, and the next
\* access connects again
OnReadError ==
  /\ HandlerRuns /\ d2h = <<>> /\ conn = "eof_h"
  /\ CloseHostEnd
  /\ hsock' = FALSE
  /\ UNCHANGED <<hpc, hprobe, hcall, hreq, hmem, shadow, nops>>

\* QEMU ends: pciefw_pci_exit between two handlers, or a signal anywhere
HostExit ==
  /\ hpc # "exit"
  /\ CloseHostEnd
  /\ hpc' = "exit"
  /\ hsock' = FALSE /\ hprobe' = 0
  /\ hcall' = NULL /\ hreq' = NULL
  /\ UNCHANGED <<hmem, shadow, nops>>

\* The host steps that are not shared with the endpoint process
HostNext ==
  \/ HostProbe
  \/ \E m \in GuestCalls : HostCall(m)
  \/ HostIssue
  \/ RecvReply
  \/ RecvReplyError
  \/ OnRead
  \/ OnReadError
  \/ HostExit
=============================================================================
