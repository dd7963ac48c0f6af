------------------------------ MODULE PcieNet ------------------------------
(***************************************************************************)
(* The link between the two processes of a vpcie session: QEMU, with the   *)
(* pciefw device in it, and the endpoint process that emulates the PCIe    *)
(* device.  pcie_net.{h,c} on the endpoint side and the "message passing   *)
(* routines" of the pciefw patch on QEMU's side exchange length-prefixed   *)
(* messages over one TCP connection.  A message is a record that keeps the *)
(* fields some handler looks at; addresses and payloads are members of     *)
(* small sets.                                                             *)
(***************************************************************************)
EXTENDS Naturals, Sequences

CONSTANTS
  Regs,      \* the registers of the device that a BAR access can address
  Vals,      \* what a register can hold; 0 is the value after reset
  Bars,      \* the BAR numbers QEMU uses in its requests
  AllOnes,   \* (uint64_t)-1, the answer to an access that cannot be served
  NULL,      \* no pointer, no call
  Payload    \* PCIE_PAYLOAD_WIDTH / 8, the bytes of a posted write's buffer

ASSUME RegsAssumption == "conf" \notin Regs /\ Regs # {}
ASSUME ValsAssumption == Vals \subseteq Nat /\ 0 \in Vals
ASSUME AllOnesAssumption == AllOnes \in Nat \ Vals
ASSUME BarsAssumption == Bars \subseteq Nat /\ Bars # {}
ASSUME PayloadAssumption == Payload \in Nat

VARIABLES
  h2d,       \* bytes in flight from QEMU to the endpoint: requests, in order
  d2h,       \* bytes in flight from the endpoint to QEMU, in order
  conn       \* the TCP connection, see Conn

linkVars == <<h2d, d2h, conn>>

\* "none": neither end holds it; "up"; "eof_h": the endpoint process closed
\* its end and QEMU still holds its own; "eof_d": the other way round.
Conn == {"none", "up", "eof_h", "eof_d"}

PCIE_BAR_COUNT == 6

----------------------------------------------------------------------------
(* Messages *)

\* "conf" stands for a configuration register, reached by the two
\* configuration operations; Regs are reached by the two memory operations.
Loc == Regs \cup {"conf"}

\* pcie_net_msg_t as QEMU sends it
Request ==
  [op : {"READ_CONFIG", "WRITE_CONFIG"}, bar : Bars, addr : {"conf"}, data : Vals]
    \cup [op : {"READ_MEM", "WRITE_MEM"}, bar : Bars, addr : Regs, data : Vals]

ASSUME NullAssumption == NULL \notin Request

IsRead(m) == m.op \in {"READ_CONFIG", "READ_MEM"}

\* offsetof(pcie_net_msg_t, data) and sizeof(pcie_net_reply_t), both packed
MsgOffset == 2 + 1 + 1 + 1 + 8 + 2
ReplySize == 2 + 1 + 8

\* pcie_net_send_msg and pcie_net_send_reply: header.size, written by the
\* sender, is all that tells the two formats apart on the wire.  n numbers the
\* messages that the device emits; user is the size the user logic asked for.
\* ("it works since sizeof(reply) < sizeof(msg)")
Message == [size : Nat \ 0..ReplySize, op : {"WRITE_MEM", "MSI"}, n : Nat,
            len : Nat, user : Nat, data : {0}]
Reply == [size : {ReplySize}, op : {"REPLY"}, n : {0}, len : {0}, user : {0},
          data : Vals \cup {AllOnes}]

NetMsg(op, n, len, user) ==
  [size |-> MsgOffset + len, op |-> op, n |-> n, len |-> len, user |-> user,
   data |-> 0]

NetReply(v) ==
  [size |-> ReplySize, op |-> "REPLY", n |-> 0, len |-> 0, user |-> 0,
   data |-> v]

LinkTypeOK ==
  h2d \in Seq(Request) /\ d2h \in Seq(Message \cup Reply) /\ conn \in Conn

----------------------------------------------------------------------------
(* The connection *)

\* open_tcp_socket's accept and QEMU's inet_connect_opts meet
OpenConn ==
  /\ conn' = "up"
  /\ h2d' = <<>>
  /\ d2h' = <<>>

\* One end closes.  What it had not read makes the kernel reset the
\* connection, and the reset may cost the other end what is in flight to it.
\* The end that is left reads the rest and then end-of-file.
CloseDeviceEnd ==
  /\ conn' = IF conn = "up" THEN "eof_h" ELSE IF conn = "eof_d" THEN "none" ELSE conn
  /\ h2d' = <<>>
  /\ d2h' \in {d2h} \cup (IF h2d = <<>> THEN {} ELSE {<<>>})

CloseHostEnd ==
  /\ conn' = IF conn = "up" THEN "eof_d" ELSE IF conn = "eof_h" THEN "none" ELSE conn
  /\ d2h' = <<>>
  /\ h2d' \in {h2d} \cup (IF d2h = <<>> THEN {} ELSE {<<>>})

\* A send goes through while the peer holds its end; otherwise the bytes are
\* lost, whether or not send reports it.
SendToDevice(m) == h2d' = IF conn = "up" THEN Append(h2d, m) ELSE h2d
SendToHost(m) == d2h' = IF conn = "up" THEN Append(d2h, m) ELSE d2h
=============================================================================
