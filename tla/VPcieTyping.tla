---------------------------- MODULE VPcieTyping ----------------------------
(***************************************************************************)
(* Type correctness of a vpcie session, for any registers, nodes, pipe     *)
(* capacity and number of accesses.                                        *)
(***************************************************************************)
EXTENDS VPcie, SequenceTheorems, TLAPS

----------------------------------------------------------------------------
(* Sequences *)

\* What taking the head of a fifo leaves.
LEMMA TailFacts ==
  ASSUME NEW S, NEW s \in Seq(S), s # <<>>
  PROVE  /\ Head(s) \in S /\ Tail(s) \in Seq(S)
         /\ Head(s) = s[1]
         /\ Len(s) \in Nat /\ Len(s) >= 1
         /\ Len(Tail(s)) = Len(s) - 1
         /\ \A i \in 1..Len(Tail(s)) : Tail(s)[i] = s[i + 1] /\ i + 1 \in 1..Len(s)
  BY HeadTailProperties, LenProperties, EmptySeq

\* What pushing a node at the tail of a fifo adds.
LEMMA AppendFacts ==
  ASSUME NEW S, NEW s \in Seq(S), NEW e \in S
  PROVE  /\ Append(s, e) \in Seq(S)
         /\ Len(s) \in Nat
         /\ Len(Append(s, e)) = Len(s) + 1
         /\ Append(s, e) # <<>>
         /\ \A i \in 1..Len(s) : Append(s, e)[i] = s[i]
         /\ Append(s, e)[Len(s) + 1] = e
  BY AppendProperties, LenProperties

----------------------------------------------------------------------------
(* Messages *)

\* The messages the device emits are longer than a reply.
LEMMA NetMsgType ==
  ASSUME NEW op \in {"WRITE_MEM", "MSI"}, NEW n \in Nat, NEW len \in Nat,
         NEW user \in Nat
  PROVE  NetMsg(op, n, len, user) \in Message
  BY DEF NetMsg, Message, MsgOffset, ReplySize

LEMMA NetReplyType ==
  ASSUME NEW v \in Vals \cup {AllOnes}
  PROVE  NetReply(v) \in Reply
  BY DEF NetReply, Reply, ReplySize

\* A probe access is a request, if QEMU uses some BAR.
LEMMA ProbeReqType ==
  ASSUME NEW k
  PROVE  ProbeReq(k) \in Request
<1>1. (CHOOSE b \in Bars : TRUE) \in Bars
  BY BarsAssumption
<1>2. 0 \in Vals
  BY ValsAssumption
<1> QED
  BY <1>1, <1>2 DEF ProbeReq, Request

LEMMA SplitMessage ==
  ASSUME NEW m \in Message \cup Reply, m.op # "REPLY"
  PROVE  m \in Message
  BY DEF Message, Reply

LEMMA OpOfReply ==
  \A m \in Message \cup Reply : (m.op \in {"WRITE_MEM", "MSI"}) => m \in Message
  BY DEF Message, Reply

----------------------------------------------------------------------------
(* The link *)

LEMMA OpenType == OpenConn => LinkTypeOK'
  BY EmptySeq DEF OpenConn, LinkTypeOK, Conn

LEMMA CloseType ==
  ASSUME LinkTypeOK, CloseDeviceEnd \/ CloseHostEnd
  PROVE  LinkTypeOK'
  BY EmptySeq DEF LinkTypeOK, CloseDeviceEnd, CloseHostEnd, Conn

----------------------------------------------------------------------------
(* The host *)

LEMMA ForwardType ==
  ASSUME TypeOK, NEW m \in Request, Forward(m)
  PROVE  /\ h2d' \in Seq(Request)
         /\ shadow' \in [Loc -> Vals]
         /\ hpc' \in {hpc, "wait"}
         /\ hreq' \in Request \cup {NULL}
<1>1. h2d' \in Seq(Request)
  BY AppendFacts DEF TypeOK, LinkTypeOK, Forward, SendToDevice
<1>2. shadow' \in [Loc -> Vals]
  BY DEF TypeOK, HostTypeOK, Forward, Written, Request, Loc
<1>3. hpc' \in {hpc, "wait"} /\ hreq' \in Request \cup {NULL}
  BY DEF TypeOK, HostTypeOK, Forward
<1> QED
  BY <1>1, <1>2, <1>3

LEMMA ProcessMsgType ==
  ASSUME TypeOK, NEW m \in Message \cup Reply, ProcessMsg(m)
  PROVE  hmem' \in Seq(Message)
  BY OpOfReply, AppendFacts DEF TypeOK, HostTypeOK, ProcessMsg

LEMMA HostTyping ==
  ASSUME TypeOK, HostNext
  PROVE  LinkTypeOK' /\ HostTypeOK'
<1> USE DEF TypeOK, LinkTypeOK, HostTypeOK
<1>1. CASE HostProbe
  BY <1>1, ForwardType, ProbeReqType DEF HostProbe, ProbeLen
<1>2. CASE \E m \in GuestCalls : HostCall(m)
  BY <1>2, MaxOpsAssumption DEF HostCall, GuestCalls, linkVars
<1>3. CASE HostIssue
  BY <1>3, ForwardType DEF HostIssue
<1>4. CASE RecvReply
  <2>1. Head(d2h) \in Message \cup Reply /\ d2h' \in Seq(Message \cup Reply)
    BY <1>4, TailFacts DEF RecvReply
  <2>2. hmem' \in Seq(Message)
    BY <1>4, <2>1, ProcessMsgType DEF RecvReply
  <2>3. hpc' \in {"init", "idle", "wait", "exit"} /\ hreq' \in Request \cup {NULL}
    BY <1>4 DEF RecvReply
  <2> QED
    BY <1>4, <2>1, <2>2, <2>3 DEF RecvReply
<1>5. CASE RecvReplyError
  BY <1>5 DEF RecvReplyError, linkVars
<1>6. CASE OnRead
  <2>1. Head(d2h) \in Message \cup Reply /\ d2h' \in Seq(Message \cup Reply)
    BY <1>6, TailFacts DEF OnRead
  <2>2. hmem' \in Seq(Message)
    BY <1>6, <2>1, ProcessMsgType DEF OnRead
  <2> QED
    BY <1>6, <2>1, <2>2 DEF OnRead
<1>7. CASE OnReadError
  BY <1>7, CloseType DEF OnReadError
<1>8. CASE HostExit
  <2>1. LinkTypeOK'
    BY <1>8, CloseType DEF HostExit
  <2>2. hprobe' \in 0..ProbeLen
    BY <1>8 DEF HostExit, ProbeLen
  <2> QED
    BY <1>8, <2>1, <2>2 DEF HostExit
<1> QED
  BY <1>1, <1>2, <1>3, <1>4, <1>5, <1>6, <1>7, <1>8 DEF HostNext
----------------------------------------------------------------------------
(* The io thread *)

LEMMA FreedType == Freed \in FNode
<1>1. AnyReg \in Regs
  BY RegsAssumption DEF AnyReg
<1> QED
  BY <1>1, ValsAssumption DEF Freed, FNode

LEMMA PushAccessType ==
  ASSUME TypeOK, NEW n \in Nodes, NEW m \in Request, PushAccess(n, m),
         m.op \in {"READ_MEM", "WRITE_MEM"}
  PROVE  rx_fifo' \in Seq(Nodes) /\ fnode' \in [Nodes -> FNode]
         /\ heap' \in SUBSET Nodes
<1>1. rx_fifo' \in Seq(Nodes)
  BY AppendFacts DEF TypeOK, SharedTypeOK, PushAccess
<1>2. [is_read |-> m.op = "READ_MEM", addr |-> m.addr, data |-> m.data,
       is_replied |-> FALSE] \in FNode
  BY DEF FNode, Request
<1> QED
  BY <1>1, <1>2 DEF TypeOK, SharedTypeOK, PushAccess

LEMMA IoKeyType ==
  ASSUME TypeOK, IoKey
  PROVE  /\ keys' \in Seq({"push", "quit"}) /\ batch' \in Seq(Message)
         /\ tx_fifo' \in Seq(Message) /\ must_stop' \in BOOLEAN
         /\ iopc' \in {"keys", "batch"}
<1>1. keys' \in Seq({"push", "quit"})
  BY TailFacts DEF TypeOK, IoTypeOK, IoKey
<1>2. batch' \in Seq(Message) /\ tx_fifo' \in Seq(Message)
  BY EmptySeq DEF TypeOK, IoTypeOK, SharedTypeOK, IoKey
<1> QED
  BY <1>1, <1>2 DEF TypeOK, IoTypeOK, IoKey

LEMMA IoBatchType ==
  ASSUME TypeOK, IoBatch
  PROVE  /\ batch' \in Seq(Message) /\ d2h' \in Seq(Message \cup Reply)
         /\ iopc' \in {"keys", "batch"}
<1>1. batch \in Seq(Message) /\ d2h \in Seq(Message \cup Reply)
  BY DEF TypeOK, IoTypeOK, LinkTypeOK
<1>2. CASE batch = <<>>
  BY <1>1, <1>2 DEF IoBatch
<1>3. CASE batch # <<>>
  <2>1. Head(batch) \in Message /\ Tail(batch) \in Seq(Message)
    BY <1>1, <1>3, TailFacts
  <2>2. Append(d2h, Head(batch)) \in Seq(Message \cup Reply)
    BY <1>1, <2>1, AppendFacts
  <2> QED
    BY <1>1, <1>3, <2>1, <2>2 DEF IoBatch, SendToHost
<1> QED
  BY <1>2, <1>3

\* What a step that leaves a group of variables alone leaves of their types.
LEMMA SameTypes ==
  /\ LinkTypeOK /\ UNCHANGED linkVars => LinkTypeOK'
  /\ SharedTypeOK /\ UNCHANGED sharedVars => SharedTypeOK'
  /\ SimTypeOK /\ UNCHANGED simVars => SimTypeOK'
  /\ IoTypeOK /\ UNCHANGED ioVars => IoTypeOK'
<1>1. LinkTypeOK /\ UNCHANGED linkVars => LinkTypeOK'
  BY DEF LinkTypeOK, linkVars
<1>2. SharedTypeOK /\ UNCHANGED sharedVars => SharedTypeOK'
  BY DEF SharedTypeOK, sharedVars
<1>3. SimTypeOK /\ UNCHANGED simVars => SimTypeOK'
  BY DEF SimTypeOK, simVars
<1>4. IoTypeOK /\ UNCHANGED ioVars => IoTypeOK'
  BY DEF IoTypeOK, ioVars
<1> QED
  BY <1>1, <1>2, <1>3, <1>4

\* The io thread moves on between two requests.
LEMMA IoMoves ==
  ASSUME IoTypeOK, iopc' \in {"select", "event", "fini", "shut"},
         UNCHANGED <<rfds, cur, keys, batch, conf>>,
         reply' \in Vals \cup {AllOnes}, must_stop' \in BOOLEAN,
         listening' \in BOOLEAN
  PROVE  IoTypeOK'
  BY DEF IoTypeOK

LEMMA IoReplyType ==
  ASSUME TypeOK, IoReply
  PROVE  LinkTypeOK' /\ SharedTypeOK' /\ IoTypeOK' /\ SimTypeOK'
<1>1. IoTypeOK'
  <2>1. /\ iopc' = "event" /\ reply' = 0 /\ must_stop' \in BOOLEAN
        /\ UNCHANGED <<rfds, cur, keys, batch, conf, listening>>
    BY DEF IoReply
  <2>2. IoTypeOK /\ listening \in BOOLEAN
    BY DEF TypeOK, IoTypeOK
  <2> QED
    BY <2>1, <2>2, IoMoves, ValsAssumption
<1>2. SharedTypeOK' /\ SimTypeOK'
  BY SameTypes DEF IoReply, TypeOK
<1>3. LinkTypeOK'
  <2>1. NetReply(reply) \in Message \cup Reply
    BY NetReplyType DEF TypeOK, IoTypeOK
  <2>2. d2h' = (IF conn = "up" THEN Append(d2h, NetReply(reply)) ELSE d2h)
        /\ UNCHANGED <<h2d, conn>>
    BY DEF IoReply, SendToHost
  <2>3. LinkTypeOK
    BY DEF TypeOK
  <2>4. Append(d2h, NetReply(reply)) \in Seq(Message \cup Reply)
    BY <2>1, <2>3, AppendFacts DEF LinkTypeOK
  <2> QED
    BY <2>2, <2>3, <2>4 DEF LinkTypeOK
<1> QED
  BY <1>1, <1>2, <1>3

\* The end of the loop, and the listening socket closed after it.
LEMMA IoEndType ==
  ASSUME TypeOK, IoEndLoop \/ IoFiniServer
  PROVE  LinkTypeOK' /\ SharedTypeOK' /\ IoTypeOK' /\ SimTypeOK'
<1>1. IoTypeOK /\ reply \in Vals \cup {AllOnes} /\ must_stop \in BOOLEAN
      /\ listening \in BOOLEAN
  BY DEF TypeOK, IoTypeOK
<1>2. /\ iopc' \in {"select", "fini", "shut"}
      /\ UNCHANGED <<rfds, cur, reply, keys, batch, conf>>
      /\ must_stop' \in {FALSE, must_stop} /\ listening' \in {FALSE, listening}
  BY DEF IoEndLoop, IoFiniServer
<1>3. IoTypeOK'
  BY <1>1, <1>2, IoMoves
<1>4. UNCHANGED <<sharedVars, simVars, linkVars>>
  BY DEF IoEndLoop, IoFiniServer
<1> QED
  BY <1>3, <1>4, SameTypes DEF TypeOK

\* The end of the spin: the data copied, the node freed.
LEMMA IoWaitType ==
  ASSUME TypeOK, IoWait
  PROVE  LinkTypeOK' /\ SharedTypeOK' /\ IoTypeOK' /\ SimTypeOK'
<1>1. fnode \in [Nodes -> FNode] /\ heap \subseteq Nodes /\ cur \in Nodes
  BY DEF IoWait, TypeOK, SharedTypeOK, IoTypeOK
<1>2. fnode[cur].data \in Vals
  BY <1>1 DEF FNode
<1>3. fnode' \in [Nodes -> FNode] /\ heap' \subseteq Nodes
  BY <1>1, FreedType DEF IoWait
<1>4. SharedTypeOK'
  BY <1>3 DEF IoWait, TypeOK, SharedTypeOK
<1>5. IoTypeOK'
  BY <1>2 DEF IoWait, TypeOK, IoTypeOK
<1>6. UNCHANGED <<simVars, linkVars>>
  BY DEF IoWait
<1> QED
  BY <1>4, <1>5, <1>6, SameTypes DEF TypeOK

LEMMA IoTyping ==
  ASSUME TypeOK, IoNext
  PROVE  LinkTypeOK' /\ SharedTypeOK' /\ IoTypeOK' /\ SimTypeOK'
<1> USE DEF TypeOK, LinkTypeOK, SharedTypeOK, IoTypeOK, SimTypeOK
<1>1. CASE IoStart
  BY <1>1 DEF IoStart, simVars, linkVars
<1>2. CASE IoEnter
  BY <1>2 DEF IoEnter, sharedVars, simVars, linkVars
<1>3. CASE IoSelect
  BY <1>3 DEF IoSelect, Readable, sharedVars, simVars, linkVars
<1>4. CASE IoRecvNothing
  BY <1>4 DEF IoRecvNothing, sharedVars, simVars, linkVars
<1>5. CASE IoRecvRead
  BY <1>5, TailFacts DEF IoRecvRead, RecvRequest, simVars
<1>6. CASE IoRecvBarRead
  BY <1>6, TailFacts, PushAccessType DEF IoRecvBarRead, RecvRequest, simVars
<1>7. CASE IoRecvWrite
  BY <1>7, TailFacts DEF IoRecvWrite, RecvRequest, simVars, Request
<1>8. CASE IoRecvBarWrite
  BY <1>8, TailFacts, PushAccessType DEF IoRecvBarWrite, RecvRequest, simVars
<1>9. CASE IoWait
  BY <1>9, IoWaitType
<1>10. CASE IoReply
  BY <1>10, IoReplyType
<1>11. CASE IoEvent
  <2>1. keys' \in Seq({"push", "quit"}) /\ pipe' \in Seq({"push", "quit"})
    <3>1. pipe \in Seq({"push", "quit"})
      OBVIOUS
    <3>2. Len(pipe) \in Nat /\ \A i \in 1..Len(pipe) : pipe[i] \in {"push", "quit"}
      BY <3>1, LenProperties, ElementOfSeq
    <3> DEFINE n == IF "ev" \notin rfds THEN 0
                    ELSE IF Len(pipe) < EvBuf THEN Len(pipe) ELSE EvBuf
    <3>3. n \in 0..Len(pipe) /\ n \in Int /\ n + 1 \in Int /\ Len(pipe) \in Int
      BY <3>2, EvBufAssumption
    <3>4. keys' = SubSeq(pipe, 1, n) /\ pipe' = SubSeq(pipe, n + 1, Len(pipe))
      BY <1>11 DEF IoEvent
    <3> HIDE DEF n
    <3>5. /\ \A i \in 1..n : pipe[i] \in {"push", "quit"}
          /\ \A i \in (n + 1)..Len(pipe) : pipe[i] \in {"push", "quit"}
      BY <3>2, <3>3
    <3> QED
      BY <3>3, <3>4, <3>5, SubSeqProperties
  <2>2. /\ rfds' = {} /\ iopc' = "keys"
        /\ UNCHANGED <<rx_fifo, tx_fifo, reply_node, fnode, heap, state, cur, reply,
                      batch, must_stop, conf, listening, simVars, linkVars>>
    BY <1>11 DEF IoEvent
  <2>3. SimTypeOK' /\ LinkTypeOK'
    BY <2>2, SameTypes
  <2> QED
    BY <2>1, <2>2, <2>3
<1>12. CASE IoKey
  <2>1. UNCHANGED <<rx_fifo, pipe, reply_node, fnode, heap, state, rfds, cur,
                   reply, conf, listening, simVars, linkVars>>
    BY <1>12 DEF IoKey
  <2> QED
    BY <1>12, <2>1, IoKeyType DEF simVars, linkVars
<1>13. CASE IoBatch
  <2>1. UNCHANGED <<sharedVars, rfds, cur, reply, keys, must_stop, conf, listening,
                   simVars, h2d, conn>>
    BY <1>13 DEF IoBatch
  <2> QED
    BY <1>13, <2>1, IoBatchType DEF sharedVars, simVars
<1>14. CASE IoEndLoop
  BY <1>14, IoEndType
<1>15. CASE IoFiniServer
  BY <1>15, IoEndType
<1>16. CASE IoFini
  BY <1>16, CloseType, FreedType, EmptySeq DEF IoFini, simVars
<1> QED
  BY <1>1, <1>2, <1>3, <1>4, <1>5, <1>6, <1>7, <1>8, <1>9, <1>10, <1>11,
     <1>12, <1>13, <1>14, <1>15, <1>16 DEF IoNext
----------------------------------------------------------------------------
(* The simulation thread *)

LEMMA NoReqType == NoReq \in ReqOut
<1>1. AnyReg \in Regs
  BY RegsAssumption DEF AnyReg
<1> QED
  BY <1>1, ValsAssumption DEF NoReq, ReqOut

LEMMA NoInputType == NoInput \in Inputs
  BY ValsAssumption, PayloadAssumption DEF NoInput, Inputs

\* What the process holds after it ended, or was killed, has its type.
LEMMA MemResetType ==
  ASSUME MemReset, iopc' # "wait",
         iopc' \in {"accept", "done", "dead"}, listening' \in BOOLEAN
  PROVE  SharedTypeOK' /\ IoTypeOK'
         /\ gin' \in Inputs /\ gnode' \in Nodes \cup {NULL}
         /\ req' \in ReqOut /\ wait_ack' \in BOOLEAN
<1>1. SharedTypeOK'
  BY FreedType, EmptySeq DEF MemReset, SharedTypeOK
<1>2. IoTypeOK'
  BY EmptySeq, ValsAssumption DEF MemReset, IoTypeOK
<1> QED
  BY <1>1, <1>2, NoReqType, NoInputType DEF MemReset

LEMMA PushTxType ==
  ASSUME TypeOK, NEW op \in {"WRITE_MEM", "MSI"}, NEW len \in Nat,
         NEW user \in Nat, PushTx(op, len, user)
  PROVE  tx_fifo' \in Seq(Message) /\ emitted' \in Seq(Message) /\ gpc' = "ev"
<1> DEFINE m == NetMsg(op, Len(emitted) + 1, len, user)
<1>1. m \in Message
  BY NetMsgType, LenProperties DEF TypeOK, SimTypeOK
<1> HIDE DEF m
<1>2. tx_fifo' = Append(tx_fifo, m) /\ emitted' = Append(emitted, m) /\ gpc' = "ev"
  BY DEF PushTx, m
<1> QED
  BY <1>1, <1>2, AppendFacts DEF TypeOK, SharedTypeOK, SimTypeOK

LEMMA SimTyping ==
  ASSUME TypeOK, SimNext
  PROVE  LinkTypeOK' /\ SharedTypeOK' /\ IoTypeOK' /\ SimTypeOK'
<1> USE DEF TypeOK, LinkTypeOK, SharedTypeOK, IoTypeOK, SimTypeOK
<1>1. CASE GhdlMain
  BY <1>1 DEF GhdlMain, sharedVars, ioVars, linkVars
<1>2. CASE EdgeMsi
  <2>1. tx_fifo' \in Seq(Message) /\ emitted' \in Seq(Message) /\ gpc' = "ev"
    BY <1>2, PushTxType DEF EdgeMsi
  <2>2. gin' \in Inputs
    BY <1>2 DEF EdgeMsi, Inputs
  <2> QED
    BY <1>2, <2>1, <2>2 DEF EdgeMsi, simRest, ioVars, linkVars
<1>3. CASE EdgeMwr
  <2>1. gin.size \in Nat
    BY PayloadAssumption DEF Inputs
  <2>2. tx_fifo' \in Seq(Message) /\ emitted' \in Seq(Message) /\ gpc' = "ev"
    BY <1>3, <2>1, PushTxType, PayloadAssumption DEF EdgeMwr
  <2>3. gin' \in Inputs
    BY <1>3 DEF EdgeMwr, Inputs
  <2> QED
    BY <1>3, <2>2, <2>3 DEF EdgeMwr, simRest, ioVars, linkVars
<1>4. CASE WriteEvent
  BY <1>4, AppendFacts DEF WriteEvent, simRest, ioVars, linkVars
<1>5. CASE EdgeReply
  <2>1. gin' \in Inputs /\ gin.data \in Vals
    BY <1>5 DEF EdgeReply, Inputs
  <2>2. fnode' \in [Nodes -> FNode]
    <3>1. \/ fnode' = fnode
          \/ fnode' = [fnode EXCEPT ![reply_node].data = gin.data] /\ reply_node \in Nodes
      BY <1>5 DEF EdgeReply
    <3>2. fnode \in [Nodes -> FNode]
      OBVIOUS
    <3> QED
      BY ONLY <3>1, <3>2, <2>1 DEF FNode
  <2> QED
    BY <1>5, <2>1, <2>2 DEF EdgeReply, ioVars, linkVars
<1>6. CASE ReplyDone
  <2>1. fnode' \in [Nodes -> FNode]
    BY <1>6 DEF ReplyDone, FNode
  <2> QED
    BY <1>6, <2>1 DEF ReplyDone, ioVars, linkVars
<1>7. CASE PollRxFifo
  <2>1. CASE rx_fifo = <<>>
    <3>1. /\ req' = NoReq /\ wait_ack' = FALSE /\ gin' = NoInput /\ gpc' = "clk"
          /\ UNCHANGED <<rx_fifo, heap, fnode, reply_node, tx_fifo, pipe, state,
                        gnode, emitted, ioVars, linkVars>>
      BY <1>7, <2>1 DEF PollRxFifo
    <3>2. LinkTypeOK' /\ IoTypeOK'
      BY <3>1, SameTypes
    <3>3. SharedTypeOK'
      BY <3>1
    <3> QED
      BY <3>1, <3>2, <3>3, NoReqType, NoInputType
  <2>2. CASE rx_fifo # <<>>
    <3>1. Head(rx_fifo) \in Nodes /\ rx_fifo' \in Seq(Nodes)
      <4>1. rx_fifo' = Tail(rx_fifo) /\ rx_fifo \in Seq(Nodes)
        BY <1>7, <2>2 DEF PollRxFifo
      <4> QED
        BY ONLY <2>2, <4>1, TailFacts
    <3>2. req' \in ReqOut
      <4>1. fnode[Head(rx_fifo)] \in FNode
        BY <3>1
      <4>2. [en |-> TRUE, wr |-> ~fnode[Head(rx_fifo)].is_read,
             addr |-> fnode[Head(rx_fifo)].addr,
             data |-> fnode[Head(rx_fifo)].data] \in ReqOut
        BY <4>1 DEF FNode, ReqOut
      <4> QED
        BY <1>7, <2>2, <4>2, NoReqType DEF PollRxFifo
    <3>3. fnode' \in [Nodes -> FNode] /\ heap' \in SUBSET Nodes
      <4>1. \/ UNCHANGED <<heap, fnode>>
            \/ /\ heap' = heap \ {Head(rx_fifo)}
               /\ fnode' = [fnode EXCEPT ![Head(rx_fifo)] = Freed]
        BY <1>7, <2>2 DEF PollRxFifo
      <4> QED
        BY <4>1, FreedType
    <3>4. reply_node' \in Nodes \cup {NULL} /\ wait_ack' \in BOOLEAN
      BY <1>7, <2>2, <3>1 DEF PollRxFifo, FNode
    <3> QED
      BY <1>7, <2>2, <3>1, <3>2, <3>3, <3>4, NoInputType
         DEF PollRxFifo, ioVars, linkVars
  <2> QED
    BY <2>1, <2>2
<1>8. CASE GhdlEnd
  BY <1>8 DEF GhdlEnd, ioVars, linkVars
<1>9. CASE WriteQuit
  BY <1>9, AppendFacts DEF WriteQuit, simRest, ioVars, linkVars
<1>10. CASE Join
  BY <1>10, MemResetType DEF Join, linkVars
<1> QED
  BY <1>1, <1>2, <1>3, <1>4, <1>5, <1>6, <1>7, <1>8, <1>9, <1>10 DEF SimNext
----------------------------------------------------------------------------
(* The user logic, and the steps both processes take part in *)

LEMMA EdgeType ==
  ASSUME TypeOK, NEW msi \in BOOLEAN, NEW mwr \in BOOLEAN, NEW rep \in BOOLEAN,
         NEW size \in Sizes \cup {0}, Edge(msi, mwr, size, rep),
         UNCHANGED <<hostVars, lives>>
  PROVE  TypeOK'
<1> DEFINE pending == IF rep THEN Tail(dread) ELSE dread
           data == IF rep THEN Head(dread) ELSE 0
<1>1. pending \in Seq(Vals) /\ data \in Vals
  BY TailFacts, ValsAssumption DEF TypeOK, Edge
<1>2. req.addr \in Regs /\ req.data \in Vals /\ req.en \in BOOLEAN /\ req.wr \in BOOLEAN
  BY DEF TypeOK, SimTypeOK, ReqOut
<1>3. ClockEdge([msi |-> msi, mwr |-> mwr, size |-> size, rep |-> rep,
                 data |-> data, ack |-> TRUE])
      /\ SampleRequest(pending)
  BY DEF Edge
<1> HIDE DEF pending, data
<1>4. regs' \in [Regs -> Vals]
  BY <1>2, <1>3 DEF SampleRequest, TypeOK
<1>5. dread' \in Seq(Vals)
  <2>1. regs[req.addr] \in Vals
    BY <1>2 DEF TypeOK
  <2> QED
    BY <1>1, <1>3, <2>1, AppendFacts DEF SampleRequest
<1>6. gin' \in Inputs /\ gpc' = "edge"
  BY <1>1, <1>3, SizesAssumption, PayloadAssumption DEF ClockEdge, Inputs
<1>7. UNCHANGED <<sharedVars, ioVars, gnode, req, wait_ack, emitted, linkVars>>
  BY <1>3 DEF ClockEdge
<1>8. LinkTypeOK' /\ SharedTypeOK'
  BY <1>7 DEF TypeOK, LinkTypeOK, SharedTypeOK, linkVars, sharedVars
<1>9. IoTypeOK' /\ SimTypeOK'
  BY <1>6, <1>7 DEF TypeOK, IoTypeOK, SimTypeOK, ioVars
<1>10. HostTypeOK' /\ lives' \in Nat
  BY DEF TypeOK, HostTypeOK, hostVars
<1> QED
  BY <1>4, <1>5, <1>8, <1>9, <1>10 DEF TypeOK

LEMMA ConnectType ==
  ASSUME TypeOK, Connect
  PROVE  TypeOK'
<1>1. LinkTypeOK'
  BY OpenType DEF Connect, HostConnect
<1>2. HostTypeOK'
  BY EmptySeq, ValsAssumption DEF TypeOK, HostTypeOK, Connect, HostConnect, ProbeLen
<1>3. SharedTypeOK'
  BY DEF TypeOK, SharedTypeOK, Connect, IoAccept, sharedVars
<1>4. IoTypeOK' /\ SimTypeOK'
  BY EmptySeq DEF TypeOK, IoTypeOK, SimTypeOK, Connect, IoAccept
<1> QED
  BY <1>1, <1>2, <1>3, <1>4 DEF TypeOK, Connect, devVars

LEMMA KillType ==
  ASSUME TypeOK, Kill
  PROVE  TypeOK'
<1>1. LinkTypeOK'
  BY CloseType DEF TypeOK, Kill
<1>2. HostTypeOK' /\ lives' \in Nat
  BY DEF TypeOK, HostTypeOK, Kill, hostVars
<1>3. SharedTypeOK' /\ IoTypeOK' /\ SimTypeOK'
  BY MemResetType DEF TypeOK, SimTypeOK, Kill
<1>4. regs' \in [Regs -> Vals] /\ dread' \in Seq(Vals)
  BY EmptySeq, ValsAssumption DEF Kill, DevReset
<1> QED
  BY <1>1, <1>2, <1>3, <1>4 DEF TypeOK

LEMMA RestartType ==
  ASSUME TypeOK, Restart
  PROVE  TypeOK'
<1>1. LinkTypeOK' /\ HostTypeOK'
  BY DEF TypeOK, LinkTypeOK, HostTypeOK, Restart, linkVars, hostVars
<1>2. SharedTypeOK' /\ IoTypeOK' /\ SimTypeOK'
  BY DEF TypeOK, SharedTypeOK, IoTypeOK, SimTypeOK, Restart
<1>3. regs' \in [Regs -> Vals] /\ dread' \in Seq(Vals) /\ lives' \in Nat
  BY EmptySeq, ValsAssumption DEF TypeOK, Restart, DevReset
<1> QED
  BY <1>1, <1>2, <1>3 DEF TypeOK

----------------------------------------------------------------------------
(* Type correctness *)

LEMMA InitType == Init => TypeOK
<1> SUFFICES ASSUME Init PROVE TypeOK
  OBVIOUS
<1>1. LinkTypeOK
  BY EmptySeq DEF Init, LinkTypeOK, Conn
<1>2. HostTypeOK
  <2>1. hprobe \in 0..ProbeLen /\ nops \in 0..MaxOps
    BY MaxOpsAssumption DEF Init, HostInit, ProbeLen
  <2>2. hsock \in BOOLEAN /\ shadow \in [Loc -> Vals]
    BY ValsAssumption DEF Init, HostInit
  <2> QED
    BY <2>1, <2>2, EmptySeq DEF Init, HostInit, HostTypeOK
<1>3. SharedTypeOK
  BY EmptySeq, FreedType DEF Init, GlueInit, MemInit, SharedTypeOK
<1>4. IoTypeOK
  BY EmptySeq, ValsAssumption DEF Init, GlueInit, MemInit, IoTypeOK
<1>5. SimTypeOK
  BY EmptySeq, NoReqType, NoInputType DEF Init, GlueInit, MemInit, SimTypeOK
<1>6. regs \in [Regs -> Vals] /\ dread \in Seq(Vals) /\ lives \in Nat
  BY EmptySeq, ValsAssumption DEF Init, DevInit
<1> QED
  BY <1>1, <1>2, <1>3, <1>4, <1>5, <1>6 DEF TypeOK

LEMMA NextType ==
  ASSUME TypeOK, [Next]_vars
  PROVE  TypeOK'
<1>1. CASE HostNext /\ UNCHANGED <<glueVars, devVars, lives>>
  <2>1. SharedTypeOK' /\ IoTypeOK' /\ SimTypeOK'
    BY <1>1 DEF TypeOK, SharedTypeOK, IoTypeOK, SimTypeOK, glueVars, sharedVars,
                ioVars, simVars
  <2> QED
    BY <1>1, <2>1, HostTyping DEF TypeOK, devVars
<1>2. CASE IoNext /\ UNCHANGED <<hostVars, devVars, lives>>
  <2>1. HostTypeOK'
    BY <1>2 DEF TypeOK, HostTypeOK, hostVars
  <2> QED
    BY <1>2, <2>1, IoTyping DEF TypeOK, devVars
<1>3. CASE SimNext /\ UNCHANGED <<hostVars, devVars, lives>>
  <2>1. HostTypeOK'
    BY <1>3 DEF TypeOK, HostTypeOK, hostVars
  <2> QED
    BY <1>3, <2>1, SimTyping DEF TypeOK, devVars
<1>4. CASE UserLogic
  BY <1>4, EdgeType DEF UserLogic, EdgeQuiet, EdgeAnswer, EdgeEmit
<1>5. CASE Connect
  BY <1>5, ConnectType
<1>6. CASE ConnectRefused
  <2>1. HostTypeOK' /\ LinkTypeOK'
    BY <1>6 DEF TypeOK, HostTypeOK, LinkTypeOK, linkVars, ConnectRefused, HostConnectFail
  <2>2. SharedTypeOK' /\ IoTypeOK' /\ SimTypeOK'
    BY <1>6 DEF TypeOK, SharedTypeOK, IoTypeOK, SimTypeOK, ConnectRefused, glueVars,
                sharedVars, ioVars, simVars
  <2> QED
    BY <1>6, <2>1, <2>2 DEF TypeOK, ConnectRefused, devVars
<1>7. CASE Kill
  BY <1>7, KillType
<1>8. CASE Restart
  BY <1>8, RestartType
<1>9. CASE UNCHANGED vars
  BY <1>9 DEF TypeOK, LinkTypeOK, HostTypeOK, SharedTypeOK, IoTypeOK, SimTypeOK, vars,
              linkVars, hostVars, glueVars, sharedVars, ioVars, simVars, devVars
<1> QED
  BY <1>1, <1>2, <1>3, <1>4, <1>5, <1>6, <1>7, <1>8, <1>9 DEF Next

\* Every variable keeps its type, for any number of registers, nodes, accesses
\* and restarts and any pipe: in particular a probe never counts below zero, a
\* node on_bar_read spins on is a node, and what crosses the socket is a
\* request, a message longer than a reply, or a reply.
THEOREM TypeCorrect == Spec => []TypeOK
<1>1. TypeOK /\ [Next]_vars => TypeOK'
  BY NextType
<1> QED
  BY InitType, <1>1, PTL DEF Spec
=============================================================================
