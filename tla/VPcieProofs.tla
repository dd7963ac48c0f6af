---------------------------- MODULE VPcieProofs ----------------------------
(***************************************************************************)
(* The read protocol of a vpcie session is safe for any registers, nodes,  *)
(* pipe, number of accesses and number of restarts.  The argument is that  *)
(* a read is a token: TokenInv follows it over the two sockets and the io  *)
(* thread, NodeInv follows its node through rx_fifo, reply_node and        *)
(* pcie_glue_send_reply, and LogicInv follows it in the user logic.        *)
(***************************************************************************)
EXTENDS VPcieTyping

----------------------------------------------------------------------------
(* A reply is what IsReply says *)

LEMMA ReplyBySize ==
  ASSUME NEW m \in Message \cup Reply
  PROVE  IsReply(m) <=> m.op = "REPLY"
  BY DEF IsReply, Message, Reply, ReplySize

LEMMA MessageOp ==
  ASSUME NEW m \in Message
  PROVE  m.op # "REPLY"
  BY DEF Message

----------------------------------------------------------------------------
(* Steps that leave the variables of a part alone *)

LEMMA TokenFrame ==
  ASSUME TokenInv, NoStrayReply, UNCHANGED <<h2d, d2h, hpc, iopc, conn>>
  PROVE  TokenInv' /\ NoStrayReply'
  BY DEF TokenInv, NoStrayReply, NoReplyIn

LEMMA NodeFrame ==
  ASSUME NodeInv,
         UNCHANGED <<iopc, cur, heap, rx_fifo, fnode, reply_node, gpc, gnode>>
  PROVE  NodeInv'
  BY DEF NodeInv

LEMMA LogicFrame ==
  ASSUME LogicInv, UNCHANGED <<gpc, req, reply_node, dread, gin>>
  PROVE  LogicInv'
  BY DEF LogicInv

----------------------------------------------------------------------------
(* The host *)

LEMMA ForwardToken ==
  ASSUME TypeOK, TokenInv, NoStrayReply, hpc = "idle", NEW m \in Request,
         Forward(m), UNCHANGED <<d2h, conn, iopc>>
  PROVE  TokenInv' /\ NoStrayReply'
<1>1. h2d \in Seq(Request) /\ Len(h2d) \in Nat
  BY LenProperties DEF TypeOK, LinkTypeOK
<1>2. /\ \A i \in 1..Len(h2d) : ~IsRead(h2d[i])
      /\ iopc \notin {"wait", "reply"}
      /\ NoReplyIn(d2h)
  BY DEF TokenInv, NoStrayReply, NoReplyIn
<1>3. CASE conn = "up"
  <2>1. h2d' = Append(h2d, m) /\ hpc' \in {"idle", "wait"} /\ (IsRead(m) => hpc' = "wait")
    BY <1>3 DEF Forward, SendToDevice
  <2>2. /\ Len(h2d') = Len(h2d) + 1 /\ h2d'[Len(h2d) + 1] = m
        /\ \A i \in 1..Len(h2d) : h2d'[i] = h2d[i]
    BY <1>1, <2>1, AppendFacts
  <2>3. \A i \in 1..Len(h2d') : IsRead(h2d'[i]) => i = Len(h2d') /\ hpc' = "wait"
    BY <1>1, <1>2, <2>1, <2>2
  <2> QED
    BY <1>2, <1>3, <2>1, <2>3 DEF TokenInv, NoStrayReply, NoReplyIn
<1>4. CASE conn # "up"
  <2>1. h2d' = h2d /\ hpc' \in {"idle", "wait"}
    BY <1>4 DEF Forward, SendToDevice
  <2> QED
    BY <1>2, <1>4, <2>1 DEF TokenInv, NoStrayReply, NoReplyIn
<1> QED
  BY <1>3, <1>4

LEMMA HostToken ==
  ASSUME TypeOK, TokenInv, NoStrayReply, HostNext, UNCHANGED iopc
  PROVE  TokenInv' /\ NoStrayReply'
<1>1. CASE HostProbe
  BY <1>1, ForwardToken, ProbeReqType DEF HostProbe
<1>2. CASE \E m \in GuestCalls : HostCall(m)
  BY <1>2, TokenFrame DEF HostCall, linkVars
<1>3. CASE HostIssue
  BY <1>3, ForwardToken DEF HostIssue, TypeOK, HostTypeOK
<1>4. CASE RecvReply
  <2>1. /\ d2h \in Seq(Message \cup Reply) /\ d2h # <<>> /\ d2h' = Tail(d2h)
        /\ hpc = "wait" /\ UNCHANGED <<h2d, conn>>
    BY <1>4 DEF RecvReply, TypeOK, LinkTypeOK
  <2>2. /\ Head(d2h) \in Message \cup Reply /\ Head(d2h) = d2h[1]
        /\ Len(d2h) \in Nat /\ Len(d2h) >= 1 /\ Len(d2h') = Len(d2h) - 1
        /\ \A i \in 1..Len(d2h') : d2h'[i] = d2h[i + 1] /\ i + 1 \in 1..Len(d2h)
    BY <2>1, TailFacts
  <2>3. CASE IsReply(Head(d2h))
    <3>1. d2h[1].op = "REPLY" /\ hpc' = "idle"
      BY <1>4, <2>2, <2>3, ReplyBySize DEF RecvReply
    <3>2. \A i \in 1..Len(d2h') : d2h'[i].op # "REPLY"
      BY <2>1, <2>2, <3>1 DEF NoStrayReply
    <3>3. ~NoReplyIn(d2h)
      BY <2>2, <3>1 DEF NoReplyIn
    <3> QED
      BY <2>1, <3>1, <3>2, <3>3 DEF TokenInv, NoStrayReply, NoReplyIn
  <2>4. CASE ~IsReply(Head(d2h))
    <3>1. d2h[1].op # "REPLY" /\ hpc' = "wait"
      BY <1>4, <2>2, <2>4, ReplyBySize DEF RecvReply
    <3>2. NoStrayReply'
      BY <2>1, <2>2, <3>1 DEF NoStrayReply
    <3>3. NoReplyIn(d2h) => NoReplyIn(d2h)'
      BY <2>2 DEF NoReplyIn
    <3> QED
      BY <2>1, <3>1, <3>2, <3>3 DEF TokenInv
  <2> QED
    BY <2>3, <2>4
<1>5. CASE RecvReplyError
  BY <1>5 DEF RecvReplyError, linkVars, TokenInv, NoStrayReply, NoReplyIn
<1>6. CASE OnRead
  <2>1. /\ d2h \in Seq(Message \cup Reply) /\ d2h # <<>> /\ d2h' = Tail(d2h)
        /\ hpc = "idle" /\ UNCHANGED <<hpc, h2d, conn>>
    BY <1>6 DEF OnRead, HandlerRuns, TypeOK, LinkTypeOK
  <2>2. \A i \in 1..Len(d2h') : d2h'[i] = d2h[i + 1] /\ i + 1 \in 1..Len(d2h)
    BY <2>1, TailFacts
  <2> QED
    BY <2>1, <2>2 DEF TokenInv, NoStrayReply, NoReplyIn
<1>7. CASE OnReadError
  BY <1>7, EmptySeq DEF OnReadError, HandlerRuns, CloseHostEnd, TokenInv, NoStrayReply, NoReplyIn
<1>8. CASE HostExit
  <2>1. /\ d2h' = <<>> /\ hpc' = "exit" /\ h2d' \in {h2d, <<>>} /\ hpc # "exit"
        /\ conn' = IF conn = "up" THEN "eof_d" ELSE IF conn = "eof_h" THEN "none" ELSE conn
    BY <1>8 DEF HostExit, CloseHostEnd
  <2>2. NoReplyIn(d2h)' /\ NoStrayReply'
    BY <2>1, EmptySeq DEF NoReplyIn, NoStrayReply
  <2>3. conn' \in {"eof_d", "none"}
    BY <2>1 DEF TokenInv, TypeOK, LinkTypeOK, Conn
  <2>4. \A i \in 1..Len(h2d') : IsRead(h2d'[i]) =>
          i = Len(h2d') /\ iopc' \notin {"wait", "reply"}
    BY <2>1, EmptySeq DEF TokenInv
  <2> QED
    BY <2>1, <2>2, <2>3, <2>4 DEF TokenInv
<1> QED
  BY <1>1, <1>2, <1>3, <1>4, <1>5, <1>6, <1>7, <1>8 DEF HostNext
----------------------------------------------------------------------------
(* The io thread: where the token is *)

LEMMA TailRequests ==
  ASSUME TypeOK, NEW m, RecvRequest(m)
  PROVE  /\ m \in Request /\ m = h2d[1] /\ Len(h2d) \in Nat /\ Len(h2d) >= 1
         /\ h2d # <<>> /\ UNCHANGED <<d2h, conn>>
         /\ Len(h2d') = Len(h2d) - 1
         /\ \A i \in 1..Len(h2d') : h2d'[i] = h2d[i + 1] /\ i + 1 \in 1..Len(h2d)
<1>1. /\ h2d \in Seq(Request) /\ h2d # <<>> /\ m = Head(h2d) /\ h2d' = Tail(h2d)
      /\ UNCHANGED <<d2h, conn>>
  BY DEF TypeOK, LinkTypeOK, RecvRequest
<1>2. /\ Head(h2d) \in Request /\ Head(h2d) = h2d[1]
      /\ Len(h2d) \in Nat /\ Len(h2d) >= 1 /\ Len(Tail(h2d)) = Len(h2d) - 1
      /\ \A i \in 1..Len(Tail(h2d)) : Tail(h2d)[i] = h2d[i + 1] /\ i + 1 \in 1..Len(h2d)
  BY ONLY <1>1, TailFacts
<1> QED
  BY <1>1, <1>2

\* A read leaves the request stream and enters the io thread.
LEMMA RecvReadToken ==
  ASSUME TypeOK, TokenInv, NoStrayReply, NEW m, RecvRequest(m), IsRead(m),
         iopc = "recv", iopc' \in {"wait", "reply"}, UNCHANGED hpc
  PROVE  TokenInv' /\ NoStrayReply'
<1>a. /\ m = h2d[1] /\ Len(h2d) \in Nat /\ Len(h2d) >= 1 /\ h2d # <<>>
      /\ Len(h2d') = Len(h2d) - 1
  BY TailRequests
<1>b. 1 \in 1..Len(h2d) /\ IsRead(h2d[1])
  BY ONLY <1>a, IsRead(m)
<1>c. \A i \in 1..Len(h2d) : IsRead(h2d[i]) =>
        i = Len(h2d) /\ hpc \in {"wait", "exit"} /\ NoReplyIn(d2h)
  BY ONLY TokenInv DEF TokenInv
<1>d. conn # "eof_h"
  BY ONLY TokenInv, <1>a DEF TokenInv
<1>1. /\ 1 = Len(h2d) /\ hpc \in {"wait", "exit"} /\ NoReplyIn(d2h) /\ conn # "eof_h"
  BY ONLY <1>b, <1>c, <1>d
<1>2. Len(h2d') = Len(h2d) - 1
  BY <1>a
<1>3. Len(h2d') = 0
  BY <1>1, <1>2
<1> QED
  BY <1>1, <1>3, TailRequests DEF TokenInv, NoStrayReply, NoReplyIn

\* A write leaves it and the reads behind keep their place.
LEMMA RecvWriteToken ==
  ASSUME TypeOK, TokenInv, NoStrayReply, NEW m, RecvRequest(m),
         iopc = "recv", iopc' = "event", UNCHANGED hpc
  PROVE  TokenInv' /\ NoStrayReply'
<1>1. \A i \in 1..Len(h2d') : IsRead(h2d'[i]) =>
        i = Len(h2d') /\ hpc \in {"wait", "exit"} /\ NoReplyIn(d2h)
  BY TailRequests DEF TokenInv
<1>2. conn # "eof_h"
  BY TailRequests DEF TokenInv
<1> QED
  BY <1>1, <1>2, TailRequests DEF TokenInv, NoStrayReply, NoReplyIn

\* A step of the io thread between two requests moves no token.
LEMMA QuietToken ==
  ASSUME TokenInv, NoStrayReply, UNCHANGED <<h2d, d2h, hpc, conn>>,
         iopc' \notin {"wait", "reply"}, iopc \notin {"accept", "done", "dead"}
  PROVE  TokenInv' /\ NoStrayReply'
  BY DEF TokenInv, NoStrayReply, NoReplyIn

LEMMA CloseToken ==
  ASSUME TypeOK, TokenInv, NoStrayReply, CloseDeviceEnd, UNCHANGED hpc,
         iopc' \in {"done", "dead"}
  PROVE  TokenInv' /\ NoStrayReply'
<1>1. /\ h2d' = <<>> /\ d2h' \in {d2h, <<>>}
      /\ conn' = IF conn = "up" THEN "eof_h" ELSE IF conn = "eof_d" THEN "none" ELSE conn
  BY DEF CloseDeviceEnd
<1>2. NoStrayReply'
  BY <1>1, EmptySeq DEF NoStrayReply
<1>3. hpc' = "exit" => d2h' = <<>> /\ conn' = "none"
  BY <1>1 DEF TokenInv
<1>4. conn' # "eof_d"
  BY <1>1 DEF TypeOK, LinkTypeOK, Conn
<1> QED
  BY <1>1, <1>2, <1>3, <1>4, EmptySeq DEF TokenInv

LEMMA IoToken ==
  ASSUME TypeOK, TokenInv, NoStrayReply, IoNext, UNCHANGED hpc
  PROVE  TokenInv' /\ NoStrayReply'
<1>1. CASE IoStart
  BY <1>1, QuietToken DEF IoStart, linkVars
<1>2. CASE IoEnter
  BY <1>2, QuietToken DEF IoEnter, linkVars
<1>3. CASE IoSelect
  BY <1>3, QuietToken DEF IoSelect, linkVars
<1>4. CASE IoRecvNothing
  BY <1>4, QuietToken DEF IoRecvNothing, linkVars
<1>5. CASE IoRecvRead
  BY <1>5, RecvReadToken DEF IoRecvRead, RecvRequest, IsRead
<1>6. CASE IoRecvBarRead
  BY <1>6, RecvReadToken DEF IoRecvBarRead, RecvRequest, IsRead
<1>7. CASE IoRecvWrite
  BY <1>7, RecvWriteToken DEF IoRecvWrite, RecvRequest
<1>8. CASE IoRecvBarWrite
  BY <1>8, RecvWriteToken DEF IoRecvBarWrite, RecvRequest
<1>9. CASE IoWait
  BY <1>9 DEF IoWait, linkVars, TokenInv, NoStrayReply, NoReplyIn
<1>10. CASE IoReply
  <2>1. /\ hpc \in {"wait", "exit"} /\ NoReplyIn(d2h) /\ conn # "eof_h"
        /\ \A i \in 1..Len(h2d) : ~IsRead(h2d[i])
    BY <1>10 DEF IoReply, TokenInv
  <2>2. iopc' = "event" /\ UNCHANGED <<h2d, conn>>
    BY <1>10 DEF IoReply
  <2>3. CASE conn = "up"
    <3>1. d2h' = Append(d2h, NetReply(reply)) /\ hpc = "wait"
      BY <1>10, <2>1, <2>3 DEF IoReply, SendToHost, TokenInv
    <3>2. d2h \in Seq(Message \cup Reply) /\ NetReply(reply) \in Message \cup Reply
      BY NetReplyType DEF TypeOK, LinkTypeOK, IoTypeOK
    <3>3. /\ Len(d2h) \in Nat /\ Len(d2h') = Len(d2h) + 1
          /\ \A i \in 1..Len(d2h) : d2h'[i] = d2h[i]
      BY <3>1, <3>2, AppendFacts
    <3>4. NoStrayReply'
      BY <2>1, <3>1, <3>3 DEF NoStrayReply, NoReplyIn
    <3> QED
      BY <2>1, <2>2, <2>3, <3>1, <3>4 DEF TokenInv
  <2>4. CASE conn # "up"
    BY <1>10, <2>1, <2>2, <2>4 DEF IoReply, SendToHost, TokenInv, NoStrayReply, NoReplyIn
  <2> QED
    BY <2>3, <2>4
<1>11. CASE IoEvent
  BY <1>11, QuietToken DEF IoEvent, linkVars
<1>12. CASE IoKey
  BY <1>12, QuietToken DEF IoKey, linkVars
<1>13. CASE IoBatch
  <2>1. iopc' \in {"keys", "batch"} /\ UNCHANGED <<h2d, conn>> /\ iopc = "batch"
    BY <1>13 DEF IoBatch
  <2>2. CASE d2h' = d2h
    BY <2>1, <2>2, QuietToken
  <2>3. CASE d2h' # d2h
    <3>1. /\ batch # <<>> /\ conn = "up" /\ d2h' = Append(d2h, Head(batch))
          /\ batch \in Seq(Message) /\ d2h \in Seq(Message \cup Reply)
      BY <1>13, <2>3 DEF IoBatch, SendToHost, TypeOK, LinkTypeOK, IoTypeOK
    <3>2. Head(batch) \in Message
      BY <3>1, TailFacts
    <3>3. /\ Len(d2h) \in Nat /\ Len(d2h') = Len(d2h) + 1
          /\ \A i \in 1..Len(d2h) : d2h'[i] = d2h[i]
          /\ d2h'[Len(d2h) + 1].op # "REPLY"
      BY <3>1, <3>2, AppendFacts, MessageOp
    <3>4. NoStrayReply'
      BY <3>3 DEF NoStrayReply
    <3>5. NoReplyIn(d2h) => NoReplyIn(d2h)'
      BY <3>3 DEF NoReplyIn
    <3> QED
      BY <2>1, <3>1, <3>4, <3>5 DEF TokenInv
  <2> QED
    BY <2>2, <2>3
<1>14. CASE IoEndLoop
  BY <1>14, QuietToken DEF IoEndLoop, linkVars
<1>15. CASE IoFiniServer
  BY <1>15, QuietToken DEF IoFiniServer, linkVars
<1>16. CASE IoFini
  BY <1>16, CloseToken DEF IoFini
<1> QED
  BY <1>1, <1>2, <1>3, <1>4, <1>5, <1>6, <1>7, <1>8, <1>9, <1>10, <1>11,
     <1>12, <1>13, <1>14, <1>15, <1>16 DEF IoNext
----------------------------------------------------------------------------
(* The io thread: where the node is *)

\* Steps of the io thread outside on_bar_read leave the nodes alone.
LEMMA IoQuietNode ==
  ASSUME NodeInv, UNCHANGED <<cur, heap, rx_fifo, fnode, reply_node, gpc, gnode>>,
         iopc # "wait", iopc' # "wait", iopc \notin {"done", "dead"}
  PROVE  NodeInv'
  BY DEF NodeInv

\* on_bar_read and on_bar_write push a node that was free, so that it is in no
\* other place.
LEMMA PushNode ==
  ASSUME TypeOK, NodeInv, NEW n \in Nodes, NEW m \in Request, PushAccess(n, m),
         iopc = "recv",
         \/ m.op = "READ_MEM" /\ cur' = n /\ iopc' = "wait"
         \/ m.op = "WRITE_MEM" /\ cur' = cur /\ iopc' = "event",
         UNCHANGED <<reply_node, gpc, gnode>>
  PROVE  NodeInv'
<1>1. /\ rx_fifo \in Seq(Nodes) /\ rx_fifo' = Append(rx_fifo, n)
      /\ n \notin heap /\ heap' = heap \cup {n} /\ fnode \in [Nodes -> FNode]
      /\ fnode' = [fnode EXCEPT ![n] = [is_read |-> m.op = "READ_MEM", addr |-> m.addr,
                                        data |-> m.data, is_replied |-> FALSE]]
  BY DEF TypeOK, SharedTypeOK, PushAccess
<1>2. /\ Len(rx_fifo) \in Nat /\ Len(rx_fifo') = Len(rx_fifo) + 1
      /\ \A i \in 1..Len(rx_fifo) : rx_fifo'[i] = rx_fifo[i]
      /\ rx_fifo'[Len(rx_fifo) + 1] = n
  BY <1>1, AppendFacts
<1>3. \A i \in 1..Len(rx_fifo) :
        /\ rx_fifo[i] \in heap /\ rx_fifo[i] # n /\ rx_fifo[i] \in Nodes
        /\ fnode'[rx_fifo[i]] = fnode[rx_fifo[i]]
        /\ ~fnode[rx_fifo[i]].is_read /\ ~fnode[rx_fifo[i]].is_replied
  BY <1>1, ElementOfSeq DEF NodeInv
<1>4. (fnode'[n].is_read <=> m.op = "READ_MEM") /\ ~fnode'[n].is_replied
  BY <1>1
<1>5. reply_node = NULL /\ gpc # "rep" /\ gpc # "exit"
  BY DEF NodeInv
<1>6. \A i, j \in 1..Len(rx_fifo') : rx_fifo'[i] = rx_fifo'[j] => i = j
  <2>1. \A i, j \in 1..Len(rx_fifo) : rx_fifo[i] = rx_fifo[j] => i = j
    BY DEF NodeInv
  <2> QED
    BY <1>2, <1>3, <2>1
<1>7. \A i \in 1..Len(rx_fifo') :
        /\ rx_fifo'[i] \in heap' /\ ~fnode'[rx_fifo'[i]].is_replied
        /\ fnode'[rx_fifo'[i]].is_read => rx_fifo'[i] = n /\ m.op = "READ_MEM"
        /\ rx_fifo'[i] = n => (fnode'[rx_fifo'[i]].is_read <=> m.op = "READ_MEM")
  <2> SUFFICES ASSUME NEW i \in 1..Len(rx_fifo')
               PROVE  /\ rx_fifo'[i] \in heap' /\ ~fnode'[rx_fifo'[i]].is_replied
                      /\ fnode'[rx_fifo'[i]].is_read =>
                           rx_fifo'[i] = n /\ m.op = "READ_MEM"
                      /\ rx_fifo'[i] = n =>
                           (fnode'[rx_fifo'[i]].is_read <=> m.op = "READ_MEM")
    OBVIOUS
  <2>1. CASE i \in 1..Len(rx_fifo)
    BY <1>1, <1>2, <1>3, <2>1
  <2>2. CASE rx_fifo'[i] = n
    BY <1>1, <1>4, <2>2
  <2> QED
    BY <1>2, <2>1, <2>2
<1>8. CASE m.op = "READ_MEM"
  BY <1>1, <1>5, <1>6, <1>7, <1>8 DEF NodeInv
<1>9. CASE m.op = "WRITE_MEM"
  BY <1>5, <1>6, <1>7, <1>9 DEF NodeInv
<1> QED
  BY <1>8, <1>9

LEMMA IoNode ==
  ASSUME TypeOK, NodeInv, IoNext
  PROVE  NodeInv'
<1>1. CASE IoStart
  BY <1>1, IoQuietNode DEF IoStart, simVars
<1>2. CASE IoEnter
  BY <1>2, IoQuietNode DEF IoEnter, sharedVars, simVars
<1>3. CASE IoSelect
  BY <1>3, IoQuietNode DEF IoSelect, sharedVars, simVars
<1>4. CASE IoRecvNothing
  BY <1>4, IoQuietNode DEF IoRecvNothing, sharedVars, simVars
<1>5. CASE IoRecvRead
  BY <1>5, IoQuietNode DEF IoRecvRead, RecvRequest, simVars
<1>6. CASE IoRecvBarRead
  BY <1>6, PushNode DEF IoRecvBarRead, RecvRequest, simVars
<1>7. CASE IoRecvWrite
  BY <1>7, IoQuietNode DEF IoRecvWrite, RecvRequest, simVars
<1>8. CASE IoRecvBarWrite
  BY <1>8, PushNode DEF IoRecvBarWrite, RecvRequest, simVars
<1>9. CASE IoWait
  <2>1. /\ iopc = "wait" /\ fnode[cur].is_replied /\ iopc' = "reply"
        /\ heap' = heap \ {cur} /\ fnode' = [fnode EXCEPT ![cur] = Freed]
        /\ UNCHANGED <<rx_fifo, reply_node, gpc, gnode>>
        /\ fnode \in [Nodes -> FNode] /\ rx_fifo \in Seq(Nodes)
    BY <1>9 DEF IoWait, simVars, TypeOK, SharedTypeOK
  <2>2. reply_node = NULL /\ gpc # "rep" /\ gpc # "exit"
    BY <2>1 DEF NodeInv
  <2>3. \A i \in 1..Len(rx_fifo) :
          /\ rx_fifo[i] # cur /\ rx_fifo[i] \in heap' /\ rx_fifo[i] \in Nodes
          /\ fnode'[rx_fifo[i]] = fnode[rx_fifo[i]] /\ ~fnode[rx_fifo[i]].is_read
    BY <2>1, ElementOfSeq DEF NodeInv
  <2> QED
    BY <2>1, <2>2, <2>3 DEF NodeInv
<1>10. CASE IoReply
  BY <1>10, IoQuietNode DEF IoReply, sharedVars, simVars
<1>11. CASE IoEvent
  BY <1>11, IoQuietNode DEF IoEvent, simVars
<1>12. CASE IoKey
  <2>1. /\ UNCHANGED <<cur, heap, rx_fifo, fnode, reply_node, gpc, gnode>>
        /\ iopc = "keys" /\ iopc' \in {"keys", "batch"}
    BY <1>12 DEF IoKey, simVars
  <2> QED
    BY <2>1, IoQuietNode
<1>13. CASE IoBatch
  BY <1>13, IoQuietNode DEF IoBatch, sharedVars, simVars
<1>14. CASE IoEndLoop
  BY <1>14, IoQuietNode DEF IoEndLoop, sharedVars, simVars
<1>15. CASE IoFiniServer
  BY <1>15, IoQuietNode DEF IoFiniServer, sharedVars, simVars
<1>16. CASE IoFini
  <2>1. /\ rx_fifo' = <<>> /\ iopc = "shut" /\ iopc' = "done"
        /\ UNCHANGED <<reply_node, gpc, gnode>>
    BY <1>16 DEF IoFini, simVars
  <2>2. \A i \in 1..Len(rx_fifo') : FALSE
    BY <2>1, EmptySeq
  <2>3. reply_node = NULL /\ gpc # "rep"
    BY <2>1 DEF NodeInv
  <2> QED
    BY <2>1, <2>2, <2>3 DEF NodeInv
<1> QED
  BY <1>1, <1>2, <1>3, <1>4, <1>5, <1>6, <1>7, <1>8, <1>9, <1>10, <1>11,
     <1>12, <1>13, <1>14, <1>15, <1>16 DEF IoNext
----------------------------------------------------------------------------
(* The simulation thread *)

\* Popping the head of rx_fifo keeps what NodeInv says of the other nodes.
LEMMA PopNode ==
  ASSUME TypeOK, NodeInv, rx_fifo # <<>>
  PROVE  /\ Head(rx_fifo) = rx_fifo[1] /\ 1 \in 1..Len(rx_fifo)
         /\ Head(rx_fifo) \in Nodes
         /\ \A i \in 1..Len(Tail(rx_fifo)) :
              /\ i + 1 \in 1..Len(rx_fifo) /\ Tail(rx_fifo)[i] = rx_fifo[i + 1]
              /\ Tail(rx_fifo)[i] # Head(rx_fifo) /\ Tail(rx_fifo)[i] \in Nodes
         /\ \A i, j \in 1..Len(Tail(rx_fifo)) :
              Tail(rx_fifo)[i] = Tail(rx_fifo)[j] => i = j
<1>1. rx_fifo \in Seq(Nodes)
  BY DEF TypeOK, SharedTypeOK
<1>2. /\ Head(rx_fifo) = rx_fifo[1] /\ Head(rx_fifo) \in Nodes
      /\ Len(rx_fifo) \in Nat /\ Len(rx_fifo) >= 1
      /\ Tail(rx_fifo) \in Seq(Nodes) /\ Len(Tail(rx_fifo)) = Len(rx_fifo) - 1
      /\ \A i \in 1..Len(Tail(rx_fifo)) :
           Tail(rx_fifo)[i] = rx_fifo[i + 1] /\ i + 1 \in 1..Len(rx_fifo)
  BY <1>1, TailFacts
<1>3. \A i \in 1..Len(Tail(rx_fifo)) : Tail(rx_fifo)[i] \in Nodes
  BY <1>2, ElementOfSeq
<1>4. \A i, j \in 1..Len(rx_fifo) : rx_fifo[i] = rx_fifo[j] => i = j
  BY DEF NodeInv
<1> QED
  BY <1>2, <1>3, <1>4

LEMMA PollNode ==
  ASSUME TypeOK, NodeInv, LogicInv, PollRxFifo, UNCHANGED devVars
  PROVE  NodeInv' /\ LogicInv'
<1>1. /\ gpc = "edge" /\ ~gin.rep /\ gin' = NoInput /\ gpc' = "clk"
      /\ UNCHANGED <<iopc, cur, gnode, dread>>
  BY DEF PollRxFifo, InputsDone, ioVars, devVars
<1>2. ~gin'.rep
  BY <1>1 DEF NoInput
<1>3. CASE rx_fifo = <<>>
  <2>1. req' = NoReq /\ UNCHANGED <<rx_fifo, heap, fnode, reply_node>>
    BY <1>3 DEF PollRxFifo
  <2>2. ~req'.en
    BY <2>1 DEF NoReq
  <2> QED
    BY <1>1, <1>2, <2>1, <2>2 DEF NodeInv, LogicInv
<1>4. CASE rx_fifo # <<>>
  <2> DEFINE n == Head(rx_fifo)
  <2>1. /\ n = rx_fifo[1] /\ 1 \in 1..Len(rx_fifo) /\ n \in Nodes
        /\ \A i \in 1..Len(Tail(rx_fifo)) :
             /\ i + 1 \in 1..Len(rx_fifo) /\ Tail(rx_fifo)[i] = rx_fifo[i + 1]
             /\ Tail(rx_fifo)[i] # n /\ Tail(rx_fifo)[i] \in Nodes
        /\ \A i, j \in 1..Len(Tail(rx_fifo)) :
             Tail(rx_fifo)[i] = Tail(rx_fifo)[j] => i = j
    BY <1>4, PopNode
  <2>2. /\ n \in heap /\ ~fnode[n].is_replied
        /\ fnode[n].is_read => iopc = "wait" /\ n = cur /\ reply_node = NULL
        /\ iopc = "wait" /\ n = cur => fnode[n].is_read
    BY <2>1 DEF NodeInv
  <2>3. rx_fifo' = Tail(rx_fifo)
    BY <1>4 DEF PollRxFifo
  <2>4. fnode \in [Nodes -> FNode]
    BY DEF TypeOK, SharedTypeOK
  <2>5. CASE fnode[n].is_read
    <3>1. /\ reply_node' = n /\ UNCHANGED <<heap, fnode>>
          /\ reply_node = NULL /\ iopc = "wait" /\ n = cur
      BY <1>4, <2>2, <2>5 DEF PollRxFifo
    <3>2. n # NULL
      BY <2>1, NodesAssumption
    <3>3. \A i \in 1..Len(rx_fifo') :
            /\ rx_fifo'[i] \in heap /\ ~fnode[rx_fifo'[i]].is_replied
            /\ ~fnode[rx_fifo'[i]].is_read /\ rx_fifo'[i] # cur
      BY <2>1, <2>3, <3>1 DEF NodeInv
    <3>4. NodeInv'
      BY <1>1, <2>1, <2>2, <2>3, <3>1, <3>3 DEF NodeInv
    <3>5. dread = <<>>
      BY <3>1 DEF LogicInv
    <3>6. LogicInv'
      BY <1>1, <1>2, <3>1, <3>2, <3>5 DEF LogicInv
    <3> QED
      BY <3>4, <3>6
  <2>6. CASE ~fnode[n].is_read
    <3>1. /\ heap' = heap \ {n} /\ fnode' = [fnode EXCEPT ![n] = Freed]
          /\ reply_node' = reply_node
          /\ req' = [en |-> TRUE, wr |-> ~fnode[n].is_read, addr |-> fnode[n].addr,
                     data |-> fnode[n].data]
      BY <1>4, <2>6 DEF PollRxFifo
    <3>0. req'.wr
      BY <2>6, <3>1
    <3>2. ~(iopc = "wait" /\ n = cur)
      BY <2>2, <2>6
    <3>3. \A x \in Nodes : x # n => fnode'[x] = fnode[x]
      BY <2>4, <3>1
    <3>4. \A i \in 1..Len(rx_fifo') :
            /\ rx_fifo'[i] = rx_fifo[i + 1] /\ i + 1 \in 1..Len(rx_fifo)
            /\ fnode'[rx_fifo'[i]] = fnode[rx_fifo[i + 1]]
            /\ rx_fifo'[i] # n
      BY <2>1, <2>3, <3>3
    <3>5. iopc = "wait" => cur \in heap' /\ fnode'[cur] = fnode[cur]
      BY <3>1, <3>2, <3>3 DEF NodeInv, TypeOK, IoTypeOK
    <3>6. \A i \in 1..Len(rx_fifo') :
            /\ rx_fifo'[i] \in heap' /\ ~fnode'[rx_fifo'[i]].is_replied
            /\ fnode'[rx_fifo'[i]].is_read =>
                 iopc = "wait" /\ rx_fifo'[i] = cur /\ reply_node = NULL
            /\ iopc = "wait" /\ rx_fifo'[i] = cur => fnode'[cur].is_read
      BY <3>1, <3>4, <3>5 DEF NodeInv
    <3>7. NodeInv'
      BY <1>1, <2>1, <2>3, <3>1, <3>5, <3>6 DEF NodeInv
    <3>8. LogicInv'
      BY <1>1, <1>2, <3>1, <3>0 DEF LogicInv
    <3> QED
      BY <3>7, <3>8
  <2> QED
    BY <2>5, <2>6
<1> QED
  BY <1>3, <1>4
\* The process that ended or died holds no node.
LEMMA ResetNode ==
  ASSUME MemReset, iopc' \in {"done", "dead"}, gpc' = "exit", dread' = <<>>
  PROVE  NodeInv' /\ LogicInv'
<1>1. \A i \in 1..Len(rx_fifo') : FALSE
  BY EmptySeq DEF MemReset
<1>2. ~gin'.rep /\ ~req'.en
  BY DEF MemReset, NoInput, NoReq
<1> QED
  BY <1>1, <1>2 DEF MemReset, NodeInv, LogicInv

LEMMA SimNode ==
  ASSUME TypeOK, NodeInv, LogicInv, SimNext, UNCHANGED devVars
  PROVE  NodeInv' /\ LogicInv'
<1> USE DEF devVars
<1>1. CASE GhdlMain
  <2>1. LogicInv'
    <3>1. ~gin.rep /\ ~req.en
      BY <1>1 DEF GhdlMain, LogicInv
    <3> QED
      BY <1>1, <3>1 DEF GhdlMain, sharedVars, LogicInv
  <2> QED
    BY <1>1, <2>1 DEF GhdlMain, sharedVars, ioVars, NodeInv
<1>2. CASE EdgeMsi
  <2>1. gpc' = "ev" /\ gpc = "edge" /\ gin'.rep = gin.rep
        /\ UNCHANGED <<simRest, iopc, cur>>
    BY <1>2 DEF EdgeMsi, PushTx, ioVars, TypeOK, SimTypeOK, Inputs
  <2> QED
    BY <2>1 DEF simRest, NodeInv, LogicInv
<1>3. CASE EdgeMwr
  <2>1. gpc' = "ev" /\ gpc = "edge" /\ gin'.rep = gin.rep
        /\ UNCHANGED <<simRest, iopc, cur>>
    BY <1>3 DEF EdgeMwr, PushTx, ioVars, TypeOK, SimTypeOK, Inputs
  <2> QED
    BY <2>1 DEF simRest, NodeInv, LogicInv
<1>4. CASE WriteEvent
  <2>1. gpc' = "edge" /\ gpc = "ev" /\ UNCHANGED <<simRest, gin, iopc, cur>>
    BY <1>4 DEF WriteEvent, ioVars
  <2> QED
    BY <2>1 DEF simRest, NodeInv, LogicInv
<1>5. CASE EdgeReply
  <2>1. /\ gpc = "edge" /\ gin.rep /\ reply_node # NULL
    BY <1>5 DEF EdgeReply, LogicInv
  <2>2. /\ reply_node' = NULL /\ gnode' = reply_node /\ gpc' = "rep"
        /\ fnode' = [fnode EXCEPT ![reply_node].data = gin.data]
        /\ UNCHANGED <<heap, rx_fifo, req, iopc, cur>>
        /\ gin' = [gin EXCEPT !.rep = FALSE]
    BY <1>5, <2>1 DEF EdgeReply, ioVars
  <2>3. ~gin'.rep
    BY <2>2 DEF TypeOK, SimTypeOK, Inputs
  <2>4. dread = <<>>
    BY <2>1 DEF LogicInv
  <2>5. LogicInv'
    BY <2>2, <2>3, <2>4 DEF LogicInv
  <2>6. iopc = "wait" /\ reply_node = cur /\ ~fnode[cur].is_replied /\ cur \in Nodes
    BY <2>1 DEF NodeInv, TypeOK, IoTypeOK
  <2>7. \A n \in Nodes : /\ fnode'[n].is_replied = fnode[n].is_replied
                         /\ fnode'[n].is_read = fnode[n].is_read
    BY <2>2 DEF TypeOK, SharedTypeOK, FNode
  <2>8. \A i \in 1..Len(rx_fifo) : rx_fifo[i] \in Nodes /\ ~fnode[rx_fifo[i]].is_read
    BY <2>1, ElementOfSeq DEF NodeInv, TypeOK, SharedTypeOK
  <2>9. NodeInv'
    BY <2>2, <2>6, <2>7, <2>8 DEF NodeInv
  <2> QED
    BY <2>5, <2>9
<1>6. CASE ReplyDone
  <2>1. /\ gpc = "rep" /\ gpc' = "edge" /\ gnode' = NULL
        /\ fnode' = [fnode EXCEPT ![gnode].is_replied = TRUE]
        /\ UNCHANGED <<heap, reply_node, rx_fifo, gin, req, iopc, cur>>
    BY <1>6 DEF ReplyDone, ioVars
  <2>2. iopc = "wait" /\ gnode = cur /\ reply_node = NULL /\ cur \in Nodes
    BY <2>1 DEF NodeInv, TypeOK, IoTypeOK
  <2>3. LogicInv'
    BY <2>1, <2>2 DEF LogicInv
  <2>4. \A i \in 1..Len(rx_fifo) :
          /\ rx_fifo[i] \in Nodes /\ ~fnode[rx_fifo[i]].is_read /\ rx_fifo[i] # cur
    BY <2>1, <2>2, ElementOfSeq DEF NodeInv, TypeOK, SharedTypeOK
  <2>5. \A n \in Nodes : n # cur => fnode'[n] = fnode[n]
    BY <2>1, <2>2 DEF TypeOK, SharedTypeOK
  <2>6. NodeInv'
    BY <2>1, <2>2, <2>4, <2>5 DEF NodeInv
  <2> QED
    BY <2>3, <2>6
<1>7. CASE PollRxFifo
  BY <1>7, PollNode
<1>8. CASE GhdlEnd
  <2>1. gpc = "clk" /\ gpc' = "quit"
        /\ UNCHANGED <<iopc, cur, heap, rx_fifo, fnode, reply_node, gnode, req, dread, gin>>
    BY <1>8 DEF GhdlEnd, ioVars
  <2> QED
    BY <2>1 DEF NodeInv, LogicInv
<1>9. CASE WriteQuit
  <2>1. gpc' = "join" /\ gpc = "quit" /\ UNCHANGED <<simRest, gin, iopc, cur>>
    BY <1>9 DEF WriteQuit, ioVars
  <2> QED
    BY <2>1 DEF simRest, NodeInv, LogicInv
<1>10. CASE Join
  <2>1. gpc = "join" /\ gpc' = "exit" /\ MemReset /\ iopc = "done" /\ iopc' = "done"
    BY <1>10 DEF Join
  <2>2. reply_node = NULL
    BY <2>1 DEF NodeInv
  <2>3. dread' = <<>>
    BY <2>2 DEF LogicInv
  <2> QED
    BY <2>1, <2>3, ResetNode
<1> QED
  BY <1>1, <1>2, <1>3, <1>4, <1>5, <1>6, <1>7, <1>8, <1>9, <1>10 DEF SimNext

LEMMA SimToken ==
  ASSUME TokenInv, NoStrayReply, SimNext, UNCHANGED hpc
  PROVE  TokenInv' /\ NoStrayReply'
<1>1. UNCHANGED <<h2d, d2h, conn, iopc>>
  BY DEF SimNext, GhdlMain, EdgeMsi, EdgeMwr, WriteEvent, EdgeReply, ReplyDone,
         PollRxFifo, GhdlEnd, WriteQuit, Join, ioVars, linkVars
<1> QED
  BY <1>1, TokenFrame
----------------------------------------------------------------------------
(* The user logic, and the steps both processes take part in *)

LEMMA EdgeInv ==
  ASSUME IInv, NEW msi \in BOOLEAN, NEW mwr \in BOOLEAN, NEW rep \in BOOLEAN,
         NEW size, Edge(msi, mwr, size, rep), UNCHANGED <<hostVars, lives>>
  PROVE  TokenInv' /\ NoStrayReply' /\ NodeInv' /\ LogicInv'
<1>1. /\ gpc = "clk" /\ gpc' = "edge" /\ (rep => dread # <<>>)
      /\ UNCHANGED <<sharedVars, ioVars, gnode, req, linkVars>>
      /\ gin'.rep = rep
  BY DEF Edge, ClockEdge
<1>2. TokenInv' /\ NoStrayReply'
  BY <1>1, TokenFrame DEF IInv, hostVars, ioVars, linkVars
<1>3. NodeInv'
  BY <1>1 DEF IInv, NodeInv, sharedVars, ioVars
<1>4. dread \in Seq(Vals) /\ regs[req.addr] \in Vals
  BY DEF IInv, TypeOK, SimTypeOK, ReqOut
<1>5. LogicInv'
  <2> DEFINE pending == IF rep THEN Tail(dread) ELSE dread
  <2>1. dread' = IF req.en /\ ~req.wr THEN Append(pending, regs[req.addr]) ELSE pending
    BY DEF Edge, SampleRequest
  <2>2. CASE rep
    <3>1. /\ Len(dread) = 1 /\ reply_node # NULL /\ ~(req.en /\ ~req.wr)
      BY <1>1, <2>2 DEF IInv, LogicInv
    <3>2. Tail(dread) \in Seq(Vals) /\ Len(Tail(dread)) = 0
      BY <1>1, <1>4, <2>2, <3>1, TailFacts
    <3>3. dread' = <<>>
      BY <2>1, <2>2, <3>1, <3>2, EmptySeq
    <3> QED
      BY <1>1, <2>2, <3>1, <3>3 DEF LogicInv, sharedVars
  <2>3. CASE ~rep /\ req.en /\ ~req.wr
    <3>1. dread = <<>> /\ reply_node # NULL /\ dread' = Append(dread, regs[req.addr])
      BY <1>1, <2>1, <2>3 DEF IInv, LogicInv
    <3>2. Len(dread') = 1
      BY <1>4, <3>1, AppendFacts, EmptySeq
    <3> QED
      BY <1>1, <2>3, <3>1, <3>2 DEF LogicInv, sharedVars
  <2>4. CASE ~rep /\ ~(req.en /\ ~req.wr)
    <3>1. dread' = dread
      BY <2>1, <2>4
    <3> QED
      BY <1>1, <2>4, <3>1 DEF IInv, LogicInv, sharedVars
  <2> QED
    BY <2>2, <2>3, <2>4
<1> QED
  BY <1>2, <1>3, <1>5

LEMMA ConnectInv ==
  ASSUME IInv, Connect
  PROVE  TokenInv' /\ NoStrayReply' /\ NodeInv' /\ LogicInv'
<1>1. /\ h2d' = <<>> /\ d2h' = <<>> /\ conn' = "up" /\ hpc' = "idle"
      /\ iopc = "accept" /\ iopc' = "start"
  BY DEF Connect, HostConnect, OpenConn, IoAccept
<1>2. TokenInv' /\ NoStrayReply'
  BY <1>1, EmptySeq DEF TokenInv, NoStrayReply, NoReplyIn
<1>3. NodeInv'
  BY <1>1 DEF IInv, NodeInv, Connect, IoAccept, sharedVars
<1>4. LogicInv'
  BY LogicFrame DEF IInv, Connect, IoAccept, sharedVars, devVars
<1> QED
  BY <1>2, <1>3, <1>4

LEMMA RestartInv ==
  ASSUME IInv, Restart
  PROVE  TokenInv' /\ NoStrayReply' /\ NodeInv' /\ LogicInv'
<1>1. /\ gpc = "exit" /\ gpc' = "spawn" /\ iopc' = "accept" /\ dread' = <<>>
      /\ UNCHANGED <<linkVars, hostVars, rx_fifo, reply_node, fnode, heap, cur, gin,
                     gnode, req>>
  BY DEF Restart, Running, DevReset
<1>2. iopc \in {"done", "dead"} /\ reply_node = NULL /\ ~gin.rep /\ ~req.en
  BY <1>1 DEF IInv, NodeInv, LogicInv
<1>3. TokenInv' /\ NoStrayReply'
  BY <1>1, <1>2 DEF IInv, TokenInv, NoStrayReply, NoReplyIn, linkVars, hostVars
<1>4. NodeInv'
  BY <1>1, <1>2 DEF IInv, NodeInv
<1>5. LogicInv'
  BY <1>1, <1>2 DEF LogicInv
<1> QED
  BY <1>3, <1>4, <1>5

----------------------------------------------------------------------------
(* The inductive invariant *)

LEMMA InitInv == Init => IInv
<1> SUFFICES ASSUME Init PROVE IInv
  OBVIOUS
<1>1. TypeOK
  BY InitType
<1>2. (\A i \in 1..Len(h2d) : FALSE) /\ (\A i \in 1..Len(d2h) : FALSE)
      /\ (\A i \in 1..Len(rx_fifo) : FALSE)
  BY EmptySeq DEF Init, GlueInit, MemInit
<1>3. TokenInv /\ NoStrayReply
  BY <1>2 DEF Init, HostInit, GlueInit, TokenInv, NoStrayReply, NoReplyIn
<1>4. NodeInv
  BY <1>2 DEF Init, GlueInit, MemInit, NodeInv
<1>5. LogicInv
  BY DEF Init, GlueInit, MemInit, DevInit, NoInput, NoReq, LogicInv
<1> QED
  BY <1>1, <1>3, <1>4, <1>5 DEF IInv

LEMMA NextInv ==
  ASSUME IInv, [Next]_vars
  PROVE  IInv'
<1>1. TypeOK'
  BY NextType DEF IInv
<1> SUFFICES TokenInv' /\ NoStrayReply' /\ NodeInv' /\ LogicInv'
  BY <1>1 DEF IInv
<1>2. CASE HostNext /\ UNCHANGED <<glueVars, devVars, lives>>
  <2>1. UNCHANGED <<iopc, cur, heap, rx_fifo, fnode, reply_node, gpc, gnode, req, gin, dread>>
    BY <1>2 DEF glueVars, sharedVars, ioVars, simVars, devVars
  <2> QED
    BY <1>2, <2>1, HostToken, NodeFrame, LogicFrame DEF IInv
<1>3. CASE IoNext /\ UNCHANGED <<hostVars, devVars, lives>>
  <2>1. UNCHANGED <<gpc, req, reply_node, gin>>
    BY <1>3 DEF IoNext, IoStart, IoEnter, IoSelect, IoRecvNothing, IoRecvRead,
                IoRecvBarRead, IoRecvWrite, IoRecvBarWrite, RecvRequest, IoWait, IoReply,
                IoEvent, IoKey, IoBatch, IoEndLoop, IoFiniServer, IoFini, sharedVars,
                simVars
  <2>2. TokenInv' /\ NoStrayReply'
    BY <1>3, IoToken DEF IInv, hostVars
  <2>3. NodeInv'
    BY <1>3, IoNode DEF IInv
  <2> QED
    BY <1>3, <2>1, <2>2, <2>3, LogicFrame DEF IInv, devVars
<1>4. CASE SimNext /\ UNCHANGED <<hostVars, devVars, lives>>
  BY <1>4, SimToken, SimNode DEF IInv, hostVars
<1>5. CASE UserLogic
  BY <1>5, EdgeInv DEF UserLogic, EdgeQuiet, EdgeAnswer, EdgeEmit
<1>6. CASE Connect
  BY <1>6, ConnectInv
<1>7. CASE ConnectRefused
  <2>1. UNCHANGED <<iopc, cur, heap, rx_fifo, fnode, reply_node, gpc, gnode, req, gin, dread,
                    h2d, d2h, conn>>
        /\ hpc' = "idle" /\ hpc \in {"init", "idle"}
    BY <1>7 DEF ConnectRefused, HostConnectFail, ConnectNow, glueVars, sharedVars, ioVars,
                simVars, devVars, linkVars
  <2>2. TokenInv' /\ NoStrayReply'
    BY <2>1 DEF IInv, TokenInv, NoStrayReply, NoReplyIn
  <2> QED
    BY <2>1, <2>2, NodeFrame, LogicFrame DEF IInv
<1>8. CASE Kill
  <2>1. TokenInv' /\ NoStrayReply'
    BY <1>8, CloseToken DEF IInv, Kill, hostVars
  <2> QED
    BY <1>8, <2>1, ResetNode DEF Kill, DevReset
<1>9. CASE Restart
  BY <1>9, RestartInv
<1>10. CASE UNCHANGED vars
  <2>1. UNCHANGED <<iopc, cur, heap, rx_fifo, fnode, reply_node, gpc, gnode, req, gin, dread,
                    h2d, d2h, conn, hpc>>
    BY <1>10 DEF vars, glueVars, sharedVars, ioVars, simVars, devVars, linkVars, hostVars
  <2> QED
    BY <2>1, TokenFrame, NodeFrame, LogicFrame DEF IInv
<1> QED
  BY <1>2, <1>3, <1>4, <1>5, <1>6, <1>7, <1>8, <1>9, <1>10 DEF Next

\* The read protocol's invariant holds for any registers, nodes, pipe, number of
\* accesses, emissions and restarts: there is one read in the system at a time,
\* and its token, its node and the user logic agree on where it is.
THEOREM ReadProtocol == Spec => []IInv
<1>1. IInv /\ [Next]_vars => IInv'
  BY NextInv
<1> QED
  BY InitInv, <1>1, PTL DEF Spec

----------------------------------------------------------------------------
(* What follows from it *)

\* At most one reply is on the connection and QEMU is waiting for it, so that
\* recognising a reply by its size alone never mistakes one for another's.
THEOREM RepliesMatch == Spec => []NoStrayReply
<1>1. IInv => NoStrayReply
  BY DEF IInv
<1> QED
  BY <1>1, ReadProtocol, PTL

\* Neither thread touches a freed node: handing reply_node over before the
\* barrier, and is_replied last, is enough.
THEOREM NodesAlive == Spec => []NoUseAfterFree
<1>1. IInv => NoUseAfterFree
  <2> SUFFICES ASSUME IInv PROVE NoUseAfterFree
    OBVIOUS
  <2>1. Elems(rx_fifo) \subseteq heap
    BY DEF Elems, IInv, NodeInv
  <2> QED
    BY <2>1 DEF IInv, NodeInv, NoUseAfterFree
<1> QED
  BY <1>1, ReadProtocol, PTL

\* The two branches pcie_glue.c marks should_not_occur are not reached behind a
\* user logic that answers each read once.
THEOREM BranchesUnreachable == Spec => []ShouldNotOccur
<1>1. IInv => ShouldNotOccur
  BY DEF IInv, NodeInv, LogicInv, ShouldNotOccur
<1> QED
  BY <1>1, ReadProtocol, PTL
=============================================================================
