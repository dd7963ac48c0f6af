--------------------------- MODULE VPcieBusProofs ---------------------------
(***************************************************************************)
(* A vpcie session implements PcieBus, for any registers, nodes, pipe,     *)
(* number of accesses, emissions and restarts.  Of the invariant of        *)
(* delivery the steps need: one reply at most (Answer, Receive), which     *)
(* carries the value written last (Answer), and the io thread's lists      *)
(* being empty where a connection starts (Open) or the fifo is detached.   *)
(***************************************************************************)
EXTENDS VPcieBus, VPcieDelivery

----------------------------------------------------------------------------
(* The refinement mapping *)

LEMMA AnswerNone ==
  ASSUME NEW s, NoReplyIn(s)
  PROVE  AnswerIn(s) = NULL
  BY DEF AnswerIn, ReplyAt, NoReplyIn

LEMMA AnswerOne ==
  ASSUME NEW s, OneReply(s), NEW k \in ReplyAt(s)
  PROVE  AnswerIn(s) = s[k].data
<1>1. (CHOOSE i \in ReplyAt(s) : TRUE) \in ReplyAt(s)
  OBVIOUS
<1>2. (CHOOSE i \in ReplyAt(s) : TRUE) = k
  BY <1>1 DEF OneReply
<1> QED
  BY <1>2 DEF AnswerIn

\* A read is under way where QEMU waits, and nowhere else.
LEMMA ReadingNone ==
  ASSUME TypeOK
  PROVE  /\ Reading = NULL <=> hreq = NULL
         /\ hreq # NULL => Reading = LocOf(hreq) /\ hreq \in Request
<1>1. hreq # NULL => hreq \in Request
  BY DEF TypeOK, HostTypeOK
<1>2. \A m \in Request : LocOf(m) \in Loc \cup {"absent"}
  BY DEF Request, LocOf, Loc
<1> QED
  BY <1>1, <1>2, BusAssumption DEF Reading

\* The answer the bus would give is the one the session gives.
LEMMA AnswerExpected ==
  ASSUME TypeOK, hreq # NULL
  PROVE  Expected = IF Reading = "absent" THEN AllOnes ELSE shadow[Reading]
<1>1. hreq \in Request /\ Reading = LocOf(hreq)
  BY ReadingNone
<1>2. hreq.addr # "absent"
  BY <1>1, BusAssumption DEF Request
<1> QED
  BY <1>1, <1>2 DEF LocOf, Expected

LEMMA PrefixIs ==
  ASSUME NEW S, NEW a \in Seq(S), NEW b \in Seq(S)
  PROVE  Bus!IsPrefix(a, a \o b)
<1>1. Len(a) <= Len(a \o b) /\ SubSeq(a \o b, 1, Len(a)) = a
  BY PrefixOfConcat
<1>2. SubSeq(a, 1, Len(a)) = a
  BY SubSeqFull
<1> QED
  BY <1>1, <1>2 DEF Bus!IsPrefix

\* What taking the head of the first list takes from the two.
LEMMA PopFirst ==
  ASSUME NEW S, NEW a \in Seq(S), NEW b \in Seq(S), a # <<>>
  PROVE  /\ a \o b # <<>> /\ Head(a \o b) = Head(a) /\ Tail(a \o b) = Tail(a) \o b
<1>1. /\ Head(a) = a[1] /\ Len(a) \in Nat /\ Len(a) >= 1 /\ Tail(a) \in Seq(S)
      /\ Len(Tail(a)) = Len(a) - 1 /\ Len(b) \in Nat
      /\ \A i \in 1..Len(Tail(a)) : Tail(a)[i] = a[i + 1]
  BY TailFacts, LenProperties
<1>2. /\ a \o b \in Seq(S) /\ Len(a \o b) = Len(a) + Len(b)
      /\ \A i \in 1..Len(a) + Len(b) : (a \o b)[i] = IF i <= Len(a) THEN a[i] ELSE b[i - Len(a)]
  BY ConcatProperties
<1>3. a \o b # <<>>
  BY <1>1, <1>2, EmptySeq
<1>4. /\ Head(a \o b) = (a \o b)[1] /\ Tail(a \o b) \in Seq(S)
      /\ Len(Tail(a \o b)) = Len(a \o b) - 1
      /\ \A i \in 1..Len(Tail(a \o b)) : Tail(a \o b)[i] = (a \o b)[i + 1]
  BY <1>2, <1>3, TailFacts
<1>5. Head(a \o b) = Head(a)
  BY <1>1, <1>2, <1>4
<1>6. /\ Tail(a) \o b \in Seq(S) /\ Len(Tail(a) \o b) = Len(Tail(a)) + Len(b)
      /\ \A i \in 1..Len(Tail(a)) + Len(b) :
           (Tail(a) \o b)[i] = IF i <= Len(Tail(a)) THEN Tail(a)[i] ELSE b[i - Len(Tail(a))]
  BY <1>1, ConcatProperties
<1>7. ASSUME NEW i \in 1..Len(Tail(a \o b)) PROVE Tail(a \o b)[i] = (Tail(a) \o b)[i]
  <2>1. /\ i \in 1..Len(Tail(a)) + Len(b) /\ i + 1 \in 1..Len(a) + Len(b)
        /\ (i <= Len(Tail(a)) <=> i + 1 <= Len(a)) /\ i - Len(Tail(a)) = (i + 1) - Len(a)
        /\ (i <= Len(Tail(a)) => i \in 1..Len(Tail(a)))
    BY <1>1, <1>2, <1>4
  <2>2. Tail(a \o b)[i] = IF i + 1 <= Len(a) THEN a[i + 1] ELSE b[(i + 1) - Len(a)]
    BY <1>2, <1>4, <2>1
  <2>3. (Tail(a) \o b)[i] = IF i <= Len(Tail(a)) THEN Tail(a)[i] ELSE b[i - Len(Tail(a))]
    BY <1>6, <2>1
  <2> QED
    BY <1>1, <2>1, <2>2, <2>3
<1>8. Len(Tail(a \o b)) = Len(Tail(a) \o b)
  BY <1>1, <1>2, <1>4, <1>6
<1> QED
  BY <1>3, <1>4, <1>5, <1>6, <1>7, <1>8, SeqEqual

LEMMA ChannelType ==
  ASSUME TypeOK, NoStrayReply
  PROVE  /\ Posted(d2h) \in Seq(Message) /\ batch \in Seq(Message) /\ tx_fifo \in Seq(Message)
         /\ Posted(d2h) \o batch \in Seq(Message) /\ Channel \in Seq(Message)
         /\ d2h \in Seq(Message \cup Reply) /\ OneReply(d2h)
<1>1. /\ Posted(d2h) \in Seq(Message) /\ batch \in Seq(Message) /\ tx_fifo \in Seq(Message)
      /\ d2h \in Seq(Message \cup Reply) /\ OneReply(d2h)
  BY SentType, OneReplyThere
<1>2. Posted(d2h) \o batch \in Seq(Message)
  BY <1>1, ConcatProperties
<1>3. Posted(d2h) \o batch \o tx_fifo \in Seq(Message)
  BY <1>1, <1>2, ConcatProperties
<1> QED
  BY <1>1, <1>2, <1>3 DEF Channel

----------------------------------------------------------------------------
(* Every step is a step of the bus, or none *)

BusStep == Bus!Next \/ UNCHANGED Bus!busVars

LEMMA Stutter ==
  ASSUME UNCHANGED <<shadow, hreq, d2h, conn, hmem>>, Channel' = Channel
  PROVE  BusStep
<1>1. Reading' = Reading /\ AnswerIn(d2h)' = AnswerIn(d2h) /\ (conn = "up")' = (conn = "up")
  BY DEF Reading, LocOf, AnswerIn
<1> QED
  BY <1>1 DEF BusStep, Bus!busVars

LEMMA StutterFrame ==
  ASSUME UNCHANGED <<shadow, hreq, d2h, conn, hmem, batch, tx_fifo>>
  PROVE  BusStep
<1>1. Channel' = Channel
  BY DEF Channel
<1> QED
  BY <1>1, Stutter

LEMMA InitBus == Init => Bus!Init
<1> SUFFICES ASSUME Init PROVE Bus!Init
  OBVIOUS
<1>1. /\ conn = "none" /\ shadow = [l \in Loc |-> 0] /\ d2h = <<>> /\ hmem = <<>> /\ hreq = NULL
  BY DEF Init, HostInit
<1>2. NoReplyIn(d2h) /\ d2h \in Seq(Message \cup Reply)
  BY <1>1, EmptySeq DEF NoReplyIn
<1>3. Posted(d2h) = <<>> /\ AnswerIn(d2h) = NULL
  BY <1>1, <1>2, PostedNone, AnswerNone
<1>4. Channel = <<>>
  BY <1>1, <1>3 DEF Channel
<1>5. Reading = NULL
  BY <1>1 DEF Reading
<1> QED
  BY <1>1, <1>3, <1>4, <1>5 DEF Bus!Init

\* A request leaves QEMU: Write, StartRead, or nothing the guest could tell.
LEMMA ForwardBus ==
  ASSUME TypeOK, hreq = NULL, NEW m \in Request, Forward(m),
         UNCHANGED <<d2h, conn, hmem, batch, tx_fifo>>
  PROVE  BusStep
<1>1. /\ (conn = "up")' = (conn = "up") /\ AnswerIn(d2h)' = AnswerIn(d2h)
      /\ Channel' = Channel /\ hmem' = hmem
  BY DEF AnswerIn, Channel
<1>2. Reading = NULL
  BY DEF Reading
<1>3. CASE hreq' = hreq /\ shadow' = shadow
  BY <1>3, StutterFrame
<1>4. CASE hreq' = hreq /\ shadow' # shadow
  <2>1. conn = "up" /\ shadow' = [shadow EXCEPT ![m.addr] = m.data] /\ m.addr \in Loc /\ m.data \in Vals
    BY <1>4 DEF Forward, Written, Request, Loc
  <2>2. Reading' = Reading
    BY <1>4 DEF Reading, LocOf
  <2>3. Bus!Write(m.addr, m.data)
    BY <1>1, <1>2, <2>1, <2>2 DEF Bus!Write
  <2> QED
    BY <2>1, <2>3 DEF BusStep, Bus!Next
<1>5. CASE hreq' # hreq
  <2>1. IsRead(m) /\ hreq' = m
    BY <1>5 DEF Forward
  <2>2. shadow' = shadow
    BY <2>1 DEF Forward, Written
  <2>3. Reading' = LocOf(m)
    BY <2>1, NullAssumption DEF Reading, LocOf
  <2>4. LocOf(m) \in Loc \cup {"absent"}
    BY DEF LocOf, Request, Loc
  <2>5. Bus!StartRead(LocOf(m))
    BY <1>1, <1>2, <2>2, <2>3 DEF Bus!StartRead
  <2> QED
    BY <2>4, <2>5 DEF BusStep, Bus!Next
<1> QED
  BY <1>3, <1>4, <1>5

\* QEMU takes a posted message off the connection.
LEMMA DeliverBus ==
  ASSUME IInv, d2h # <<>>, Head(d2h).op # "REPLY", d2h' = Tail(d2h), ProcessMsg(Head(d2h)),
         UNCHANGED <<shadow, hreq, conn, batch, tx_fifo>>
  PROVE  BusStep
<1>1. /\ Posted(d2h) \in Seq(Message) /\ batch \in Seq(Message) /\ tx_fifo \in Seq(Message)
      /\ Posted(d2h) \o batch \in Seq(Message)
      /\ d2h \in Seq(Message \cup Reply) /\ OneReply(d2h)
  BY ChannelType DEF IInv
<1>2. /\ OneReply(d2h') /\ Posted(d2h) # <<>>
      /\ Head(d2h) = Head(Posted(d2h)) /\ Posted(d2h') = Tail(Posted(d2h))
  BY <1>1, PostedPopMessage
<1>3. Head(d2h) \in Message
  BY <1>1, <1>2, TailFacts
<1>4. hmem' = Append(hmem, Head(d2h))
  BY <1>3 DEF ProcessMsg, Message
<1>5. /\ Posted(d2h) \o batch # <<>> /\ Head(Posted(d2h) \o batch) = Head(Posted(d2h))
      /\ Tail(Posted(d2h) \o batch) = Tail(Posted(d2h)) \o batch
  BY <1>1, <1>2, PopFirst
<1> DEFINE a == Posted(d2h) \o batch
<1>6. /\ a \o tx_fifo # <<>> /\ Head(a \o tx_fifo) = Head(a)
      /\ Tail(a \o tx_fifo) = Tail(a) \o tx_fifo
  <2> HIDE DEF a
  <2>1. a \in Seq(Message) /\ a # <<>>
    BY <1>1, <1>5 DEF a
  <2> QED
    BY <1>1, <2>1, PopFirst
<1>7. /\ Channel # <<>> /\ Head(Channel) = Head(d2h) /\ Channel' = Tail(Channel)
  <2>1. CASE conn = "up"
    BY <1>2, <1>5, <1>6, <2>1 DEF Channel
  <2>2. CASE conn # "up"
    BY <1>2, <2>2 DEF Channel
  <2> QED
    BY <2>1, <2>2
<1>8. AnswerIn(d2h') = AnswerIn(d2h)
  <2>1. /\ Head(d2h) = d2h[1] /\ Len(d2h) \in Nat /\ Len(d2h) >= 1 /\ Len(d2h') = Len(d2h) - 1
        /\ \A i \in 1..Len(d2h') : d2h'[i] = d2h[i + 1] /\ i + 1 \in 1..Len(d2h)
    BY <1>1, TailFacts
  <2>2. CASE NoReplyIn(d2h)
    <3>1. NoReplyIn(d2h')
      BY <2>1, <2>2 DEF NoReplyIn
    <3> QED
      BY <2>2, <3>1, AnswerNone
  <2>3. CASE ~NoReplyIn(d2h)
    <3>1. PICK k \in 1..Len(d2h) : d2h[k].op = "REPLY"
      BY <2>3 DEF NoReplyIn
    <3>2. k # 1
      BY <2>1, <3>1
    <3>3. k - 1 \in 1..Len(d2h') /\ (k - 1) + 1 = k
      BY <2>1, <3>1, <3>2
    <3>4. d2h'[k - 1] = d2h[k]
      BY <2>1, <3>3
    <3>5. k \in ReplyAt(d2h) /\ k - 1 \in ReplyAt(d2h')
      BY <3>1, <3>3, <3>4 DEF ReplyAt
    <3>6. AnswerIn(d2h) = d2h[k].data
      BY <1>1, <3>5, AnswerOne
    <3>7. AnswerIn(d2h') = d2h'[k - 1].data
      BY <1>2, <3>5, AnswerOne
    <3> QED
      BY <3>4, <3>6, <3>7
  <2> QED
    BY <2>2, <2>3
<1>9. Reading' = Reading /\ (conn = "up")' = (conn = "up") /\ AnswerIn(d2h)' = AnswerIn(d2h')
  BY DEF Reading, LocOf, AnswerIn
<1>10. Bus!Deliver
  BY <1>4, <1>7, <1>8, <1>9 DEF Bus!Deliver
<1> QED
  BY <1>10 DEF BusStep, Bus!Next

\* The endpoint process closes its end: what it sent may still arrive.
LEMMA BreakBus ==
  ASSUME IInv, CloseDeviceEnd, UNCHANGED <<shadow, hreq, hmem>>
  PROVE  BusStep
<1>1. /\ Posted(d2h) \in Seq(Message) /\ batch \in Seq(Message) /\ tx_fifo \in Seq(Message)
  BY ChannelType DEF IInv
<1>2. conn' # "up" /\ d2h' \in {d2h, <<>>}
  BY DEF CloseDeviceEnd
<1>3. Posted(<<>>) = <<>> /\ AnswerIn(<<>>) = NULL
  <2>1. <<>> \in Seq(Message \cup Reply) /\ NoReplyIn(<<>>)
    BY EmptySeq DEF NoReplyIn
  <2> QED
    BY <2>1, PostedNone, AnswerNone
<1>4. /\ Channel' \in {Posted(d2h), <<>>} /\ AnswerIn(d2h)' \in {AnswerIn(d2h), NULL}
      /\ Reading' = Reading /\ ~(conn = "up")'
  BY <1>2, <1>3 DEF Channel, Reading, LocOf
<1>5. \E rest \in Seq(Message) : Channel = Posted(d2h) \o rest
  <2>1. CASE conn = "up"
    <3>1. (Posted(d2h) \o batch) \o tx_fifo = Posted(d2h) \o (batch \o tx_fifo)
      BY <1>1, ConcatAssociative
    <3>2. batch \o tx_fifo \in Seq(Message)
      BY <1>1, ConcatProperties
    <3> QED
      BY <2>1, <3>1, <3>2 DEF Channel
  <2>2. CASE conn # "up"
    BY <1>1, <2>2, EmptySeq, ConcatEmptySeq DEF Channel
  <2> QED
    BY <2>1, <2>2
<1>6. Channel \in Seq(Message) /\ Bus!IsPrefix(Posted(d2h), Channel)
  BY <1>1, <1>5, PrefixIs, ConcatProperties
<1>7. Bus!IsPrefix(<<>>, Channel)
  <2>1. <<>> \o Channel = Channel /\ <<>> \in Seq(Message)
    BY <1>6, ConcatEmptySeq, EmptySeq
  <2>2. Bus!IsPrefix(<<>>, <<>> \o Channel)
    BY <1>6, <2>1, PrefixIs
  <2> QED
    BY <2>1, <2>2
<1>8. Bus!IsPrefix(Channel', Channel)
  BY <1>4, <1>6, <1>7
<1>9. Bus!Break
  BY <1>4, <1>8 DEF Bus!Break
<1> QED
  BY <1>9 DEF BusStep, Bus!Next

LEMMA RecvReplyBus ==
  ASSUME IInv, HostInv, RecvReply, UNCHANGED <<batch, tx_fifo>>
  PROVE  BusStep
<1>1. d2h \in Seq(Message \cup Reply) /\ OneReply(d2h)
  BY ChannelType DEF IInv
<1>2. /\ hpc = "wait" /\ d2h # <<>> /\ d2h' = Tail(d2h) /\ UNCHANGED <<shadow, conn>>
  BY DEF RecvReply
<1>3. Head(d2h) \in Message \cup Reply /\ Head(d2h) = d2h[1] /\ 1 \in 1..Len(d2h)
  BY <1>1, <1>2, TailFacts
<1>4. CASE Head(d2h).op = "REPLY"
  <2>1. hreq' = NULL /\ hmem' = hmem
    BY <1>3, <1>4, ReplyBySize DEF RecvReply
  <2>2. NoReplyIn(d2h') /\ Posted(d2h') = Posted(d2h)
    BY <1>1, <1>2, <1>4, PostedPopReply
  <2>3. Channel' = Channel /\ (conn = "up")' = (conn = "up")
    BY <1>2, <2>2 DEF Channel
  <2>4. AnswerIn(d2h') = NULL
    BY <2>2, AnswerNone
  <2>5. AnswerIn(d2h) # NULL
    <3>1. 1 \in ReplyAt(d2h)
      BY <1>3, <1>4 DEF ReplyAt
    <3>2. AnswerIn(d2h) = Head(d2h).data
      BY <1>1, <1>3, <3>1, AnswerOne
    <3>3. Head(d2h).data \in Vals \cup {AllOnes}
      BY <1>3, <1>4 DEF Message, Reply
    <3> QED
      BY <3>2, <3>3, BusAssumption
  <2>6. Reading # NULL /\ Reading' = NULL
    BY <1>2, <2>1, ReadingNone DEF HostInv, IInv, Reading
  <2>7. AnswerIn(d2h)' = NULL
    BY <2>4
  <2>8. Bus!Receive
    BY <1>2, <2>1, <2>3, <2>5, <2>6, <2>7 DEF Bus!Receive
  <2> QED
    BY <2>8 DEF BusStep, Bus!Next
<1>5. CASE Head(d2h).op # "REPLY"
  <2>1. hreq' = hreq /\ ProcessMsg(Head(d2h))
    BY <1>3, <1>5, ReplyBySize DEF RecvReply
  <2> QED
    BY <1>2, <1>5, <2>1, DeliverBus
<1> QED
  BY <1>4, <1>5

LEMMA HostBus ==
  ASSUME IInv, HostInv, HostNext, UNCHANGED glueVars
  PROVE  BusStep
<1>0. UNCHANGED <<batch, tx_fifo>>
  BY DEF glueVars, sharedVars, ioVars
<1>i. hpc = "idle" => hreq = NULL
  BY DEF HostInv
<1>n. NoReplyIn(<<>>) /\ Posted(<<>>) = <<>> /\ AnswerIn(<<>>) = NULL
  <2>1. <<>> \in Seq(Message \cup Reply) /\ NoReplyIn(<<>>)
    BY EmptySeq DEF NoReplyIn
  <2> QED
    BY <2>1, PostedNone, AnswerNone
<1>1. CASE HostProbe
  BY <1>0, <1>1, <1>i, ForwardBus, ProbeReqType DEF HostProbe, IInv
<1>2. CASE HostIssue
  BY <1>0, <1>2, <1>i, ForwardBus DEF HostIssue, IInv, TypeOK, HostTypeOK
<1>3. CASE \E m \in GuestCalls : HostCall(m)
  BY <1>0, <1>3, StutterFrame DEF HostCall, linkVars
<1>4. CASE RecvReply
  BY <1>0, <1>4, RecvReplyBus
<1>5. CASE RecvReplyError
  <2>1. /\ hpc = "wait" /\ d2h = <<>> /\ conn # "up" /\ hreq' = NULL
        /\ UNCHANGED <<hmem, shadow, d2h, conn>>
    BY <1>5 DEF RecvReplyError, linkVars
  <2>2. Reading # NULL /\ Reading' = NULL
    BY <2>1, ReadingNone DEF HostInv, IInv, Reading
  <2>3. Channel' = Channel
    BY <1>0, <2>1 DEF Channel
  <2>4. AnswerIn(d2h) = NULL /\ AnswerIn(d2h)' = NULL
    BY <1>n, <2>1
  <2>5. Bus!ReadFails
    BY <2>1, <2>2, <2>3, <2>4 DEF Bus!ReadFails
  <2> QED
    BY <2>5 DEF BusStep, Bus!Next
<1>6. CASE OnRead
  <2>1. /\ hpc = "idle" /\ d2h # <<>> /\ d2h' = Tail(d2h) /\ ProcessMsg(Head(d2h))
        /\ UNCHANGED <<shadow, hreq, conn>>
    BY <1>6 DEF OnRead, HandlerRuns
  <2>2. Head(d2h) = d2h[1] /\ 1 \in 1..Len(d2h)
    BY <2>1, TailFacts DEF IInv, TypeOK, LinkTypeOK
  <2>3. Head(d2h).op # "REPLY"
    BY <2>1, <2>2 DEF IInv, NoStrayReply
  <2> QED
    BY <1>0, <2>1, <2>3, DeliverBus
<1>7. CASE OnReadError
  <2>1. /\ d2h = <<>> /\ d2h' = <<>> /\ conn = "eof_h" /\ conn' = "none"
        /\ UNCHANGED <<shadow, hreq, hmem>>
    BY <1>7 DEF OnReadError, CloseHostEnd
  <2>2. /\ Channel' = Channel /\ AnswerIn(d2h)' = AnswerIn(d2h) /\ Reading' = Reading
        /\ (conn = "up")' = (conn = "up")
    BY <2>1 DEF Channel, Reading, LocOf
  <2> QED
    BY <2>1, <2>2 DEF BusStep, Bus!busVars
<1>8. CASE HostExit
  <2>1. d2h' = <<>> /\ conn' # "up" /\ hreq' = NULL /\ UNCHANGED <<hmem, shadow>>
    BY <1>8 DEF HostExit, CloseHostEnd
  <2>2. Channel' = <<>> /\ AnswerIn(d2h)' = NULL /\ Reading' = NULL
    BY <1>n, <2>1 DEF Channel, Reading
  <2>3. Bus!GuestEnds
    BY <2>1, <2>2 DEF Bus!GuestEnds
  <2> QED
    BY <2>3 DEF BusStep, Bus!Next
<1> QED
  BY <1>1, <1>2, <1>3, <1>4, <1>5, <1>6, <1>7, <1>8 DEF HostNext

LEMMA IoReplyBus ==
  ASSUME IInv, HostInv, TokenDataInv, IoReply, UNCHANGED <<shadow, hreq, hmem>>
  PROVE  BusStep
<1>1. /\ iopc = "reply" /\ d2h' = (IF conn = "up" THEN Append(d2h, NetReply(reply)) ELSE d2h)
      /\ UNCHANGED <<conn, batch, tx_fifo>>
  BY DEF IoReply, SendToHost, sharedVars
<1>2. CASE conn = "up"
  <2>1. /\ d2h \in Seq(Message \cup Reply) /\ NetReply(reply) \in Reply /\ NoReplyIn(d2h)
        /\ reply = Expected /\ hpc \in {"wait", "exit"}
    BY <1>1, <1>2, NetReplyType DEF IInv, TypeOK, LinkTypeOK, IoTypeOK, TokenInv, TokenDataInv
  <2>2. hreq # NULL
    BY <1>2, <2>1 DEF HostInv, IInv, TokenInv
  <2>3. OneReply(d2h') /\ Posted(d2h') = Posted(d2h)
    BY <1>1, <1>2, <2>1, PostedReply
  <2>4. /\ Len(d2h) + 1 \in 1..Len(d2h') /\ d2h'[Len(d2h) + 1] = NetReply(reply)
    BY <1>1, <1>2, <2>1, AppendFacts
  <2>5. AnswerIn(d2h') = reply
    <3>1. NetReply(reply).op = "REPLY" /\ NetReply(reply).data = reply
      BY DEF NetReply
    <3>2. Len(d2h) + 1 \in ReplyAt(d2h')
      BY <2>4, <3>1 DEF ReplyAt
    <3> QED
      BY <2>3, <2>4, <3>1, <3>2, AnswerOne
  <2>6. AnswerIn(d2h)' = Expected
    BY <2>1, <2>5
  <2>7. AnswerIn(d2h) = NULL /\ Reading # NULL
    BY <2>1, <2>2, AnswerNone, ReadingNone DEF IInv
  <2>8. Channel' = Channel /\ Reading' = Reading /\ (conn = "up")' = (conn = "up")
    BY <1>1, <2>3 DEF Channel, Reading, LocOf
  <2>9. Expected = IF Reading = "absent" THEN AllOnes ELSE shadow[Reading]
    BY <2>2, AnswerExpected DEF IInv
  <2>10. Bus!Answer
    BY <1>2, <2>6, <2>7, <2>8, <2>9 DEF Bus!Answer
  <2> QED
    BY <2>10 DEF BusStep, Bus!Next
<1>3. CASE conn # "up"
  BY <1>1, <1>3, StutterFrame
<1> QED
  BY <1>2, <1>3

LEMMA IoBus ==
  ASSUME IInv, ThreadInv, HostInv, TokenDataInv, IoNext, UNCHANGED hostVars
  PROVE  BusStep
<1>0. UNCHANGED <<shadow, hreq, hmem>>
  BY DEF hostVars
<1>c. /\ Posted(d2h) \in Seq(Message) /\ batch \in Seq(Message) /\ tx_fifo \in Seq(Message)
      /\ d2h \in Seq(Message \cup Reply) /\ OneReply(d2h)
  BY ChannelType DEF IInv
<1>1. CASE IoStart \/ IoEnter \/ IoSelect \/ IoRecvNothing
  BY <1>0, <1>1, StutterFrame DEF IoStart, IoEnter, IoSelect, IoRecvNothing, sharedVars, linkVars
<1>2. CASE IoRecvRead \/ IoRecvBarRead \/ IoRecvWrite \/ IoRecvBarWrite
  <2>1. \E m : RecvRequest(m)
    BY <1>2 DEF IoRecvRead, IoRecvBarRead, IoRecvWrite, IoRecvBarWrite
  <2> QED
    BY <1>0, <2>1, StutterFrame DEF RecvRequest
<1>3. CASE IoWait \/ IoEvent \/ IoEndLoop \/ IoFiniServer
  BY <1>0, <1>3, StutterFrame DEF IoWait, IoEvent, IoEndLoop, IoFiniServer, sharedVars, linkVars
<1>4. CASE IoReply
  BY <1>0, <1>4, IoReplyBus
<1>5. CASE IoKey
  <2>1. batch = <<>> /\ UNCHANGED <<d2h, conn>>
    BY <1>5 DEF IoKey, linkVars, ThreadInv
  <2>2. (batch' = batch /\ tx_fifo' = tx_fifo) \/ (batch' = tx_fifo /\ tx_fifo' = <<>>)
    BY <1>5 DEF IoKey
  <2>3. /\ Posted(d2h) \o <<>> = Posted(d2h) /\ Posted(d2h) \o tx_fifo \in Seq(Message)
    BY <1>c, ConcatEmptySeq, ConcatProperties
  <2>4. (Posted(d2h) \o tx_fifo) \o <<>> = Posted(d2h) \o tx_fifo
    BY <2>3, ConcatEmptySeq
  <2>5. Channel' = Channel
    BY <2>1, <2>2, <2>3, <2>4 DEF Channel
  <2> QED
    BY <1>0, <2>1, <2>5, Stutter
<1>6. CASE IoBatch
  <2>1. UNCHANGED <<conn, tx_fifo>>
    BY <1>6 DEF IoBatch, sharedVars
  <2>2. CASE conn = "up" /\ batch # <<>>
    <3>1. d2h' = Append(d2h, Head(batch)) /\ batch' = Tail(batch)
      BY <1>6, <2>2 DEF IoBatch, SendToHost
    <3>2. Head(batch) \in Message
      BY <1>c, <2>2, TailFacts
    <3>3. OneReply(d2h') /\ Posted(d2h') = Append(Posted(d2h), Head(batch))
      BY <1>c, <3>1, <3>2, PostedMessage
    <3>4. Append(Posted(d2h), Head(batch)) \o Tail(batch) = Posted(d2h) \o batch
      BY <1>c, <2>2, MoveHead
    <3>5. Channel' = Channel
      BY <2>1, <2>2, <3>1, <3>3, <3>4 DEF Channel
    <3>6. AnswerIn(d2h') = AnswerIn(d2h)
      <4>1. /\ Len(d2h) \in Nat /\ Len(d2h') = Len(d2h) + 1
            /\ \A i \in 1..Len(d2h) : d2h'[i] = d2h[i]
            /\ d2h'[Len(d2h) + 1].op # "REPLY"
        BY <1>c, <3>1, <3>2, AppendFacts, MessageOp
      <4>2. CASE NoReplyIn(d2h)
        <5>1. NoReplyIn(d2h')
          BY <4>1, <4>2 DEF NoReplyIn
        <5> QED
          BY <4>2, <5>1, AnswerNone
      <4>3. CASE ~NoReplyIn(d2h)
        <5>1. PICK k \in 1..Len(d2h) : d2h[k].op = "REPLY"
          BY <4>3 DEF NoReplyIn
        <5>2. k \in 1..Len(d2h')
          BY <4>1
        <5>3. k \in ReplyAt(d2h) /\ k \in ReplyAt(d2h')
          BY <4>1, <5>1, <5>2 DEF ReplyAt
        <5>4. AnswerIn(d2h) = d2h[k].data /\ AnswerIn(d2h') = d2h'[k].data
          BY <1>c, <3>3, <5>3, AnswerOne
        <5> QED
          BY <4>1, <5>4
      <4> QED
        BY <4>2, <4>3
    <3>7. Reading' = Reading /\ (conn = "up")' = (conn = "up") /\ AnswerIn(d2h)' = AnswerIn(d2h)
      BY <1>0, <2>1, <3>6 DEF Reading, LocOf
    <3> QED
      BY <1>0, <3>5, <3>7 DEF BusStep, Bus!busVars
  <2>3. CASE ~(conn = "up" /\ batch # <<>>)
    <3>1. d2h' = d2h /\ (conn = "up" => batch' = batch)
      BY <1>6, <2>3 DEF IoBatch, SendToHost
    <3>2. Channel' = Channel
      BY <2>1, <3>1 DEF Channel
    <3> QED
      BY <1>0, <2>1, <3>1, <3>2, Stutter
  <2> QED
    BY <2>2, <2>3
<1>7. CASE IoFini
  BY <1>0, <1>7, BreakBus DEF IoFini
<1> QED
  BY <1>1, <1>2, <1>3, <1>4, <1>5, <1>6, <1>7 DEF IoNext

\* The device emits: onto a connection, or into the void.
LEMMA PushBus ==
  ASSUME IInv, NEW op \in {"WRITE_MEM", "MSI"}, NEW len \in Nat, NEW user \in Nat,
         PushTx(op, len, user), UNCHANGED <<shadow, hreq, hmem, d2h, conn, batch>>
  PROVE  BusStep
<1>1. CASE conn # "up"
  <2>1. Channel' = Channel
    BY <1>1 DEF Channel
  <2> QED
    BY <2>1, Stutter
<1>2. CASE conn = "up"
  <2>1. /\ Posted(d2h) \o batch \in Seq(Message) /\ tx_fifo \in Seq(Message)
        /\ Channel \in Seq(Message) /\ emitted \in Seq(Message)
    BY ChannelType DEF IInv, TypeOK, SimTypeOK
  <2> DEFINE m == NetMsg(op, Len(emitted) + 1, len, user)
  <2> DEFINE a == Posted(d2h) \o batch
  <2>2. m \in Message
    BY <2>1, NetMsgType, LenProperties
  <2>3. tx_fifo' = Append(tx_fifo, m)
    BY DEF PushTx
  <2>4. Channel = a \o tx_fifo /\ Channel' = a \o Append(tx_fifo, m)
    BY <1>2, <2>3 DEF Channel
  <2> HIDE DEF m, a
  <2>5. a \in Seq(Message)
    BY <2>1 DEF a
  <2>6. Channel' = Append(Channel, m)
    BY <2>1, <2>2, <2>4, <2>5, AppendLast
  <2>7. Len(Channel') = Len(Channel) + 1
    BY <2>1, <2>2, <2>6, AppendFacts
  <2>8. Bus!IsPrefix(Channel, Channel')
    <3>1. Append(Channel, m) = Channel \o <<m>> /\ <<m>> \in Seq(Message)
      BY <2>1, <2>2
    <3> QED
      BY <2>1, <2>6, <3>1, PrefixIs
  <2>9. Reading' = Reading /\ (conn = "up")' = (conn = "up") /\ AnswerIn(d2h)' = AnswerIn(d2h)
    BY DEF Reading, LocOf
  <2>10. Bus!Emit
    BY <1>2, <2>7, <2>8, <2>9 DEF Bus!Emit
  <2> QED
    BY <2>10 DEF BusStep, Bus!Next
<1> QED
  BY <1>1, <1>2

LEMMA SimBus ==
  ASSUME IInv, ThreadInv, SimNext, UNCHANGED hostVars
  PROVE  BusStep
<1>0. UNCHANGED <<shadow, hreq, hmem>>
  BY DEF hostVars
<1>1. CASE GhdlMain \/ GhdlEnd \/ WriteEvent \/ WriteQuit
  BY <1>0, <1>1, StutterFrame DEF GhdlMain, GhdlEnd, WriteEvent, WriteQuit, sharedVars, ioVars,
                                  linkVars
<1>2. CASE EdgeReply \/ ReplyDone \/ PollRxFifo
  BY <1>0, <1>2, StutterFrame DEF EdgeReply, ReplyDone, PollRxFifo, ioVars, linkVars
<1>3. CASE EdgeMsi
  BY <1>0, <1>3, PushBus DEF EdgeMsi, ioVars, linkVars
<1>4. CASE EdgeMwr
  <2>1. gin.size \in Nat
    BY PayloadAssumption DEF IInv, TypeOK, SimTypeOK, Inputs
  <2> QED
    BY <1>0, <1>4, <2>1, PushBus, PayloadAssumption DEF EdgeMwr, ioVars, linkVars
<1>5. CASE Join
  <2>1. UNCHANGED <<d2h, conn>> /\ conn # "up"
    BY <1>5 DEF Join, linkVars, ThreadInv
  <2>2. Channel' = Channel
    BY <2>1 DEF Channel
  <2> QED
    BY <1>0, <2>1, <2>2, Stutter
<1> QED
  BY <1>1, <1>2, <1>3, <1>4, <1>5 DEF SimNext

\* A connection is made: QEMU waits for nothing, and nothing is in the endpoint
\* process that could be sent.
LEMMA ConnectBus ==
  ASSUME IInv, ThreadInv, HostInv, Connect
  PROVE  BusStep
<1>1. /\ iopc = "accept" /\ ConnectNow /\ conn' = "up" /\ d2h' = <<>> /\ hmem' = <<>>
      /\ shadow' = [l \in Loc |-> 0] /\ UNCHANGED <<hreq, batch, tx_fifo>>
  BY DEF Connect, HostConnect, OpenConn, IoAccept, sharedVars
<1>2. hreq = NULL /\ hpc # "wait"
  BY <1>1 DEF ConnectNow, HostInv
<1>3. conn # "up" /\ tx_fifo = <<>> /\ batch = <<>>
  BY <1>1 DEF ThreadInv
<1>4. NoReplyIn(d2h)
  BY <1>2 DEF IInv, NoStrayReply, NoReplyIn
<1>5. NoReplyIn(<<>>) /\ <<>> \in Seq(Message \cup Reply) /\ <<>> \in Seq(Message)
  BY EmptySeq DEF NoReplyIn
<1>6. /\ AnswerIn(d2h) = NULL /\ AnswerIn(d2h)' = NULL /\ Reading = NULL /\ Reading' = NULL
  BY <1>1, <1>2, <1>4, <1>5, AnswerNone DEF Reading
<1>7. Channel' = <<>>
  <2>1. Posted(<<>>) = <<>>
    BY <1>5, PostedNone
  <2>2. Channel' = <<>> \o <<>> \o <<>>
    BY <1>1, <1>3, <2>1 DEF Channel
  <2> QED
    BY <1>5, <2>2, ConcatEmptySeq
<1>8. Bus!Open
  BY <1>1, <1>3, <1>6, <1>7 DEF Bus!Open
<1> QED
  BY <1>8 DEF BusStep, Bus!Next

LEMMA NextBus ==
  ASSUME DInv, [Next]_vars
  PROVE  BusStep
<1>0. IInv /\ ThreadInv /\ HostInv /\ TokenDataInv
  BY DEF DInv
<1>1. CASE HostNext /\ UNCHANGED <<glueVars, devVars, lives>>
  BY <1>0, <1>1, HostBus
<1>2. CASE IoNext /\ UNCHANGED <<hostVars, devVars, lives>>
  BY <1>0, <1>2, IoBus
<1>3. CASE SimNext /\ UNCHANGED <<hostVars, devVars, lives>>
  BY <1>0, <1>3, SimBus
<1>4. CASE UserLogic
  BY <1>4, StutterFrame DEF UserLogic, EdgeQuiet, EdgeAnswer, EdgeEmit, Edge, ClockEdge,
                            sharedVars, ioVars, linkVars, hostVars
<1>5. CASE Connect
  BY <1>0, <1>5, ConnectBus
<1>6. CASE ConnectRefused
  BY <1>6, StutterFrame DEF ConnectRefused, HostConnectFail, glueVars, sharedVars, ioVars, linkVars
<1>7. CASE Kill
  BY <1>0, <1>7, BreakBus DEF Kill, hostVars
<1>8. CASE Restart
  BY <1>8, StutterFrame DEF Restart, linkVars, hostVars
<1>9. CASE UNCHANGED vars
  BY <1>9, StutterFrame DEF vars, hostVars, glueVars, sharedVars, ioVars, linkVars
<1> QED
  BY <1>1, <1>2, <1>3, <1>4, <1>5, <1>6, <1>7, <1>8, <1>9 DEF Next

\* A session of QEMU, the two threads of the endpoint process, the connection
\* and its breaks, with every restart, implements the abstract bus: registers
\* that are read and written one access at a time, and a channel of posted
\* messages that is reliable and in order while the connection lasts.
THEOREM Refinement == Spec => BusSpec
<1>1. DInv /\ [Next]_vars => [Bus!Next]_(Bus!busVars)
  BY NextBus DEF BusStep
<1> QED
  BY InitBus, <1>1, Delivery, PTL DEF Spec, BusSpec, Bus!Spec
=============================================================================
