--------------------------- MODULE VPcieDelivery ---------------------------
(***************************************************************************)
(* Delivery in a vpcie session, in both directions and for any registers,  *)
(* nodes, pipe, number of accesses, emissions and restarts: no wake-up of  *)
(* the io thread is lost, what the device emits is carried out in order,   *)
(* and a read returns what was written last.  ThreadInv, HostInv and       *)
(* QuitInv say which lists are empty where; OrderInv follows the messages  *)
(* to the host, WritesInv the writes to the device, and TokenDataInv the   *)
(* data of the one read there is.                                          *)
(***************************************************************************)
EXTENDS VPcieProofs

----------------------------------------------------------------------------
(* Sequences *)

\* What read takes from the pipe and what it leaves.
LEMMA SplitFacts ==
  ASSUME NEW S, NEW s \in Seq(S), NEW n \in 0..Len(s)
  PROVE  LET a == SubSeq(s, 1, n)
             b == SubSeq(s, n + 1, Len(s))
         IN  /\ a \in Seq(S) /\ Len(a) = n /\ (\A i \in 1..n : a[i] = s[i])
             /\ b \in Seq(S) /\ Len(b) = Len(s) - n
             /\ \A i \in 1..(Len(s) - n) : b[i] = s[n + i]
  BY SubSeqProperties, LenProperties

\* What on_event does to the list it detached, and process_msg to the socket:
\* moving the head of one sequence to the end of the one before it.
LEMMA MoveHead ==
  ASSUME NEW S, NEW a \in Seq(S), NEW b \in Seq(S), b # <<>>
  PROVE  Append(a, Head(b)) \o Tail(b) = a \o b
<1>1. /\ Head(b) \in S /\ Tail(b) \in Seq(S) /\ Head(b) = b[1]
      /\ Len(b) \in Nat /\ Len(b) >= 1 /\ Len(Tail(b)) = Len(b) - 1
      /\ \A i \in 1..Len(Tail(b)) : Tail(b)[i] = b[i + 1]
  BY TailFacts
<1>2. /\ Append(a, Head(b)) \in Seq(S) /\ Len(a) \in Nat
      /\ Len(Append(a, Head(b))) = Len(a) + 1
      /\ \A i \in 1..Len(a) : Append(a, Head(b))[i] = a[i]
      /\ Append(a, Head(b))[Len(a) + 1] = Head(b)
  BY <1>1, AppendFacts
<1> DEFINE x == Append(a, Head(b))
           s == x \o Tail(b)
           t == a \o b
<1> HIDE DEF x
<1>3. /\ x \in Seq(S) /\ Len(x) = Len(a) + 1 /\ x[Len(a) + 1] = b[1]
      /\ \A i \in 1..Len(a) : x[i] = a[i]
  BY <1>1, <1>2 DEF x
<1>4. /\ s \in Seq(S) /\ Len(s) = Len(x) + Len(Tail(b))
      /\ \A i \in 1..Len(x) + Len(Tail(b)) : s[i] = IF i <= Len(x) THEN x[i]
                                                  ELSE Tail(b)[i - Len(x)]
  BY <1>1, <1>3, ConcatProperties
<1>5. /\ t \in Seq(S) /\ Len(t) = Len(a) + Len(b)
      /\ \A i \in 1..Len(a) + Len(b) : t[i] = IF i <= Len(a) THEN a[i] ELSE b[i - Len(a)]
  BY ConcatProperties
<1> HIDE DEF s, t
<1>6. Len(s) = Len(t)
  BY <1>1, <1>2, <1>3, <1>4, <1>5
<1>7. \A i \in 1..Len(s) : s[i] = t[i]
  <2> SUFFICES ASSUME NEW i \in 1..Len(s) PROVE s[i] = t[i]
    OBVIOUS
  <2>1. CASE i <= Len(a)
    <3>1. /\ i \in 1..Len(a) /\ i <= Len(x)
          /\ i \in 1..Len(x) + Len(Tail(b)) /\ i \in 1..Len(a) + Len(b)
      BY <1>1, <1>2, <1>3, <1>4, <2>1
    <3>2. s[i] = x[i] /\ t[i] = a[i] /\ x[i] = a[i]
      BY <1>3, <1>4, <1>5, <2>1, <3>1
    <3> QED
      BY <3>2
  <2>2. CASE i = Len(a) + 1
    BY <1>1, <1>2, <1>3, <1>4, <1>5, <2>2
  <2>3. CASE i > Len(a) + 1
    <3>1. s[i] = Tail(b)[i - Len(x)] /\ i - Len(x) \in 1..Len(Tail(b))
          /\ i - Len(x) = i - Len(a) - 1
      BY <1>1, <1>2, <1>3, <1>4, <2>3
    <3>2. Tail(b)[i - Len(x)] = b[(i - Len(x)) + 1]
      BY <1>1, <3>1
    <3>3. (i - Len(x)) + 1 = i - Len(a) /\ t[i] = b[i - Len(a)]
      BY <1>1, <1>2, <1>3, <1>4, <1>5, <2>3
    <3> QED
      BY <3>1, <3>2, <3>3
  <2> QED
    BY <1>1, <1>2, <1>3, <1>4, <2>1, <2>2, <2>3
<1>8. s = t
  BY <1>4, <1>5, <1>6, <1>7, SeqEqual
<1> QED
  BY <1>8 DEF s, t, x

LEMMA AppendLast ==
  ASSUME NEW S, NEW a \in Seq(S), NEW b \in Seq(S), NEW e \in S
  PROVE  a \o Append(b, e) = Append(a \o b, e)
<1>1. <<e>> \in Seq(S)
  OBVIOUS
<1>2. a \o b \in Seq(S)
  BY ConcatProperties
<1>3. Append(b, e) = b \o <<e>> /\ Append(a \o b, e) = (a \o b) \o <<e>>
  BY <1>2, AppendIsConcat
<1> QED
  BY <1>1, <1>3, ConcatAssociative

\* The first of two sequences is a prefix of anything the two are a prefix of.
LEMMA PrefixOfPrefix ==
  ASSUME NEW S, NEW a \in Seq(S), NEW b \in Seq(S), NEW e \in Seq(S),
         Len(a \o b) <= Len(e), SubSeq(e, 1, Len(a \o b)) = a \o b
  PROVE  Len(a) <= Len(e) /\ SubSeq(e, 1, Len(a)) = a
<1>1. /\ a \o b \in Seq(S) /\ Len(a \o b) = Len(a) + Len(b)
      /\ \A i \in 1..Len(a) + Len(b) : (a \o b)[i] = IF i <= Len(a) THEN a[i] ELSE b[i - Len(a)]
      /\ Len(a) \in Nat /\ Len(b) \in Nat /\ Len(e) \in Nat
  BY ConcatProperties, LenProperties
<1> DEFINE n == Len(a) + Len(b)
<1>2. n \in 0..Len(e) /\ Len(a) \in 0..Len(e) /\ Len(a) <= n
  BY <1>1
<1>3. \A i \in 1..n : SubSeq(e, 1, n)[i] = e[i]
  BY <1>2, SplitFacts
<1>4. \A i \in 1..Len(a) : a[i] = e[i]
  BY <1>1, <1>2, <1>3
<1>5. /\ SubSeq(e, 1, Len(a)) \in Seq(S) /\ Len(SubSeq(e, 1, Len(a))) = Len(a)
      /\ \A i \in 1..Len(a) : SubSeq(e, 1, Len(a))[i] = e[i]
  BY <1>2, SplitFacts
<1> QED
  BY <1>2, <1>4, <1>5, SeqEqual

LEMMA PrefixOfConcat ==
  ASSUME NEW S, NEW a \in Seq(S), NEW b \in Seq(S)
  PROVE  Len(a) <= Len(a \o b) /\ SubSeq(a \o b, 1, Len(a)) = a
<1>1. a \o b \in Seq(S) /\ Len(a \o b) \in Nat
  BY ConcatProperties, LenProperties
<1>2. Len(a \o b) <= Len(a \o b) /\ SubSeq(a \o b, 1, Len(a \o b)) = a \o b
  BY <1>1, SubSeqFull
<1> QED
  BY <1>1, <1>2, PrefixOfPrefix

----------------------------------------------------------------------------
(* The posted messages on a connection *)

OneReply(s) == \A i, j \in ReplyAt(s) : i = j

LEMMA PostedNone ==
  ASSUME NEW s \in Seq(Message \cup Reply), NoReplyIn(s)
  PROVE  Posted(s) = s /\ s \in Seq(Message)
<1>1. ReplyAt(s) = {}
  BY DEF NoReplyIn, ReplyAt
<1>2. \A i \in 1..Len(s) : s[i] \in Message
  BY ElementOfSeq, SplitMessage DEF NoReplyIn
<1>3. Len(s) \in Nat /\ s = SubSeq(s, 1, Len(s))
  BY LenProperties, SubSeqFull
<1>4. SubSeq(s, 1, Len(s)) \in Seq(Message)
  BY <1>2, <1>3, SubSeqProperties
<1> QED
  BY <1>1, <1>3, <1>4 DEF Posted

\* With a reply at k, the messages before and after it.
LEMMA PostedOne ==
  ASSUME NEW s \in Seq(Message \cup Reply), NEW k \in ReplyAt(s), OneReply(s)
  PROVE  /\ k \in 1..Len(s) /\ Len(s) \in Nat
         /\ Posted(s) \in Seq(Message) /\ Len(Posted(s)) = Len(s) - 1
         /\ \A i \in 1..(Len(s) - 1) : Posted(s)[i] = IF i < k THEN s[i] ELSE s[i + 1]
<1>1. k \in 1..Len(s) /\ Len(s) \in Nat
  BY LenProperties DEF ReplyAt
<1>2. (CHOOSE i \in ReplyAt(s) : TRUE) = k
  BY DEF OneReply
<1> DEFINE a == SubSeq(s, 1, k - 1)
           b == SubSeq(s, k + 1, Len(s))
<1>3. Posted(s) = a \o b
  BY <1>2 DEF Posted
<1>4. \A i \in 1..Len(s) : i # k => s[i] \in Message
  <2> SUFFICES ASSUME NEW i \in 1..Len(s), i # k PROVE s[i] \in Message
    OBVIOUS
  <2>1. i \notin ReplyAt(s)
    BY DEF OneReply
  <2> QED
    BY <2>1, ElementOfSeq, SplitMessage DEF ReplyAt
<1>5. \A i \in 1..(k - 1) : s[i] \in Message
  BY <1>1, <1>4
<1>6. \A i \in (k + 1)..Len(s) : s[i] \in Message
  BY <1>1, <1>4
<1>7. /\ a \in Seq(Message) /\ Len(a) = k - 1 /\ \A i \in 1..(k - 1) : a[i] = s[i]
  BY <1>1, <1>5, SubSeqProperties
<1>8. /\ b \in Seq(Message) /\ Len(b) = Len(s) - k
      /\ \A i \in 1..(Len(s) - k) : b[i] = s[k + i]
  BY <1>1, <1>6, SubSeqProperties
<1> HIDE DEF a, b
<1>9. /\ a \o b \in Seq(Message) /\ Len(a \o b) = Len(a) + Len(b)
      /\ \A i \in 1..Len(a) + Len(b) : (a \o b)[i] = IF i <= Len(a) THEN a[i] ELSE b[i - Len(a)]
  BY <1>7, <1>8, ConcatProperties
<1>10. \A i \in 1..(Len(s) - 1) : (a \o b)[i] = IF i < k THEN s[i] ELSE s[i + 1]
  <2> SUFFICES ASSUME NEW i \in 1..(Len(s) - 1)
               PROVE  (a \o b)[i] = IF i < k THEN s[i] ELSE s[i + 1]
    OBVIOUS
  <2>1. CASE i < k
    BY <1>1, <1>7, <1>8, <1>9, <2>1
  <2>2. CASE i >= k
    <3>1. (a \o b)[i] = b[i - Len(a)] /\ i - Len(a) \in 1..(Len(s) - k)
      BY <1>1, <1>7, <1>8, <1>9, <2>2
    <3>2. b[i - Len(a)] = s[k + (i - Len(a))] /\ k + (i - Len(a)) = i + 1
      BY <1>1, <1>7, <1>8, <3>1
    <3> QED
      BY <1>1, <2>2, <3>1, <3>2
  <2>3. i < k \/ i >= k
    BY <1>1
  <2> QED
    BY <2>1, <2>2, <2>3
<1> QED
  BY <1>1, <1>3, <1>7, <1>8, <1>9, <1>10

LEMMA PostedType ==
  ASSUME NEW s \in Seq(Message \cup Reply), OneReply(s)
  PROVE  Posted(s) \in Seq(Message)
<1>1. CASE ReplyAt(s) = {}
  BY <1>1, PostedNone DEF NoReplyIn, ReplyAt
<1>2. CASE ReplyAt(s) # {}
  BY <1>2, PostedOne
<1> QED
  BY <1>1, <1>2

\* A reply joins the messages: pcie_net_send_reply.
LEMMA PostedReply ==
  ASSUME NEW s \in Seq(Message \cup Reply), NEW r \in Reply, NoReplyIn(s)
  PROVE  OneReply(Append(s, r)) /\ Posted(Append(s, r)) = Posted(s)
<1> DEFINE t == Append(s, r)
<1>1. /\ t \in Seq(Message \cup Reply) /\ Len(s) \in Nat /\ Len(t) = Len(s) + 1
      /\ \A i \in 1..Len(s) : t[i] = s[i]
      /\ t[Len(s) + 1] = r
  BY AppendFacts
<1>2. r.op = "REPLY"
  BY DEF Reply
<1> HIDE DEF t
<1>3. ReplyAt(t) = {Len(s) + 1}
  BY <1>1, <1>2 DEF ReplyAt, NoReplyIn
<1>4. OneReply(t)
  BY <1>3 DEF OneReply
<1>5. /\ Posted(t) \in Seq(Message) /\ Len(Posted(t)) = Len(t) - 1
      /\ \A i \in 1..(Len(t) - 1) : Posted(t)[i] = IF i < Len(s) + 1 THEN t[i] ELSE t[i + 1]
  BY <1>1, <1>3, <1>4, PostedOne
<1>6. Len(Posted(t)) = Len(s) /\ \A i \in 1..Len(Posted(t)) : Posted(t)[i] = s[i]
  BY <1>1, <1>5
<1>7. Posted(s) = s /\ s \in Seq(Message)
  BY PostedNone
<1>8. Posted(t) = s
  BY <1>5, <1>6, <1>7, SeqEqual
<1> QED
  BY <1>4, <1>7, <1>8 DEF t

\* A message goes behind the others: pcie_net_send_msg.
LEMMA PostedMessage ==
  ASSUME NEW s \in Seq(Message \cup Reply), NEW m \in Message, OneReply(s)
  PROVE  OneReply(Append(s, m)) /\ Posted(Append(s, m)) = Append(Posted(s), m)
<1> DEFINE t == Append(s, m)
<1>1. /\ t \in Seq(Message \cup Reply) /\ Len(s) \in Nat /\ Len(t) = Len(s) + 1
      /\ \A i \in 1..Len(s) : t[i] = s[i]
      /\ t[Len(s) + 1] = m
  BY AppendFacts
<1>2. m.op # "REPLY"
  BY MessageOp
<1>t. t = Append(s, m)
  OBVIOUS
<1> HIDE DEF t
<1>3. ReplyAt(t) = ReplyAt(s)
  BY <1>1, <1>2 DEF ReplyAt
<1>4. OneReply(t)
  BY <1>3 DEF OneReply
<1>5. CASE ReplyAt(s) = {}
  BY <1>t, <1>3, <1>4, <1>5 DEF Posted
<1>6. CASE ReplyAt(s) # {}
  <2>1. PICK k : k \in ReplyAt(s)
    BY <1>6
  <2>2. /\ k \in 1..Len(s)
        /\ Posted(s) \in Seq(Message) /\ Len(Posted(s)) = Len(s) - 1
        /\ \A i \in 1..(Len(s) - 1) : Posted(s)[i] = IF i < k THEN s[i] ELSE s[i + 1]
    BY <2>1, PostedOne
  <2>3. /\ Posted(t) \in Seq(Message) /\ Len(Posted(t)) = Len(t) - 1
        /\ \A i \in 1..(Len(t) - 1) : Posted(t)[i] = IF i < k THEN t[i] ELSE t[i + 1]
    BY <1>1, <1>3, <1>4, <2>1, PostedOne
  <2> DEFINE u == Append(Posted(s), m)
  <2>4. /\ u \in Seq(Message) /\ Len(u) = Len(Posted(s)) + 1
        /\ \A i \in 1..Len(Posted(s)) : u[i] = Posted(s)[i]
        /\ u[Len(Posted(s)) + 1] = m
    BY <2>2, AppendFacts
  <2> HIDE DEF u
  <2>5. Len(Posted(t)) = Len(u)
    BY <1>1, <2>2, <2>3, <2>4
  <2>6. \A i \in 1..Len(Posted(t)) : Posted(t)[i] = u[i]
    <3> SUFFICES ASSUME NEW i \in 1..Len(Posted(t)) PROVE Posted(t)[i] = u[i]
      OBVIOUS
    <3>1. CASE i <= Len(s) - 1
      <4>1. i \in 1..(Len(s) - 1) /\ i \in 1..Len(s) /\ i + 1 \in 1..Len(s) /\ i \in 1..(Len(t) - 1)
            /\ i \in 1..Len(Posted(s))
        BY <1>1, <2>2, <2>3, <3>1
      <4>2. t[i] = s[i] /\ t[i + 1] = s[i + 1]
        BY <1>1, <4>1
      <4> QED
        BY <2>2, <2>3, <2>4, <4>1, <4>2
    <3>2. CASE i = Len(s)
      <4>1. i \in 1..(Len(t) - 1) /\ ~(i < k) /\ u[i] = m
        BY <1>1, <2>2, <2>3, <2>4, <3>2
      <4> QED
        BY <1>1, <2>3, <3>2, <4>1
    <3> QED
      BY <1>1, <2>3, <3>1, <3>2
  <2>7. Posted(t) = u
    BY <2>3, <2>4, <2>5, <2>6, SeqEqual
  <2> QED
    BY <1>4, <2>7 DEF u, t
<1> QED
  BY <1>5, <1>6

\* The reply is taken out: RecvReply.
LEMMA PostedPopReply ==
  ASSUME NEW s \in Seq(Message \cup Reply), s # <<>>, Head(s).op = "REPLY", OneReply(s)
  PROVE  NoReplyIn(Tail(s)) /\ Posted(Tail(s)) = Posted(s)
<1>1. /\ Head(s) = s[1] /\ Len(s) \in Nat /\ Len(s) >= 1
      /\ Tail(s) \in Seq(Message \cup Reply) /\ Len(Tail(s)) = Len(s) - 1
      /\ \A i \in 1..Len(Tail(s)) : Tail(s)[i] = s[i + 1] /\ i + 1 \in 1..Len(s)
  BY TailFacts
<1>2. 1 \in ReplyAt(s)
  BY <1>1 DEF ReplyAt
<1>3. NoReplyIn(Tail(s))
  <2> SUFFICES ASSUME NEW i \in 1..Len(Tail(s)), Tail(s)[i].op = "REPLY" PROVE FALSE
    BY DEF NoReplyIn
  <2>1. i + 1 \in ReplyAt(s)
    BY <1>1 DEF ReplyAt
  <2> QED
    BY <1>2, <2>1 DEF OneReply
<1>4. /\ Posted(s) \in Seq(Message) /\ Len(Posted(s)) = Len(s) - 1
      /\ \A i \in 1..(Len(s) - 1) : Posted(s)[i] = IF i < 1 THEN s[i] ELSE s[i + 1]
  BY <1>2, PostedOne
<1>5. Posted(Tail(s)) = Tail(s) /\ Tail(s) \in Seq(Message)
  BY <1>1, <1>3, PostedNone
<1>6. \A i \in 1..Len(Tail(s)) : Tail(s)[i] = Posted(s)[i]
  BY <1>1, <1>4
<1>7. Tail(s) = Posted(s)
  BY <1>1, <1>4, <1>5, <1>6, SeqEqual
<1> QED
  BY <1>3, <1>5, <1>7

\* The first message is taken out: RecvReply and OnRead.
LEMMA PostedPopMessage ==
  ASSUME NEW s \in Seq(Message \cup Reply), s # <<>>, Head(s).op # "REPLY", OneReply(s)
  PROVE  /\ OneReply(Tail(s)) /\ Posted(s) # <<>> /\ Posted(s) \in Seq(Message)
         /\ Head(s) = Head(Posted(s)) /\ Posted(Tail(s)) = Tail(Posted(s))
<1>1. /\ Head(s) = s[1] /\ Len(s) \in Nat /\ Len(s) >= 1
      /\ Tail(s) \in Seq(Message \cup Reply) /\ Len(Tail(s)) = Len(s) - 1
      /\ \A i \in 1..Len(Tail(s)) : Tail(s)[i] = s[i + 1] /\ i + 1 \in 1..Len(s)
  BY TailFacts
<1>2. \A i \in ReplyAt(Tail(s)) : i + 1 \in ReplyAt(s) /\ i \in Nat
  BY <1>1 DEF ReplyAt
<1>3. OneReply(Tail(s))
  <2> SUFFICES ASSUME NEW i \in ReplyAt(Tail(s)), NEW j \in ReplyAt(Tail(s)) PROVE i = j
    BY DEF OneReply
  <2>1. i + 1 = j + 1 /\ i \in Nat /\ j \in Nat
    BY <1>2 DEF OneReply
  <2> QED
    BY <2>1
<1>4. CASE ReplyAt(s) = {}
  <2>1. ReplyAt(Tail(s)) = {}
    BY <1>2, <1>4
  <2>2. Posted(s) \in Seq(Message)
    BY PostedType
  <2> QED
    BY <1>3, <1>4, <2>1, <2>2 DEF Posted
<1>5. CASE ReplyAt(s) # {}
  <2>1. PICK k : k \in ReplyAt(s)
    BY <1>5
  <2>2. /\ k \in 1..Len(s) /\ k # 1
        /\ Posted(s) \in Seq(Message) /\ Len(Posted(s)) = Len(s) - 1
        /\ \A i \in 1..(Len(s) - 1) : Posted(s)[i] = IF i < k THEN s[i] ELSE s[i + 1]
    BY <1>1, <2>1, PostedOne DEF ReplyAt
  <2>3. k - 1 \in ReplyAt(Tail(s))
    <3>1. k - 1 \in 1..Len(Tail(s)) /\ (k - 1) + 1 = k
      BY <1>1, <2>2
    <3>2. Tail(s)[k - 1] = s[k]
      BY <1>1, <3>1
    <3> QED
      BY <2>1, <3>1, <3>2 DEF ReplyAt
  <2>4. /\ Posted(Tail(s)) \in Seq(Message) /\ Len(Posted(Tail(s))) = Len(Tail(s)) - 1
        /\ \A i \in 1..(Len(Tail(s)) - 1) :
             Posted(Tail(s))[i] = IF i < k - 1 THEN Tail(s)[i] ELSE Tail(s)[i + 1]
    BY <1>1, <1>3, <2>3, PostedOne
  <2>5. Len(Posted(s)) >= 1 /\ Posted(s)[1] = s[1]
    BY <1>1, <2>2
  <2>6. Posted(s) # <<>>
    BY <2>5, EmptySeq
  <2>7. /\ Head(Posted(s)) = Posted(s)[1]
        /\ Tail(Posted(s)) \in Seq(Message) /\ Len(Tail(Posted(s))) = Len(Posted(s)) - 1
        /\ \A i \in 1..Len(Tail(Posted(s))) : Tail(Posted(s))[i] = Posted(s)[i + 1]
    BY <2>2, <2>6, TailFacts
  <2>8. \A i \in 1..Len(Posted(Tail(s))) : Posted(Tail(s))[i] = Tail(Posted(s))[i]
    <3> SUFFICES ASSUME NEW i \in 1..Len(Posted(Tail(s)))
                 PROVE  Posted(Tail(s))[i] = Tail(Posted(s))[i]
      OBVIOUS
    <3>1. /\ i \in 1..(Len(Tail(s)) - 1) /\ i \in 1..Len(Tail(s)) /\ i + 1 \in 1..Len(Tail(s))
          /\ i \in 1..Len(Tail(Posted(s))) /\ i + 1 \in 1..(Len(s) - 1)
      BY <1>1, <2>2, <2>4, <2>7
    <3>2. Tail(s)[i] = s[i + 1] /\ Tail(s)[i + 1] = s[(i + 1) + 1]
      BY <1>1, <3>1
    <3>3. Tail(Posted(s))[i] = IF i + 1 < k THEN s[i + 1] ELSE s[(i + 1) + 1]
      BY <2>2, <2>7, <3>1
    <3>4. (i < k - 1) <=> (i + 1 < k)
      BY <2>2, <3>1
    <3> QED
      BY <2>4, <3>1, <3>2, <3>3, <3>4
  <2>9. Len(Posted(Tail(s))) = Len(Tail(Posted(s)))
    BY <1>1, <2>2, <2>4, <2>7
  <2>10. Posted(Tail(s)) = Tail(Posted(s))
    BY <2>4, <2>7, <2>8, <2>9, SeqEqual
  <2> QED
    BY <1>1, <1>3, <2>2, <2>5, <2>6, <2>7, <2>10
<1> QED
  BY <1>4, <1>5

----------------------------------------------------------------------------
(* Threads and the host's socket *)

Control == ThreadInv /\ HostInv

LEMMA ControlFrame ==
  ASSUME Control, UNCHANGED <<iopc, gpc, state, tx_fifo, pipe, batch, keys, must_stop,
                              conn, listening, hpc, hsock, hreq>>
  PROVE  Control'
  BY DEF Control, ThreadInv, HostInv

LEMMA HostThread ==
  ASSUME ThreadInv, HostNext, UNCHANGED glueVars
  PROVE  ThreadInv'
<1>1. conn' = "up" => conn = "up"
  BY DEF HostNext, HostProbe, HostCall, HostIssue, RecvReply, RecvReplyError, OnRead,
         OnReadError, HostExit, CloseHostEnd, linkVars
<1> QED
  BY <1>1 DEF ThreadInv, glueVars, sharedVars, ioVars, simVars

LEMMA HostHost ==
  ASSUME IInv, HostInv, HostNext, UNCHANGED glueVars
  PROVE  HostInv'
<1>0. UNCHANGED <<iopc, listening>>
  BY DEF glueVars, ioVars
<1>1. ASSUME NEW m \in Request, Forward(m), hpc = "idle", hsock, UNCHANGED hsock
      PROVE  HostInv'
  BY <1>0, <1>1, NullAssumption DEF HostInv, Forward
<1>2. CASE HostProbe
  BY <1>1, <1>2, ProbeReqType DEF HostProbe
<1>3. CASE \E m \in GuestCalls : HostCall(m)
  BY <1>0, <1>3 DEF HostCall, HostInv
<1>4. CASE HostIssue
  BY <1>1, <1>4 DEF HostIssue, IInv, TypeOK, HostTypeOK
<1>5. CASE RecvReply \/ RecvReplyError
  BY <1>0, <1>5 DEF RecvReply, RecvReplyError, HostInv
<1>6. CASE OnRead
  BY <1>0, <1>6 DEF OnRead, HostInv
<1>7. CASE OnReadError
  <2>1. iopc \in {"accept", "done", "dead"}
    BY <1>7 DEF OnReadError, IInv, TokenInv
  <2> QED
    BY <1>0, <1>7, <2>1 DEF OnReadError, HandlerRuns, HostInv
<1>8. CASE HostExit
  BY <1>0, <1>8 DEF HostExit, HostInv
<1> QED
  BY <1>2, <1>3, <1>4, <1>5, <1>6, <1>7, <1>8 DEF HostNext

LEMMA IoThread ==
  ASSUME TypeOK, ThreadInv, IoNext
  PROVE  ThreadInv'
<1> USE DEF ThreadInv, sharedVars, simVars, linkVars
<1>1. CASE IoStart \/ IoEnter
  BY <1>1 DEF IoStart, IoEnter
<1>2. CASE IoSelect \/ IoRecvNothing
  BY <1>2 DEF IoSelect, IoRecvNothing
<1>3. CASE IoRecvRead \/ IoRecvBarRead
  BY <1>3 DEF IoRecvRead, IoRecvBarRead, RecvRequest
<1>4. CASE IoRecvWrite \/ IoRecvBarWrite
  BY <1>4 DEF IoRecvWrite, IoRecvBarWrite, RecvRequest
<1>5. CASE IoWait
  BY <1>5 DEF IoWait
<1>6. CASE IoReply
  BY <1>6 DEF IoReply
<1>7. CASE IoEvent
  <2>1. pipe = <<>> => pipe' = <<>>
    BY <1>7, EmptySeq, EvBufAssumption DEF IoEvent
  <2> QED
    BY <1>7, <2>1 DEF IoEvent
<1>8. CASE IoKey
  BY <1>8 DEF IoKey
<1>9. CASE IoBatch
  BY <1>9 DEF IoBatch
<1>10. CASE IoEndLoop
  BY <1>10 DEF IoEndLoop
<1>11. CASE IoFiniServer
  BY <1>11 DEF IoFiniServer
<1>12. CASE IoFini
  BY <1>12 DEF IoFini, CloseDeviceEnd
<1> QED
  BY <1>1, <1>2, <1>3, <1>4, <1>5, <1>6, <1>7, <1>8, <1>9, <1>10, <1>11, <1>12
     DEF IoNext

LEMMA IoHost ==
  ASSUME HostInv, IoNext, UNCHANGED hostVars
  PROVE  HostInv'
<1>1. iopc # "accept" /\ iopc \notin {"done", "dead"} /\ iopc' # "dead"
  BY DEF IoNext, IoStart, IoEnter, IoSelect, IoRecvNothing, IoRecvRead, IoRecvBarRead,
         IoRecvWrite, IoRecvBarWrite, RecvRequest, IoWait, IoReply, IoEvent, IoKey, IoBatch,
         IoEndLoop, IoFiniServer, IoFini
<1>2. \/ listening' = listening /\ (iopc' \in {"shut", "done"} => iopc = "shut")
      \/ listening' = FALSE
  BY DEF IoNext, IoStart, IoEnter, IoSelect, IoRecvNothing, IoRecvRead, IoRecvBarRead,
         IoRecvWrite, IoRecvBarWrite, RecvRequest, IoWait, IoReply, IoEvent, IoKey, IoBatch,
         IoEndLoop, IoFiniServer, IoFini
<1> QED
  BY <1>1, <1>2 DEF HostInv, hostVars

LEMMA SimControl ==
  ASSUME TypeOK, Control, SimNext, UNCHANGED hostVars
  PROVE  Control'
<1> USE DEF Control, ThreadInv, HostInv, sharedVars, ioVars, linkVars, hostVars, simRest
<1>1. CASE GhdlMain \/ GhdlEnd
  BY <1>1 DEF GhdlMain, GhdlEnd
<1>2. CASE EdgeMsi \/ EdgeMwr
  BY <1>2 DEF EdgeMsi, EdgeMwr, PushTx
<1>3. CASE WriteEvent \/ WriteQuit
  BY <1>3 DEF WriteEvent, WriteQuit
<1>4. CASE EdgeReply \/ ReplyDone
  BY <1>4 DEF EdgeReply, ReplyDone
<1>5. CASE PollRxFifo
  BY <1>5 DEF PollRxFifo, InputsDone
<1>6. CASE Join
  BY <1>6 DEF Join, MemReset
<1> QED
  BY <1>1, <1>2, <1>3, <1>4, <1>5, <1>6 DEF SimNext

LEMMA EdgeControl ==
  ASSUME Control, UserLogic
  PROVE  Control'
<1>1. gpc = "clk" /\ gpc' = "edge" /\ UNCHANGED <<sharedVars, ioVars, linkVars, hostVars>>
  BY DEF UserLogic, EdgeQuiet, EdgeAnswer, EdgeEmit, Edge, ClockEdge
<1> QED
  BY <1>1 DEF Control, ThreadInv, HostInv, sharedVars, ioVars, linkVars, hostVars

LEMMA InitControl == Init => Control
  BY NullAssumption DEF Init, HostInit, GlueInit, MemInit, Control, ThreadInv, HostInv

LEMMA NextControl ==
  ASSUME IInv, Control, [Next]_vars
  PROVE  Control'
<1>1. CASE HostNext /\ UNCHANGED <<glueVars, devVars, lives>>
  BY <1>1, HostThread, HostHost DEF Control
<1>2. CASE IoNext /\ UNCHANGED <<hostVars, devVars, lives>>
  BY <1>2, IoThread, IoHost DEF Control, IInv
<1>3. CASE SimNext /\ UNCHANGED <<hostVars, devVars, lives>>
  BY <1>3, SimControl DEF IInv
<1>4. CASE UserLogic
  BY <1>4, EdgeControl
<1>5. CASE Connect
  BY <1>5 DEF Connect, HostConnect, ConnectNow, OpenConn, IoAccept, Control, ThreadInv,
              HostInv, sharedVars
<1>6. CASE ConnectRefused
  BY <1>6 DEF ConnectRefused, HostConnectFail, ConnectNow, Control, ThreadInv, HostInv,
              glueVars, sharedVars, ioVars, simVars, linkVars
<1>7. CASE Kill
  BY <1>7 DEF Kill, Running, CloseDeviceEnd, MemReset, Control, ThreadInv, HostInv, hostVars
<1>8. CASE Restart
  <2>1. iopc \in {"done", "dead"}
    BY <1>8 DEF Restart, Running, IInv, NodeInv
  <2> QED
    BY <1>8, <2>1 DEF Restart, Running, Control, ThreadInv, HostInv, linkVars, hostVars
<1>9. CASE UNCHANGED vars
  BY <1>9, ControlFrame DEF vars, glueVars, sharedVars, ioVars, simVars, linkVars, hostVars
<1> QED
  BY <1>1, <1>2, <1>3, <1>4, <1>5, <1>6, <1>7, <1>8, <1>9 DEF Next
----------------------------------------------------------------------------
(* The events: evk_quit comes last, and no wake-up is lost *)

Events == QuitInv /\ WakeUpPending

LEMMA ElemsTail ==
  ASSUME NEW S, NEW s \in Seq(S), s # <<>>
  PROVE  Elems(s) = {Head(s)} \cup Elems(Tail(s))
<1>1. /\ Head(s) = s[1] /\ Len(s) \in Nat /\ Len(s) >= 1 /\ Len(Tail(s)) = Len(s) - 1
      /\ \A i \in 1..Len(Tail(s)) : Tail(s)[i] = s[i + 1] /\ i + 1 \in 1..Len(s)
  BY TailFacts
<1>2. \A i \in 1..Len(s) : s[i] = Head(s) \/ (i - 1 \in 1..Len(Tail(s)) /\ s[i] = Tail(s)[i - 1])
  BY <1>1
<1>3. \A x \in Elems(s) : x \in {Head(s)} \cup Elems(Tail(s))
  BY <1>2 DEF Elems
<1>4. Head(s) \in Elems(s) /\ \A x \in Elems(Tail(s)) : x \in Elems(s)
  BY <1>1 DEF Elems
<1> QED
  BY <1>3, <1>4

LEMMA ElemsAppend ==
  ASSUME NEW S, NEW s \in Seq(S), NEW e \in S
  PROVE  Elems(Append(s, e)) = Elems(s) \cup {e}
  BY AppendFacts DEF Elems

\* IoEvent hands the events over.
LEMMA EventMoves ==
  ASSUME TypeOK, IoEvent
  PROVE  \E n \in 0..Len(pipe) :
           keys' = SubSeq(pipe, 1, n) /\ pipe' = SubSeq(pipe, n + 1, Len(pipe))
<1> DEFINE n == IF "ev" \notin rfds THEN 0
                ELSE IF Len(pipe) < EvBuf THEN Len(pipe) ELSE EvBuf
<1>1. keys' = SubSeq(pipe, 1, n) /\ pipe' = SubSeq(pipe, n + 1, Len(pipe))
  BY DEF IoEvent
<1>2. n \in 0..Len(pipe)
  <2>1. Len(pipe) \in Nat
    BY LenProperties DEF TypeOK, SharedTypeOK
  <2> QED
    BY <2>1, EvBufAssumption
<1> QED
  BY <1>1, <1>2

LEMMA IoEventEvents ==
  ASSUME TypeOK, ThreadInv, Events, IoEvent
  PROVE  Events'
<1>1. /\ iopc = "event" /\ iopc' = "keys"
      /\ UNCHANGED <<tx_fifo, must_stop, gpc, conn>>
  BY DEF IoEvent, simVars, linkVars
<1>2. keys = <<>> /\ pipe \in Seq({"push", "quit"})
  BY <1>1 DEF ThreadInv, TypeOK, SharedTypeOK
<1>3. PICK n \in 0..Len(pipe) :
        keys' = SubSeq(pipe, 1, n) /\ pipe' = SubSeq(pipe, n + 1, Len(pipe))
  BY EventMoves
<1>4. /\ Len(pipe) \in Nat /\ n \in Nat
      /\ keys' \in Seq({"push", "quit"}) /\ Len(keys') = n
      /\ \A i \in 1..n : keys'[i] = pipe[i]
      /\ pipe' \in Seq({"push", "quit"}) /\ Len(pipe') = Len(pipe) - n
      /\ \A i \in 1..(Len(pipe) - n) : pipe'[i] = pipe[n + i]
  BY <1>2, <1>3, SplitFacts, LenProperties
<1>5. \A i \in 1..Len(pipe) : pipe[i] = "quit" => i = Len(pipe) /\ gpc = "join"
  BY DEF Events, QuitInv
<1>6. \A i \in 1..Len(pipe') : pipe'[i] = "quit" => i = Len(pipe') /\ gpc' = "join"
  BY <1>1, <1>4, <1>5
<1>7. \A i \in 1..Len(keys') : keys'[i] = "quit" =>
        i = Len(keys') /\ pipe' = <<>> /\ gpc' = "join"
  <2> SUFFICES ASSUME NEW i \in 1..Len(keys'), keys'[i] = "quit"
               PROVE  i = Len(keys') /\ pipe' = <<>> /\ gpc' = "join"
    OBVIOUS
  <2>1. i \in 1..Len(pipe) /\ pipe[i] = "quit"
    BY <1>4
  <2>2. i = Len(pipe) /\ gpc = "join"
    BY <1>5, <2>1
  <2>3. Len(pipe') = 0 /\ i = Len(keys')
    BY <1>4, <2>2
  <2> QED
    BY <1>1, <1>4, <2>2, <2>3, EmptySeq
<1>8. must_stop' /\ conn' = "up" => keys' = <<>> /\ pipe' = <<>> /\ gpc' = "join"
  <2>1. ASSUME must_stop', conn' = "up" PROVE pipe = <<>> /\ gpc = "join"
    BY <1>1, <2>1 DEF Events, QuitInv
  <2>2. ASSUME pipe = <<>> PROVE keys' = <<>> /\ pipe' = <<>>
    <3>1. Len(keys') = 0 /\ Len(pipe') = 0
      BY <1>4, <2>2, EmptySeq
    <3> QED
      BY <1>4, <3>1, EmptySeq
  <2> QED
    BY <1>1, <2>1, <2>2
<1>9. QuitInv'
  BY <1>1, <1>6, <1>7, <1>8 DEF QuitInv
<1>10. "push" \in Elems(pipe) => "push" \in Elems(keys') \/ "push" \in Elems(pipe')
  <2> SUFFICES ASSUME NEW i \in 1..Len(pipe), pipe[i] = "push"
               PROVE  "push" \in Elems(keys') \/ "push" \in Elems(pipe')
    BY DEF Elems
  <2>1. CASE i <= n
    BY <1>4, <2>1 DEF Elems
  <2>2. CASE i > n
    <3>1. i - n \in 1..Len(pipe') /\ pipe'[i - n] = pipe[n + (i - n)] /\ n + (i - n) = i
      BY <1>4, <2>2
    <3> QED
      BY <3>1 DEF Elems
  <2> QED
    BY <1>4, <2>1, <2>2
<1>11. "push" \notin Elems(keys)
  BY <1>2, EmptySeq DEF Elems
<1>12. WakeUpPending'
  BY <1>1, <1>10, <1>11 DEF Events, WakeUpPending, Running, Elems
<1> QED
  BY <1>9, <1>12 DEF Events

LEMMA IoKeyEvents ==
  ASSUME TypeOK, Events, IoKey
  PROVE  Events'
<1>1. /\ iopc = "keys" /\ iopc' \in {"keys", "batch"} /\ keys # <<>> /\ keys' = Tail(keys)
      /\ UNCHANGED <<pipe, gpc, conn>> /\ keys \in Seq({"push", "quit"})
  BY DEF IoKey, simVars, linkVars, TypeOK, IoTypeOK
<1>2. /\ Head(keys) = keys[1] /\ Len(keys) \in Nat /\ Len(keys) >= 1
      /\ keys' \in Seq({"push", "quit"}) /\ Len(keys') = Len(keys) - 1
      /\ \A i \in 1..Len(keys') : keys'[i] = keys[i + 1] /\ i + 1 \in 1..Len(keys)
  BY <1>1, TailFacts
<1>3. \A i \in 1..Len(keys) : keys[i] = "quit" =>
        i = Len(keys) /\ pipe = <<>> /\ gpc = "join"
  BY DEF Events, QuitInv
<1>4. CASE Head(keys) = "quit"
  <2>1. Len(keys') = 0 /\ pipe = <<>> /\ gpc = "join"
    BY <1>2, <1>3, <1>4
  <2>2. keys' = <<>>
    BY <1>2, <2>1, EmptySeq
  <2>3. QuitInv'
    BY <1>1, <2>1, <2>2, EmptySeq DEF Events, QuitInv
  <2>4. UNCHANGED <<tx_fifo, iopc>>
    BY <1>4 DEF IoKey
  <2>5. Elems(keys) = {"quit"} \cup Elems(keys')
    BY <1>1, <1>4, ElemsTail
  <2>6. WakeUpPending'
    BY <1>1, <2>4, <2>5 DEF Events, WakeUpPending, Running, Elems
  <2> QED
    BY <2>3, <2>6 DEF Events
<1>5. CASE Head(keys) # "quit"
  <2>1. tx_fifo' = <<>> /\ UNCHANGED must_stop
    BY <1>5 DEF IoKey
  <2>2. ~(must_stop /\ conn = "up")
    BY <1>1 DEF Events, QuitInv
  <2>3. \A i \in 1..Len(keys') : keys'[i] = "quit" =>
          i = Len(keys') /\ pipe = <<>> /\ gpc = "join"
    BY <1>2, <1>3
  <2>4. QuitInv'
    BY <1>1, <2>1, <2>2, <2>3 DEF Events, QuitInv
  <2> QED
    BY <2>1, <2>4 DEF Events, WakeUpPending
<1> QED
  BY <1>4, <1>5

\* The other steps of the io thread leave the pipe and the events alone.
LEMMA IoEvents ==
  ASSUME TypeOK, ThreadInv, Events, IoNext
  PROVE  Events'
<1>1. ASSUME UNCHANGED <<pipe, keys, gpc, conn, tx_fifo>>,
             iopc \notin {"accept", "start", "done"},
             must_stop' /\ conn = "up" => must_stop,
             iopc' = "recv" /\ "fd" \in rfds' /\ conn = "up" => h2d' # <<>>
      PROVE  Events'
  BY <1>1 DEF Events, QuitInv, WakeUpPending, Running, Elems
<1>2. CASE IoStart
  <2>1. tx_fifo' = <<>>
    BY <1>2 DEF IoStart, ThreadInv
  <2> QED
    BY <1>2, <2>1 DEF IoStart, simVars, linkVars, Events, QuitInv, WakeUpPending
<1>3. CASE IoEnter
  BY <1>1, <1>3 DEF IoEnter, sharedVars, simVars, linkVars
<1>4. CASE IoSelect
  <2>1. "fd" \in rfds' => h2d # <<>> \/ conn = "eof_d"
    BY <1>4 DEF IoSelect, Readable
  <2> QED
    BY <1>1, <1>4, <2>1 DEF IoSelect, sharedVars, simVars, linkVars
<1>5. CASE IoRecvNothing
  <2>1. must_stop' => conn # "up"
    BY <1>5 DEF IoRecvNothing, Events, QuitInv
  <2> QED
    BY <1>1, <1>5, <2>1 DEF IoRecvNothing, sharedVars, simVars, linkVars
<1>6. CASE IoRecvRead \/ IoRecvWrite
  BY <1>1, <1>6 DEF IoRecvRead, IoRecvWrite, RecvRequest, simVars
<1>7. CASE IoRecvBarRead \/ IoRecvBarWrite
  BY <1>1, <1>7 DEF IoRecvBarRead, IoRecvBarWrite, RecvRequest, simVars
<1>8. CASE IoWait
  BY <1>1, <1>8 DEF IoWait, simVars, linkVars
<1>9. CASE IoReply
  BY <1>1, <1>9 DEF IoReply, sharedVars, simVars
<1>10. CASE IoEvent
  BY <1>10, IoEventEvents
<1>11. CASE IoKey
  BY <1>11, IoKeyEvents
<1>12. CASE IoBatch
  BY <1>1, <1>12 DEF IoBatch, sharedVars, simVars
<1>13. CASE IoEndLoop
  BY <1>1, <1>13 DEF IoEndLoop, sharedVars, simVars, linkVars
<1>14. CASE IoFiniServer
  BY <1>1, <1>14 DEF IoFiniServer, sharedVars, simVars, linkVars
<1>15. CASE IoFini
  <2>1. conn' # "up" /\ tx_fifo' = <<>> /\ UNCHANGED <<pipe, keys, gpc>> /\ iopc' = "done"
    BY <1>15 DEF IoFini, CloseDeviceEnd, simVars
  <2> QED
    BY <2>1 DEF Events, QuitInv, WakeUpPending
<1> QED
  BY <1>2, <1>3, <1>4, <1>5, <1>6, <1>7, <1>8, <1>9, <1>10, <1>11, <1>12, <1>13, <1>14,
     <1>15 DEF IoNext

LEMMA HostEvents ==
  ASSUME TypeOK, Events, HostNext, UNCHANGED glueVars
  PROVE  Events'
<1>1. UNCHANGED <<pipe, keys, gpc, must_stop, iopc, rfds, tx_fifo>>
  BY DEF glueVars, sharedVars, ioVars, simVars
<1>2. ASSUME NEW m, Forward(m), conn = "up", h2d # <<>>
      PROVE  h2d' # <<>>
  BY <1>2, AppendProperties DEF Forward, SendToDevice, TypeOK, LinkTypeOK
<1>3. conn' = "up" => conn = "up" /\ (h2d # <<>> => h2d' # <<>>)
  BY <1>2 DEF HostNext, HostProbe, HostCall, HostIssue, RecvReply, RecvReplyError, OnRead,
              OnReadError, HostExit, CloseHostEnd, linkVars
<1> QED
  BY <1>1, <1>3 DEF Events, QuitInv, WakeUpPending, Running, Elems

LEMMA SimEvents ==
  ASSUME TypeOK, ThreadInv, Events, SimNext
  PROVE  Events'
<1>0. pipe \in Seq({"push", "quit"})
  BY DEF TypeOK, SharedTypeOK
<1>1. ASSUME UNCHANGED <<pipe, keys, iopc, must_stop, rfds, h2d, conn>>, gpc # "join",
             \/ gpc' = "ev"
             \/ gpc # "ev" /\ (UNCHANGED tx_fifo) /\ (gpc = "spawn" => tx_fifo = <<>>)
                /\ gpc # "exit"
      PROVE  Events'
  BY <1>1 DEF Events, QuitInv, WakeUpPending, Running, Elems
<1>2. CASE GhdlMain \/ GhdlEnd
  BY <1>1, <1>2 DEF GhdlMain, GhdlEnd, sharedVars, ioVars, linkVars, ThreadInv
<1>3. CASE EdgeMsi \/ EdgeMwr
  BY <1>1, <1>3 DEF EdgeMsi, EdgeMwr, PushTx, ioVars, linkVars
<1>4. CASE EdgeReply \/ ReplyDone
  BY <1>1, <1>4 DEF EdgeReply, ReplyDone, ioVars, linkVars
<1>5. CASE PollRxFifo
  BY <1>1, <1>5 DEF PollRxFifo, InputsDone, ioVars, linkVars
<1>6. CASE WriteEvent
  <2>1. /\ gpc = "ev" /\ gpc' = "edge" /\ pipe' = Append(pipe, "push")
        /\ UNCHANGED <<keys, iopc, must_stop, rfds, h2d, conn>>
    BY <1>6 DEF WriteEvent, ioVars, linkVars
  <2>2. Elems(pipe') = Elems(pipe) \cup {"push"}
    BY <1>0, <2>1, ElemsAppend
  <2>3. /\ Len(pipe) \in Nat /\ Len(pipe') = Len(pipe) + 1
        /\ \A i \in 1..Len(pipe) : pipe'[i] = pipe[i]
        /\ pipe'[Len(pipe) + 1] = "push"
    BY <1>0, <2>1, AppendFacts
  <2>4. \A i \in 1..Len(pipe') : pipe'[i] # "quit"
    BY <2>1, <2>3 DEF Events, QuitInv
  <2>5. QuitInv'
    BY <2>1, <2>4 DEF Events, QuitInv
  <2> QED
    BY <2>2, <2>5 DEF Events, WakeUpPending, Elems
<1>7. CASE WriteQuit
  <2>1. /\ gpc = "quit" /\ gpc' = "join" /\ pipe' = Append(pipe, "quit")
        /\ UNCHANGED <<keys, iopc, must_stop, rfds, h2d, conn, tx_fifo>>
    BY <1>7 DEF WriteQuit, ioVars, linkVars
  <2>2. Elems(pipe') = Elems(pipe) \cup {"quit"}
    BY <1>0, <2>1, ElemsAppend
  <2>3. /\ Len(pipe) \in Nat /\ Len(pipe') = Len(pipe) + 1
        /\ \A i \in 1..Len(pipe) : pipe'[i] = pipe[i]
    BY <1>0, <2>1, AppendFacts
  <2>4. \A i \in 1..Len(pipe') : pipe'[i] = "quit" => i = Len(pipe')
    BY <2>1, <2>3 DEF Events, QuitInv
  <2>5. QuitInv'
    BY <2>1, <2>4 DEF Events, QuitInv
  <2>6. WakeUpPending'
    BY <2>1, <2>2 DEF Events, WakeUpPending, Running, Elems
  <2> QED
    BY <2>5, <2>6 DEF Events
<1>8. CASE Join
  <2>1. pipe' = <<>> /\ keys' = <<>> /\ ~must_stop' /\ gpc' = "exit" /\ iopc' = "done"
    BY <1>8 DEF Join, MemReset
  <2> QED
    BY <2>1, EmptySeq DEF Events, QuitInv, WakeUpPending, Running
<1> QED
  BY <1>2, <1>3, <1>4, <1>5, <1>6, <1>7, <1>8 DEF SimNext

LEMMA InitEvents == Init => Events
<1> SUFFICES ASSUME Init PROVE Events
  OBVIOUS
<1>1. pipe = <<>> /\ keys = <<>> /\ tx_fifo = <<>> /\ ~must_stop /\ iopc = "accept"
  BY DEF Init, GlueInit, MemInit
<1> QED
  BY <1>1, EmptySeq DEF Events, QuitInv, WakeUpPending

LEMMA NextEvents ==
  ASSUME IInv, Control, Events, [Next]_vars
  PROVE  Events'
<1>1. CASE HostNext /\ UNCHANGED <<glueVars, devVars, lives>>
  BY <1>1, HostEvents DEF IInv
<1>2. CASE IoNext /\ UNCHANGED <<hostVars, devVars, lives>>
  BY <1>2, IoEvents DEF IInv, Control
<1>3. CASE SimNext /\ UNCHANGED <<hostVars, devVars, lives>>
  BY <1>3, SimEvents DEF IInv, Control
<1>4. CASE UserLogic
  <2>1. gpc = "clk" /\ gpc' = "edge" /\ UNCHANGED <<sharedVars, ioVars, linkVars>>
    BY <1>4 DEF UserLogic, EdgeQuiet, EdgeAnswer, EdgeEmit, Edge, ClockEdge
  <2> QED
    BY <2>1 DEF Events, QuitInv, WakeUpPending, Running, Elems, sharedVars, ioVars, linkVars
<1>5. CASE Connect
  <2>1. /\ iopc = "accept" /\ iopc' = "start" /\ UNCHANGED <<pipe, keys, gpc, must_stop>>
    BY <1>5 DEF Connect, IoAccept, sharedVars
  <2> QED
    BY <2>1 DEF Control, ThreadInv, Events, QuitInv, WakeUpPending
<1>6. CASE ConnectRefused
  BY <1>6 DEF ConnectRefused, HostConnectFail, Events, QuitInv, WakeUpPending, Running, Elems,
              glueVars, sharedVars, ioVars, simVars, linkVars
<1>7. CASE Kill
  <2>1. pipe' = <<>> /\ keys' = <<>> /\ ~must_stop' /\ gpc' = "exit" /\ iopc' = "dead"
    BY <1>7 DEF Kill, MemReset
  <2> QED
    BY <2>1, EmptySeq DEF Events, QuitInv, WakeUpPending, Running
<1>8. CASE Restart
  <2>1. iopc \in {"done", "dead"} /\ gpc = "exit"
    BY <1>8 DEF Restart, Running, IInv, NodeInv
  <2>2. pipe' = <<>> /\ keys' = <<>> /\ ~must_stop' /\ iopc' = "accept"
    BY <1>8, <2>1 DEF Restart, Control, ThreadInv
  <2> QED
    BY <2>2, EmptySeq DEF Events, QuitInv, WakeUpPending
<1>9. CASE UNCHANGED vars
  BY <1>9 DEF vars, glueVars, sharedVars, ioVars, simVars, linkVars, hostVars, Events, QuitInv,
              WakeUpPending, Running, Elems
<1> QED
  BY <1>1, <1>2, <1>3, <1>4, <1>5, <1>6, <1>7, <1>8, <1>9 DEF Next
----------------------------------------------------------------------------
(* What the device emits: in order, once each *)

Sent == hmem \o Posted(d2h)

LEMMA OneReplyThere == NoStrayReply => OneReply(d2h)
  BY DEF NoStrayReply, OneReply, ReplyAt

LEMMA SentType ==
  ASSUME TypeOK, NoStrayReply
  PROVE  /\ hmem \in Seq(Message) /\ d2h \in Seq(Message \cup Reply)
         /\ Posted(d2h) \in Seq(Message) /\ Sent \in Seq(Message)
         /\ batch \in Seq(Message) /\ tx_fifo \in Seq(Message) /\ emitted \in Seq(Message)
<1>1. /\ hmem \in Seq(Message) /\ d2h \in Seq(Message \cup Reply)
      /\ batch \in Seq(Message) /\ tx_fifo \in Seq(Message) /\ emitted \in Seq(Message)
  BY DEF TypeOK, HostTypeOK, LinkTypeOK, IoTypeOK, SharedTypeOK, SimTypeOK
<1>2. Posted(d2h) \in Seq(Message)
  BY <1>1, OneReplyThere, PostedType
<1> QED
  BY <1>1, <1>2, ConcatProperties DEF Sent

\* A step that sends nothing, takes nothing and emits nothing.
LEMMA OrderFrame ==
  ASSUME OrderInv, Sent' = Sent, UNCHANGED <<batch, tx_fifo, emitted>>,
         conn' \in {"up", "eof_h"} => conn' = conn
  PROVE  OrderInv'
  BY DEF OrderInv, Sent

\* process_msg carries out the message it takes from the socket.
LEMMA TakeMessage ==
  ASSUME TypeOK, NoStrayReply, d2h # <<>>, Head(d2h).op # "REPLY", d2h' = Tail(d2h),
         ProcessMsg(Head(d2h))
  PROVE  Sent' = Sent
<1>1. d2h \in Seq(Message \cup Reply) /\ hmem \in Seq(Message) /\ OneReply(d2h)
  BY SentType, OneReplyThere
<1>2. /\ Posted(d2h) # <<>> /\ Posted(d2h) \in Seq(Message)
      /\ Head(d2h) = Head(Posted(d2h)) /\ Posted(Tail(d2h)) = Tail(Posted(d2h))
  BY <1>1, PostedPopMessage
<1>3. Head(d2h) \in Message
  BY <1>2, TailFacts
<1>4. hmem' = Append(hmem, Head(d2h))
  BY <1>3 DEF ProcessMsg, Message
<1>5. Append(hmem, Head(Posted(d2h))) \o Tail(Posted(d2h)) = hmem \o Posted(d2h)
  BY <1>1, <1>2, MoveHead
<1> QED
  BY <1>2, <1>4, <1>5 DEF Sent

LEMMA HostOrder ==
  ASSUME IInv, OrderInv, HostNext, UNCHANGED glueVars
  PROVE  OrderInv'
<1>0. UNCHANGED <<batch, tx_fifo, emitted>>
  BY DEF glueVars, sharedVars, ioVars, simVars
<1>1. CASE HostProbe \/ HostIssue \/ (\E m \in GuestCalls : HostCall(m)) \/ RecvReplyError
  <2>1. UNCHANGED <<hmem, d2h, conn>>
    BY <1>1 DEF HostProbe, HostIssue, HostCall, RecvReplyError, linkVars
  <2> QED
    BY <1>0, <2>1, OrderFrame DEF Sent
<1>2. CASE RecvReply
  <2>1. d2h # <<>> /\ d2h' = Tail(d2h) /\ conn' = conn
    BY <1>2 DEF RecvReply
  <2>2. Head(d2h) \in Message \cup Reply /\ d2h \in Seq(Message \cup Reply)
    BY <2>1, TailFacts DEF IInv, TypeOK, LinkTypeOK
  <2>3. CASE Head(d2h).op = "REPLY"
    <3>1. hmem' = hmem
      BY <1>2, <2>2, <2>3, ReplyBySize DEF RecvReply
    <3>2. Posted(d2h') = Posted(d2h)
      BY <2>1, <2>2, <2>3, OneReplyThere, PostedPopReply DEF IInv
    <3> QED
      BY <1>0, <2>1, <3>1, <3>2, OrderFrame DEF Sent
  <2>4. CASE Head(d2h).op # "REPLY"
    <3>1. ProcessMsg(Head(d2h))
      BY <1>2, <2>2, <2>4, ReplyBySize DEF RecvReply
    <3> QED
      BY <1>0, <2>1, <2>4, <3>1, TakeMessage, OrderFrame DEF IInv
  <2> QED
    BY <2>3, <2>4
<1>3. CASE OnRead
  <2>1. d2h # <<>> /\ d2h' = Tail(d2h) /\ conn' = conn /\ hpc = "idle" /\ ProcessMsg(Head(d2h))
    BY <1>3 DEF OnRead, HandlerRuns
  <2>2. Head(d2h).op # "REPLY"
    <3>1. Head(d2h) = d2h[1] /\ 1 \in 1..Len(d2h)
      BY <2>1, TailFacts DEF IInv, TypeOK, LinkTypeOK
    <3> QED
      BY <2>1, <3>1 DEF IInv, NoStrayReply
  <2> QED
    BY <1>0, <2>1, <2>2, TakeMessage, OrderFrame DEF IInv
<1>4. CASE OnReadError \/ HostExit
  <2>1. conn' \in {"none", "eof_d"}
    BY <1>4 DEF OnReadError, HostExit, CloseHostEnd, IInv, TypeOK, LinkTypeOK, Conn
  <2> QED
    BY <2>1 DEF OrderInv
<1> QED
  BY <1>1, <1>2, <1>3, <1>4 DEF HostNext

\* When the endpoint's end closes, what has been sent is a prefix, with or
\* without the part in flight.
LEMMA CloseOrder ==
  ASSUME IInv, OrderInv, CloseDeviceEnd, UNCHANGED <<hmem, emitted>>
  PROVE  OrderInv'
<1>1. /\ conn' # "up" /\ (conn' = "eof_h" => conn \in {"up", "eof_h"})
      /\ d2h' \in {d2h, <<>>}
  BY DEF CloseDeviceEnd
<1> SUFFICES ASSUME conn' = "eof_h"
             PROVE  Len(Sent') <= Len(emitted) /\ SubSeq(emitted, 1, Len(Sent')) = Sent'
  BY <1>1 DEF OrderInv, Sent
<1>2. /\ hmem \in Seq(Message) /\ Posted(d2h) \in Seq(Message) /\ Sent \in Seq(Message)
      /\ batch \in Seq(Message) /\ tx_fifo \in Seq(Message) /\ emitted \in Seq(Message)
  BY SentType DEF IInv
<1>3. Len(Sent) <= Len(emitted) /\ SubSeq(emitted, 1, Len(Sent)) = Sent
  <2>1. CASE conn = "up"
    <3>1. batch \o tx_fifo \in Seq(Message)
      BY <1>2, ConcatProperties
    <3>2. (Sent \o batch) \o tx_fifo = Sent \o (batch \o tx_fifo)
      <4>1. Sent \in Seq(Message) /\ batch \in Seq(Message) /\ tx_fifo \in Seq(Message)
        BY <1>2
      <4> QED
        BY <4>1, ConcatAssociative
    <3>3. emitted = Sent \o (batch \o tx_fifo)
      BY <2>1, <3>2 DEF OrderInv, Sent
    <3> QED
      BY <1>2, <3>1, <3>3, PrefixOfConcat
  <2>2. CASE conn = "eof_h"
    BY <2>2 DEF OrderInv, Sent
  <2> QED
    BY <1>1, <2>1, <2>2
<1>4. CASE d2h' = d2h
  BY <1>3, <1>4 DEF Sent
<1>5. CASE d2h' = <<>>
  <2>1. NoReplyIn(<<>>) /\ <<>> \in Seq(Message \cup Reply)
    BY EmptySeq DEF NoReplyIn
  <2>2. Posted(d2h') = <<>>
    BY <1>5, <2>1, PostedNone
  <2>3. Sent' = hmem
    BY <1>2, <2>2, ConcatEmptySeq DEF Sent
  <2> QED
    BY <1>2, <1>3, <2>3, PrefixOfPrefix DEF Sent
<1> QED
  BY <1>1, <1>4, <1>5

LEMMA IoOrder ==
  ASSUME IInv, ThreadInv, OrderInv, IoNext, UNCHANGED hostVars
  PROVE  OrderInv'
<1>0. hmem' = hmem
  BY DEF hostVars
<1>t. /\ hmem \in Seq(Message) /\ d2h \in Seq(Message \cup Reply)
      /\ Posted(d2h) \in Seq(Message) /\ Sent \in Seq(Message)
      /\ batch \in Seq(Message) /\ tx_fifo \in Seq(Message) /\ emitted \in Seq(Message)
      /\ OneReply(d2h)
  BY SentType, OneReplyThere DEF IInv
<1>1. CASE IoStart \/ IoEnter \/ IoSelect \/ IoRecvNothing
  <2>1. UNCHANGED <<d2h, conn, batch, tx_fifo, emitted>>
    BY <1>1 DEF IoStart, IoEnter, IoSelect, IoRecvNothing, sharedVars, simVars, linkVars
  <2> QED
    BY <1>0, <2>1, OrderFrame DEF Sent
<1>2. CASE IoRecvRead \/ IoRecvBarRead \/ IoRecvWrite \/ IoRecvBarWrite
  <2>1. UNCHANGED <<d2h, conn, batch, tx_fifo, emitted>>
    BY <1>2 DEF IoRecvRead, IoRecvBarRead, IoRecvWrite, IoRecvBarWrite, RecvRequest, simVars
  <2> QED
    BY <1>0, <2>1, OrderFrame DEF Sent
<1>3. CASE IoWait \/ IoEvent \/ IoEndLoop \/ IoFiniServer
  <2>1. UNCHANGED <<d2h, conn, batch, tx_fifo, emitted>>
    BY <1>3 DEF IoWait, IoEvent, IoEndLoop, IoFiniServer, sharedVars, simVars, linkVars
  <2> QED
    BY <1>0, <2>1, OrderFrame DEF Sent
<1>4. CASE IoReply
  <2>1. /\ d2h' = (IF conn = "up" THEN Append(d2h, NetReply(reply)) ELSE d2h)
        /\ UNCHANGED <<conn, batch, tx_fifo, emitted>> /\ iopc = "reply"
    BY <1>4 DEF IoReply, SendToHost, sharedVars, simVars
  <2>2. NoReplyIn(d2h) /\ NetReply(reply) \in Reply
    BY <2>1, NetReplyType DEF IInv, TokenInv, TypeOK, IoTypeOK
  <2>3. Posted(d2h') = Posted(d2h)
    BY <1>t, <2>1, <2>2, PostedReply
  <2> QED
    BY <1>0, <2>1, <2>3, OrderFrame DEF Sent
<1>5. CASE IoKey
  <2>1. CASE Head(keys) = "quit"
    <3>1. UNCHANGED <<d2h, conn, batch, tx_fifo, emitted>>
      BY <1>5, <2>1 DEF IoKey, simVars, linkVars
    <3> QED
      BY <1>0, <3>1, OrderFrame DEF Sent
  <2>2. CASE Head(keys) # "quit"
    <3>1. /\ batch' = tx_fifo /\ tx_fifo' = <<>> /\ UNCHANGED <<d2h, conn, emitted>>
          /\ iopc = "keys"
      BY <1>5, <2>2 DEF IoKey, simVars, linkVars
    <3>2. batch = <<>>
      BY <3>1 DEF ThreadInv
    <3>3. Sent' = Sent
      BY <1>0, <3>1 DEF Sent
    <3>4. (Sent \o <<>>) \o tx_fifo = Sent \o tx_fifo
      BY <1>t, ConcatEmptySeq
    <3>5. (Sent \o tx_fifo) \o <<>> = Sent \o tx_fifo
      BY <1>t, ConcatProperties, ConcatEmptySeq
    <3> QED
      BY <3>1, <3>2, <3>3, <3>4, <3>5 DEF OrderInv, Sent
  <2> QED
    BY <2>1, <2>2
<1>6. CASE IoBatch
  <2>1. UNCHANGED <<conn, tx_fifo, emitted>> /\ iopc = "batch"
    BY <1>6 DEF IoBatch, sharedVars, simVars
  <2>e. conn # "eof_h"
    BY <2>1 DEF IInv, TokenInv
  <2>2. CASE batch = <<>>
    <3>1. UNCHANGED <<d2h, batch>>
      BY <1>6, <2>2 DEF IoBatch
    <3> QED
      BY <1>0, <2>1, <3>1, OrderFrame DEF Sent
  <2>3. CASE batch # <<>> /\ conn = "up"
    <3>1. d2h' = Append(d2h, Head(batch)) /\ batch' = Tail(batch)
      BY <1>6, <2>3 DEF IoBatch, SendToHost
    <3>2. Head(batch) \in Message
      BY <1>t, <2>3, TailFacts
    <3>3. Posted(d2h') = Append(Posted(d2h), Head(batch))
      BY <1>t, <3>1, <3>2, PostedMessage
    <3>4. Sent' = Append(Sent, Head(batch))
      BY <1>0, <1>t, <3>2, <3>3, AppendLast DEF Sent
    <3>5. Sent' \o batch' = Sent \o batch
      BY <1>t, <2>3, <3>1, <3>4, MoveHead
    <3> QED
      BY <2>1, <2>3, <3>5 DEF OrderInv, Sent
  <2>4. CASE conn # "up"
    BY <2>1, <2>e, <2>4 DEF OrderInv
  <2> QED
    BY <2>2, <2>3, <2>4
<1>7. CASE IoFini
  BY <1>0, <1>7, CloseOrder DEF IoFini, simVars
<1> QED
  BY <1>1, <1>2, <1>3, <1>4, <1>5, <1>6, <1>7 DEF IoNext

LEMMA PushOrder ==
  ASSUME IInv, OrderInv, NEW op \in {"WRITE_MEM", "MSI"}, NEW len \in Nat, NEW user \in Nat,
         PushTx(op, len, user), gpc = "edge", UNCHANGED <<hmem, d2h, conn, batch, iopc>>
  PROVE  OrderInv'
<1>t. /\ hmem \in Seq(Message) /\ Posted(d2h) \in Seq(Message) /\ Sent \in Seq(Message)
      /\ batch \in Seq(Message) /\ tx_fifo \in Seq(Message) /\ emitted \in Seq(Message)
  BY SentType DEF IInv
<1> DEFINE m == NetMsg(op, Len(emitted) + 1, len, user)
<1>1. m \in Message
  BY <1>t, NetMsgType, LenProperties
<1>2. tx_fifo' = Append(tx_fifo, m) /\ emitted' = Append(emitted, m)
  BY DEF PushTx
<1> HIDE DEF m
<1>3. Sent' = Sent
  BY DEF Sent
<1>4. CASE conn = "up"
  <2> DEFINE a == Sent \o batch
  <2>1. a \in Seq(Message)
    BY <1>t, ConcatProperties
  <2> HIDE DEF a
  <2>2. a \o Append(tx_fifo, m) = Append(a \o tx_fifo, m)
    <3>1. a \in Seq(Message) /\ tx_fifo \in Seq(Message) /\ m \in Message
      BY <1>t, <1>1, <2>1
    <3> QED
      BY <3>1, AppendLast
  <2> QED
    BY <1>2, <1>3, <1>4, <2>2 DEF OrderInv, Sent, a
<1>5. CASE conn = "eof_h"
  <2>1. Len(Sent) <= Len(emitted) /\ SubSeq(emitted, 1, Len(Sent)) = Sent
    BY <1>5 DEF OrderInv, Sent
  <2>2. /\ emitted' \in Seq(Message) /\ Len(emitted') = Len(emitted) + 1
        /\ \A i \in 1..Len(emitted) : emitted'[i] = emitted[i]
        /\ Len(emitted) \in Nat /\ Len(Sent) \in Nat
    BY <1>t, <1>1, <1>2, AppendFacts, LenProperties
  <2>3. Len(Sent) \in 0..Len(emitted) /\ Len(Sent) \in 0..Len(emitted')
    BY <2>1, <2>2
  <2>4. \A i \in 1..Len(Sent) : SubSeq(emitted, 1, Len(Sent))[i] = emitted[i]
    BY <1>t, <2>3, SplitFacts
  <2>5. /\ SubSeq(emitted', 1, Len(Sent)) \in Seq(Message)
        /\ Len(SubSeq(emitted', 1, Len(Sent))) = Len(Sent)
        /\ \A i \in 1..Len(Sent) : SubSeq(emitted', 1, Len(Sent))[i] = emitted'[i]
    BY <2>2, <2>3, SplitFacts
  <2>6. \A i \in 1..Len(Sent) : SubSeq(emitted', 1, Len(Sent))[i] = Sent[i]
    BY <2>1, <2>2, <2>3, <2>4, <2>5
  <2>7. SubSeq(emitted', 1, Len(Sent)) = Sent
    BY <1>t, <2>5, <2>6, SeqEqual
  <2> QED
    BY <1>3, <1>5, <2>2, <2>3, <2>7 DEF OrderInv, Sent
<1> QED
  BY <1>4, <1>5 DEF OrderInv

LEMMA SimOrder ==
  ASSUME IInv, ThreadInv, OrderInv, SimNext, UNCHANGED hostVars
  PROVE  OrderInv'
<1>0. hmem' = hmem
  BY DEF hostVars
<1>1. CASE GhdlMain \/ GhdlEnd \/ WriteEvent \/ WriteQuit
  <2>1. UNCHANGED <<d2h, conn, batch, tx_fifo, emitted>>
    BY <1>1 DEF GhdlMain, GhdlEnd, WriteEvent, WriteQuit, sharedVars, ioVars, linkVars
  <2> QED
    BY <1>0, <2>1, OrderFrame DEF Sent
<1>2. CASE EdgeReply \/ ReplyDone \/ PollRxFifo
  <2>1. UNCHANGED <<d2h, conn, batch, tx_fifo, emitted>>
    BY <1>2 DEF EdgeReply, ReplyDone, PollRxFifo, ioVars, linkVars
  <2> QED
    BY <1>0, <2>1, OrderFrame DEF Sent
<1>3. CASE EdgeMsi
  BY <1>0, <1>3, PushOrder DEF EdgeMsi, ioVars, linkVars
<1>4. CASE EdgeMwr
  <2>1. gin.size \in Nat
    BY PayloadAssumption DEF IInv, TypeOK, SimTypeOK, Inputs
  <2> QED
    BY <1>0, <1>4, <2>1, PushOrder, PayloadAssumption DEF EdgeMwr, ioVars, linkVars
<1>5. CASE Join
  <2>1. UNCHANGED <<d2h, conn, emitted>> /\ conn # "up"
    BY <1>5 DEF Join, linkVars, ThreadInv
  <2> QED
    BY <1>0, <2>1 DEF OrderInv
<1> QED
  BY <1>1, <1>2, <1>3, <1>4, <1>5 DEF SimNext

LEMMA InitOrder == Init => OrderInv
  BY DEF Init, OrderInv

LEMMA NextOrder ==
  ASSUME IInv, ThreadInv, OrderInv, [Next]_vars
  PROVE  OrderInv'
<1>1. CASE HostNext /\ UNCHANGED <<glueVars, devVars, lives>>
  BY <1>1, HostOrder
<1>2. CASE IoNext /\ UNCHANGED <<hostVars, devVars, lives>>
  BY <1>2, IoOrder
<1>3. CASE SimNext /\ UNCHANGED <<hostVars, devVars, lives>>
  BY <1>3, SimOrder
<1>4. CASE UserLogic
  <2>1. UNCHANGED <<sharedVars, ioVars, linkVars, hostVars, emitted>>
    BY <1>4 DEF UserLogic, EdgeQuiet, EdgeAnswer, EdgeEmit, Edge, ClockEdge
  <2> QED
    BY <2>1, OrderFrame DEF Sent, sharedVars, ioVars, linkVars, hostVars
<1>5. CASE Connect
  <2>1. /\ d2h' = <<>> /\ hmem' = <<>> /\ emitted' = <<>> /\ conn' = "up"
        /\ UNCHANGED <<batch, tx_fifo>> /\ iopc = "accept"
    BY <1>5 DEF Connect, HostConnect, OpenConn, IoAccept, sharedVars
  <2>2. batch = <<>> /\ tx_fifo = <<>>
    BY <2>1 DEF ThreadInv
  <2>3. NoReplyIn(<<>>) /\ <<>> \in Seq(Message \cup Reply) /\ <<>> \in Seq(Message)
    BY EmptySeq DEF NoReplyIn
  <2>4. Posted(d2h') = <<>>
    BY <2>1, <2>3, PostedNone
  <2>5. <<>> \o <<>> = <<>>
    BY <2>3, ConcatEmptySeq
  <2> QED
    BY <2>1, <2>2, <2>4, <2>5 DEF OrderInv
<1>6. CASE ConnectRefused
  <2>1. UNCHANGED <<d2h, hmem, conn, batch, tx_fifo, emitted>>
    BY <1>6 DEF ConnectRefused, HostConnectFail, glueVars, sharedVars, ioVars, simVars, linkVars
  <2> QED
    BY <2>1, OrderFrame DEF Sent
<1>7. CASE Kill
  BY <1>7, CloseOrder DEF Kill, hostVars
<1>8. CASE Restart
  <2>1. UNCHANGED <<d2h, hmem, conn, batch, tx_fifo, emitted>>
    BY <1>8 DEF Restart, hostVars, linkVars
  <2> QED
    BY <2>1, OrderFrame DEF Sent
<1>9. CASE UNCHANGED vars
  <2>1. UNCHANGED <<d2h, hmem, conn, batch, tx_fifo, emitted>>
    BY <1>9 DEF vars, hostVars, glueVars, sharedVars, ioVars, simVars, linkVars
  <2> QED
    BY <2>1, OrderFrame DEF Sent
<1> QED
  BY <1>1, <1>2, <1>3, <1>4, <1>5, <1>6, <1>7, <1>8, <1>9 DEF Next
----------------------------------------------------------------------------
(* What the guest writes: the writes in flight lead to it *)

Base(l, v) == IF l = "conf" THEN v = conf ELSE Queued(l, v)

LEMMA QueuedFrame ==
  ASSUME NEW r, NEW v, Queued(r, v), UNCHANGED rx_fifo, Held(r)' = Held(r),
         \A i \in 1..Len(rx_fifo) :
           /\ fnode'[rx_fifo[i]].is_read = fnode[rx_fifo[i]].is_read
           /\ fnode'[rx_fifo[i]].addr = fnode[rx_fifo[i]].addr
           /\ fnode'[rx_fifo[i]].data = fnode[rx_fifo[i]].data
  PROVE  Queued(r, v)'
<1>1. \A i \in 1..Len(rx_fifo) : NodeWritesTo(rx_fifo[i], r)' <=> NodeWritesTo(rx_fifo[i], r)
  BY DEF NodeWritesTo
<1>2. CASE v = Held(r) /\ \A i \in 1..Len(rx_fifo) : ~NodeWritesTo(rx_fifo[i], r)
  BY <1>1, <1>2 DEF Queued
<1>3. CASE \E i \in 1..Len(rx_fifo) :
             /\ NodeWritesTo(rx_fifo[i], r) /\ fnode[rx_fifo[i]].data = v
             /\ \A j \in (i + 1)..Len(rx_fifo) : ~NodeWritesTo(rx_fifo[j], r)
  <2>1. PICK i \in 1..Len(rx_fifo) :
          /\ NodeWritesTo(rx_fifo[i], r) /\ fnode[rx_fifo[i]].data = v
          /\ \A j \in (i + 1)..Len(rx_fifo) : ~NodeWritesTo(rx_fifo[j], r)
    BY <1>3
  <2>2. \A j \in (i + 1)..Len(rx_fifo) : j \in 1..Len(rx_fifo)
    OBVIOUS
  <2> QED
    BY <1>1, <2>1, <2>2 DEF Queued
<1> QED
  BY <1>2, <1>3 DEF Queued

LEMMA ComingFrame ==
  ASSUME NEW l, NEW v, Coming(l, v), Base(l, v) => Base(l, v)', UNCHANGED h2d
  PROVE  Coming(l, v)'
<1>1. CASE Base(l, v) /\ \A i \in 1..Len(h2d) : ~WritesTo(h2d[i], l)
  BY <1>1 DEF Coming, Base
<1>2. CASE \E i \in 1..Len(h2d) :
             /\ WritesTo(h2d[i], l) /\ h2d[i].data = v
             /\ \A j \in (i + 1)..Len(h2d) : ~WritesTo(h2d[j], l)
  BY <1>2 DEF Coming
<1> QED
  BY <1>1, <1>2 DEF Coming, Base

\* A request goes behind the others: send of QEMU.
LEMMA SendComing ==
  ASSUME NEW m \in Request, h2d \in Seq(Request), h2d' = Append(h2d, m),
         NEW l, NEW v, Base(l, v) => Base(l, v)',
         IF WritesTo(m, l) THEN v = m.data ELSE Coming(l, v)
  PROVE  Coming(l, v)'
<1>1. /\ Len(h2d) \in Nat /\ Len(h2d') = Len(h2d) + 1
      /\ \A i \in 1..Len(h2d) : h2d'[i] = h2d[i]
      /\ h2d'[Len(h2d) + 1] = m
  BY AppendFacts
<1>2. CASE WritesTo(m, l)
  <2>1. /\ Len(h2d) + 1 \in 1..Len(h2d') /\ WritesTo(h2d'[Len(h2d) + 1], l)
        /\ h2d'[Len(h2d) + 1].data = v
        /\ \A j \in ((Len(h2d) + 1) + 1)..Len(h2d') : ~WritesTo(h2d'[j], l)
    BY <1>1, <1>2
  <2> QED
    BY <2>1 DEF Coming
<1>3. CASE ~WritesTo(m, l) /\ Base(l, v) /\ \A i \in 1..Len(h2d) : ~WritesTo(h2d[i], l)
  <2>1. \A i \in 1..Len(h2d') : ~WritesTo(h2d'[i], l)
    BY <1>1, <1>3
  <2> QED
    BY <1>3, <2>1 DEF Coming, Base
<1>4. CASE /\ ~WritesTo(m, l)
           /\ \E i \in 1..Len(h2d) :
                /\ WritesTo(h2d[i], l) /\ h2d[i].data = v
                /\ \A j \in (i + 1)..Len(h2d) : ~WritesTo(h2d[j], l)
  <2>1. PICK i \in 1..Len(h2d) :
          /\ WritesTo(h2d[i], l) /\ h2d[i].data = v
          /\ \A j \in (i + 1)..Len(h2d) : ~WritesTo(h2d[j], l)
    BY <1>4
  <2>2. /\ i \in 1..Len(h2d') /\ WritesTo(h2d'[i], l) /\ h2d'[i].data = v
        /\ \A j \in (i + 1)..Len(h2d') : ~WritesTo(h2d'[j], l)
    BY <1>1, <1>4, <2>1
  <2> QED
    BY <2>2 DEF Coming
<1> QED
  BY <1>2, <1>3, <1>4 DEF Coming, Base

\* The io thread takes the first request, and what it does with it is what the
\* request says.
LEMMA TakeComing ==
  ASSUME TypeOK, NEW m, RecvRequest(m), NEW l, NEW v, Coming(l, v),
         WritesTo(m, l) => Base(l, m.data)',
         ~WritesTo(m, l) /\ Base(l, v) => Base(l, v)'
  PROVE  Coming(l, v)'
<1>1. /\ m = h2d[1] /\ Len(h2d) \in Nat /\ Len(h2d) >= 1
      /\ Len(h2d') = Len(h2d) - 1
      /\ \A i \in 1..Len(h2d') : h2d'[i] = h2d[i + 1] /\ i + 1 \in 1..Len(h2d)
  BY TailRequests
<1>2. CASE Base(l, v) /\ \A i \in 1..Len(h2d) : ~WritesTo(h2d[i], l)
  <2>1. ~WritesTo(m, l) /\ \A i \in 1..Len(h2d') : ~WritesTo(h2d'[i], l)
    BY <1>1, <1>2
  <2> QED
    BY <1>2, <2>1 DEF Coming, Base
<1>3. CASE \E i \in 1..Len(h2d) :
             /\ WritesTo(h2d[i], l) /\ h2d[i].data = v
             /\ \A j \in (i + 1)..Len(h2d) : ~WritesTo(h2d[j], l)
  <2>1. PICK i \in 1..Len(h2d) :
          /\ WritesTo(h2d[i], l) /\ h2d[i].data = v
          /\ \A j \in (i + 1)..Len(h2d) : ~WritesTo(h2d[j], l)
    BY <1>3
  <2>2. CASE i = 1
    <3>1. WritesTo(m, l) /\ m.data = v
      BY <1>1, <2>1, <2>2
    <3>2. \A j \in 1..Len(h2d') : ~WritesTo(h2d'[j], l)
      BY <1>1, <2>1, <2>2
    <3>3. Base(l, v)'
      BY <3>1
    <3> QED
      BY <3>2, <3>3 DEF Coming, Base
  <2>3. CASE i # 1
    <3>1. i - 1 \in 1..Len(h2d') /\ (i - 1) + 1 = i
      BY <1>1, <2>3
    <3>2. h2d'[i - 1] = h2d[i]
      BY <1>1, <3>1
    <3>3. \A j \in ((i - 1) + 1)..Len(h2d') : ~WritesTo(h2d'[j], l)
      BY <1>1, <2>1, <3>1
    <3> QED
      BY <2>1, <3>1, <3>2, <3>3 DEF Coming
  <2> QED
    BY <2>2, <2>3
<1> QED
  BY <1>2, <1>3 DEF Coming, Base

\* on_bar_write and on_bar_read put the access behind the others in rx_fifo.
LEMMA PushQueued ==
  ASSUME TypeOK, NodeInv, NEW n \in Nodes, NEW m \in Request, PushAccess(n, m),
         m.op \in {"READ_MEM", "WRITE_MEM"}, NEW r, Held(r)' = Held(r)
  PROVE  /\ m.op = "WRITE_MEM" /\ m.addr = r => Queued(r, m.data)'
         /\ \A v : Queued(r, v) /\ ~(m.op = "WRITE_MEM" /\ m.addr = r) => Queued(r, v)'
<1>1. /\ rx_fifo \in Seq(Nodes) /\ rx_fifo' = Append(rx_fifo, n)
      /\ n \notin heap /\ fnode \in [Nodes -> FNode]
      /\ fnode' = [fnode EXCEPT ![n] = [is_read |-> m.op = "READ_MEM", addr |-> m.addr,
                                        data |-> m.data, is_replied |-> FALSE]]
  BY DEF TypeOK, SharedTypeOK, PushAccess
<1>2. /\ Len(rx_fifo) \in Nat /\ Len(rx_fifo') = Len(rx_fifo) + 1
      /\ \A i \in 1..Len(rx_fifo) : rx_fifo'[i] = rx_fifo[i]
      /\ rx_fifo'[Len(rx_fifo) + 1] = n
  BY <1>1, AppendFacts
<1>3. \A i \in 1..Len(rx_fifo) : fnode'[rx_fifo[i]] = fnode[rx_fifo[i]]
  BY <1>1, ElementOfSeq DEF NodeInv
<1>4. fnode'[n].data = m.data /\ fnode'[n].addr = m.addr
      /\ (fnode'[n].is_read <=> m.op = "READ_MEM")
  BY <1>1
<1>5. \A i \in 1..Len(rx_fifo) : NodeWritesTo(rx_fifo[i], r) <=> NodeWritesTo(rx_fifo[i], r)'
  BY <1>2, <1>3 DEF NodeWritesTo
<1>6. NodeWritesTo(n, r)' <=> m.op = "WRITE_MEM" /\ m.addr = r
  BY <1>4 DEF NodeWritesTo
<1>7. ASSUME m.op = "WRITE_MEM", m.addr = r PROVE Queued(r, m.data)'
  <2>1. /\ Len(rx_fifo) + 1 \in 1..Len(rx_fifo')
        /\ \A j \in ((Len(rx_fifo) + 1) + 1)..Len(rx_fifo') : FALSE
    BY <1>2
  <2> QED
    BY <1>2, <1>4, <1>6, <1>7, <2>1 DEF Queued, NodeWritesTo
<1>8. ASSUME NEW v, Queued(r, v), ~(m.op = "WRITE_MEM" /\ m.addr = r) PROVE Queued(r, v)'
  <2>1. \A k : k = Len(rx_fifo) + 1 => ~NodeWritesTo(rx_fifo[k], r)'
    BY <1>2, <1>6, <1>8 DEF NodeWritesTo
  <2>2. CASE v = Held(r) /\ \A i \in 1..Len(rx_fifo) : ~NodeWritesTo(rx_fifo[i], r)
    <3>1. \A i \in 1..Len(rx_fifo') : ~NodeWritesTo(rx_fifo[i], r)'
      <4> SUFFICES ASSUME NEW i \in 1..Len(rx_fifo') PROVE ~NodeWritesTo(rx_fifo[i], r)'
        OBVIOUS
      <4>1. CASE i \in 1..Len(rx_fifo)
        BY <1>2, <1>3, <2>2, <4>1 DEF NodeWritesTo
      <4>2. CASE i = Len(rx_fifo) + 1
        BY <2>1, <4>2
      <4> QED
        BY <1>2, <4>1, <4>2
    <3> QED
      BY <2>2, <3>1 DEF Queued, NodeWritesTo
  <2>3. CASE \E i \in 1..Len(rx_fifo) :
               /\ NodeWritesTo(rx_fifo[i], r) /\ fnode[rx_fifo[i]].data = v
               /\ \A j \in (i + 1)..Len(rx_fifo) : ~NodeWritesTo(rx_fifo[j], r)
    <3>1. PICK i \in 1..Len(rx_fifo) :
            /\ NodeWritesTo(rx_fifo[i], r) /\ fnode[rx_fifo[i]].data = v
            /\ \A j \in (i + 1)..Len(rx_fifo) : ~NodeWritesTo(rx_fifo[j], r)
      BY <2>3
    <3>2. i \in 1..Len(rx_fifo') /\ NodeWritesTo(rx_fifo[i], r)' /\ fnode'[rx_fifo'[i]].data = v
      BY <1>2, <1>3, <3>1 DEF NodeWritesTo
    <3>3. \A j \in (i + 1)..Len(rx_fifo') : ~NodeWritesTo(rx_fifo[j], r)'
      <4> SUFFICES ASSUME NEW j \in (i + 1)..Len(rx_fifo') PROVE ~NodeWritesTo(rx_fifo[j], r)'
        OBVIOUS
      <4>1. CASE j \in (i + 1)..Len(rx_fifo)
        <5>1. j \in 1..Len(rx_fifo)
          BY <1>2, <4>1
        <5> QED
          BY <1>2, <1>3, <3>1, <4>1, <5>1 DEF NodeWritesTo
      <4>2. CASE j = Len(rx_fifo) + 1
        BY <2>1, <4>2
      <4> QED
        BY <1>2, <4>1, <4>2
    <3> QED
      BY <3>2, <3>3 DEF Queued, NodeWritesTo
  <2> QED
    BY <1>8, <2>2, <2>3 DEF Queued
<1> QED
  BY <1>7, <1>8

\* pcie_glue_poll_rx_fifo takes the first access, and the endpoint shows it.
LEMMA PollQueued ==
  ASSUME TypeOK, NodeInv, PollRxFifo, UNCHANGED regs, NEW r, NEW v, Queued(r, v)
  PROVE  Queued(r, v)'
<1>1. gpc = "edge" /\ gpc' = "clk" /\ Held(r) = regs[r]
  BY DEF PollRxFifo, InputsDone, Held
<1>2. CASE rx_fifo = <<>>
  <2>1. req' = NoReq /\ UNCHANGED <<rx_fifo, fnode>>
    BY <1>2 DEF PollRxFifo
  <2>2. Held(r)' = regs[r]
    BY <2>1 DEF Held, NoReq
  <2> QED
    BY <1>1, <2>1, <2>2, QueuedFrame
<1>3. CASE rx_fifo # <<>>
  <2> DEFINE n == Head(rx_fifo)
  <2>1. /\ n = rx_fifo[1] /\ 1 \in 1..Len(rx_fifo) /\ n \in Nodes
        /\ \A i \in 1..Len(Tail(rx_fifo)) :
             /\ i + 1 \in 1..Len(rx_fifo) /\ Tail(rx_fifo)[i] = rx_fifo[i + 1]
             /\ Tail(rx_fifo)[i] # n /\ Tail(rx_fifo)[i] \in Nodes
    BY <1>3, PopNode
  <2>2. rx_fifo' = Tail(rx_fifo) /\ Len(rx_fifo) \in Nat /\ Len(rx_fifo') = Len(rx_fifo) - 1
    BY <1>3, TailFacts DEF PollRxFifo, TypeOK, SharedTypeOK
  <2>3. fnode \in [Nodes -> FNode] /\ (fnode' = fnode \/ fnode' = [fnode EXCEPT ![n] = Freed])
    BY <1>3 DEF PollRxFifo, TypeOK, SharedTypeOK
  <2>4. \A i \in 1..Len(rx_fifo') :
          /\ i + 1 \in 1..Len(rx_fifo) /\ rx_fifo'[i] = rx_fifo[i + 1]
          /\ fnode'[rx_fifo'[i]] = fnode[rx_fifo[i + 1]]
    BY <2>1, <2>2, <2>3
  <2>5. Held(r)' = IF NodeWritesTo(n, r) THEN fnode[n].data ELSE regs[r]
    <3>1. \/ req' = NoReq /\ fnode[n].is_read
          \/ req' = [en |-> TRUE, wr |-> ~fnode[n].is_read, addr |-> fnode[n].addr,
                     data |-> fnode[n].data]
      BY <1>3 DEF PollRxFifo
    <3>2. CASE req' = NoReq /\ fnode[n].is_read
      BY <1>1, <3>2 DEF Held, NoReq, NodeWritesTo
    <3>3. CASE req' = [en |-> TRUE, wr |-> ~fnode[n].is_read, addr |-> fnode[n].addr,
                       data |-> fnode[n].data]
      <4>1. req'.en /\ (req'.wr <=> ~fnode[n].is_read) /\ req'.addr = fnode[n].addr
            /\ req'.data = fnode[n].data
        BY <3>3
      <4> QED
        BY <1>1, <4>1 DEF Held, NodeWritesTo
    <3> QED
      BY <3>1, <3>2, <3>3
  <2> HIDE DEF n
  <2>6. CASE v = Held(r) /\ \A i \in 1..Len(rx_fifo) : ~NodeWritesTo(rx_fifo[i], r)
    <3>1. v = Held(r)'
      BY <1>1, <2>1, <2>5, <2>6
    <3>2. \A i \in 1..Len(rx_fifo') : ~NodeWritesTo(rx_fifo[i], r)'
      BY <2>4, <2>6 DEF NodeWritesTo
    <3> QED
      BY <3>1, <3>2 DEF Queued
  <2>7. CASE \E i \in 1..Len(rx_fifo) :
               /\ NodeWritesTo(rx_fifo[i], r) /\ fnode[rx_fifo[i]].data = v
               /\ \A j \in (i + 1)..Len(rx_fifo) : ~NodeWritesTo(rx_fifo[j], r)
    <3>1. PICK i \in 1..Len(rx_fifo) :
            /\ NodeWritesTo(rx_fifo[i], r) /\ fnode[rx_fifo[i]].data = v
            /\ \A j \in (i + 1)..Len(rx_fifo) : ~NodeWritesTo(rx_fifo[j], r)
      BY <2>7
    <3>2. CASE i = 1
      <4>1. v = Held(r)'
        BY <2>1, <2>5, <3>1, <3>2
      <4>2. \A j \in 1..Len(rx_fifo') : ~NodeWritesTo(rx_fifo[j], r)'
        <5> SUFFICES ASSUME NEW j \in 1..Len(rx_fifo') PROVE ~NodeWritesTo(rx_fifo[j], r)'
          OBVIOUS
        <5>1. j + 1 \in (i + 1)..Len(rx_fifo)
          BY <2>2, <2>4, <3>2
        <5> QED
          BY <2>4, <3>1, <5>1 DEF NodeWritesTo
      <4> QED
        BY <4>1, <4>2 DEF Queued
    <3>3. CASE i # 1
      <4>1. i - 1 \in 1..Len(rx_fifo') /\ (i - 1) + 1 = i
        BY <2>2, <3>3
      <4>2. rx_fifo'[i - 1] = rx_fifo[i] /\ fnode'[rx_fifo'[i - 1]] = fnode[rx_fifo[i]]
        BY <2>4, <4>1
      <4>3. NodeWritesTo(rx_fifo[i - 1], r)' /\ fnode'[rx_fifo'[i - 1]].data = v
        BY <3>1, <4>2 DEF NodeWritesTo
      <4>4. \A j \in ((i - 1) + 1)..Len(rx_fifo') : ~NodeWritesTo(rx_fifo[j], r)'
        <5> SUFFICES ASSUME NEW j \in ((i - 1) + 1)..Len(rx_fifo')
                     PROVE  ~NodeWritesTo(rx_fifo[j], r)'
          OBVIOUS
        <5>1. j \in 1..Len(rx_fifo') /\ j + 1 \in (i + 1)..Len(rx_fifo)
          BY <2>2, <4>1
        <5> QED
          BY <2>4, <3>1, <5>1 DEF NodeWritesTo
      <4> QED
        BY <4>1, <4>3, <4>4 DEF Queued
    <3> QED
      BY <3>2, <3>3
  <2> QED
    BY <2>6, <2>7 DEF Queued
<1> QED
  BY <1>2, <1>3

\* A step that keeps, for each location, what is coming keeps WritesInv's first
\* part.
Arrives == conn = "up" => \A l \in Loc :
             l = "conf" \/ gpc \notin {"quit", "join"} => Coming(l, shadow[l])

LEMMA ArrivesStep ==
  ASSUME TypeOK, Arrives, UNCHANGED shadow, conn' = "up" => conn = "up",
         gpc \in {"quit", "join"} => gpc' \in {"quit", "join"},
         \A l \in Loc, v \in Vals :
           (conn = "up" /\ (l = "conf" \/ gpc' \notin {"quit", "join"}) /\ Coming(l, v))
             => Coming(l, v)'
  PROVE  Arrives'
<1> SUFFICES ASSUME conn' = "up", NEW l \in Loc, l = "conf" \/ gpc' \notin {"quit", "join"}
             PROVE  Coming(l, shadow[l])'
  BY DEF Arrives
<1>1. PICK v \in Vals : v = shadow[l]
  BY DEF TypeOK, HostTypeOK
<1>2. Coming(l, v)
  BY <1>1 DEF Arrives
<1>3. Coming(l, v)'
  BY <1>2
<1> QED
  BY <1>1, <1>3 DEF Coming

LEMMA BaseFrame ==
  ASSUME UNCHANGED <<conf, rx_fifo, fnode>>, NEW l, Held(l)' = Held(l), NEW v, Base(l, v)
  PROVE  Base(l, v)'
<1>1. CASE l = "conf"
  BY <1>1 DEF Base
<1>2. CASE l # "conf"
  BY <1>2, QueuedFrame DEF Base
<1> QED
  BY <1>1, <1>2

\* A step that leaves the requests, the nodes and the request shown alone.
LEMMA ArrivesFrame ==
  ASSUME TypeOK, Arrives, UNCHANGED <<shadow, h2d, conf, rx_fifo, fnode, gpc, req, regs>>,
         conn' = "up" => conn = "up"
  PROVE  Arrives'
<1>1. \A l : Held(l)' = Held(l)
  BY DEF Held
<1>2. \A l, v : Coming(l, v) => Coming(l, v)'
  BY <1>1, BaseFrame, ComingFrame
<1> QED
  BY <1>2, ArrivesStep

LEMMA ForwardArrives ==
  ASSUME TypeOK, Arrives, NEW m \in Request, Forward(m),
         UNCHANGED <<conn, conf, rx_fifo, fnode, gpc, req, regs>>
  PROVE  Arrives'
<1> SUFFICES ASSUME conn = "up", NEW l \in Loc, l = "conf" \/ gpc \notin {"quit", "join"}
             PROVE  Coming(l, shadow[l])'
  BY DEF Arrives
<1>1. h2d \in Seq(Request) /\ h2d' = Append(h2d, m) /\ shadow \in [Loc -> Vals] /\ m.addr \in Loc
  BY DEF TypeOK, LinkTypeOK, HostTypeOK, Forward, SendToDevice, Request, Loc
<1>2. shadow'[l] = IF WritesTo(m, l) THEN m.data ELSE shadow[l]
  <2>1. shadow' = Written(m)
    BY DEF Forward
  <2> QED
    BY <1>1, <2>1 DEF Written, WritesTo
<1>3. PICK v : v = shadow'[l]
  OBVIOUS
<1>4. IF WritesTo(m, l) THEN v = m.data ELSE Coming(l, v)
  BY <1>2, <1>3 DEF Arrives
<1>5. Base(l, v) => Base(l, v)'
  <2>1. Held(l)' = Held(l)
    BY DEF Held
  <2> QED
    BY <2>1, BaseFrame
<1>6. Coming(l, v)'
  BY <1>1, <1>4, <1>5, SendComing
<1> QED
  BY <1>3, <1>6 DEF Coming

LEMMA HostArrives ==
  ASSUME TypeOK, Arrives, HostNext, UNCHANGED <<glueVars, devVars>>
  PROVE  Arrives'
<1>0. UNCHANGED <<conf, rx_fifo, fnode, gpc, req, regs>>
  BY DEF glueVars, sharedVars, ioVars, simVars, devVars
<1>1. CASE HostProbe
  BY <1>0, <1>1, ForwardArrives, ProbeReqType DEF HostProbe
<1>2. CASE HostIssue
  BY <1>0, <1>2, ForwardArrives DEF HostIssue, TypeOK, HostTypeOK
<1>3. CASE (\E m \in GuestCalls : HostCall(m)) \/ RecvReply \/ RecvReplyError \/ OnRead
  <2>1. UNCHANGED <<shadow, h2d, conn>>
    BY <1>3 DEF HostCall, RecvReply, RecvReplyError, OnRead, linkVars
  <2> QED
    BY <1>0, <2>1, ArrivesFrame
<1>4. CASE OnReadError \/ HostExit
  <2>1. conn' # "up"
    BY <1>4 DEF OnReadError, HostExit, CloseHostEnd
  <2> QED
    BY <2>1 DEF Arrives
<1> QED
  BY <1>1, <1>2, <1>3, <1>4 DEF HostNext

\* The io thread takes a request, and puts a write where the next read of the
\* same location will find it.
LEMMA TakeArrives ==
  ASSUME TypeOK, Arrives, NEW m, RecvRequest(m), UNCHANGED <<shadow, regs>>,
         \A l \in Loc, v \in Vals :
           /\ WritesTo(m, l) => Base(l, m.data)'
           /\ ~WritesTo(m, l) /\ Base(l, v) => Base(l, v)'
  PROVE  Arrives'
<1>1. UNCHANGED <<conn, gpc>>
  BY DEF RecvRequest, simVars
<1>2. \A l \in Loc, v \in Vals : Coming(l, v) => Coming(l, v)'
  BY TakeComing
<1> QED
  BY <1>1, <1>2, ArrivesStep

LEMMA PushArrives ==
  ASSUME TypeOK, NodeInv, Arrives, NEW m, RecvRequest(m), NEW n \in Nodes, PushAccess(n, m),
         m.op = "READ_MEM" \/ (m.op = "WRITE_MEM" /\ m.bar < PCIE_BAR_COUNT),
         UNCHANGED <<shadow, regs, conf>>
  PROVE  Arrives'
<1>1. m \in Request /\ UNCHANGED <<gpc, req>>
  BY TailRequests DEF RecvRequest, simVars
<1>2. m.addr # "conf"
  BY <1>1, RegsAssumption DEF Request
<1>3. \A r : Held(r)' = Held(r)
  BY <1>1 DEF Held
<1>4. \A l \in Loc : WritesTo(m, l) <=> m.op = "WRITE_MEM" /\ m.addr = l
  BY DEF WritesTo, IsRead
<1>5. ASSUME NEW l \in Loc, NEW v \in Vals
      PROVE  /\ WritesTo(m, l) => Base(l, m.data)'
             /\ ~WritesTo(m, l) /\ Base(l, v) => Base(l, v)'
  <2>1. CASE l = "conf"
    BY <1>2, <1>4, <2>1 DEF Base
  <2>2. CASE l # "conf"
    <3>1. /\ m.op = "WRITE_MEM" /\ m.addr = l => Queued(l, m.data)'
          /\ Queued(l, v) /\ ~(m.op = "WRITE_MEM" /\ m.addr = l) => Queued(l, v)'
      BY <1>1, <1>3, PushQueued
    <3> QED
      BY <1>4, <2>2, <3>1 DEF Base
  <2> QED
    BY <2>1, <2>2
<1> QED
  BY <1>5, TakeArrives

LEMMA IoArrives ==
  ASSUME TypeOK, NodeInv, Arrives, IoNext, UNCHANGED <<hostVars, devVars>>
  PROVE  Arrives'
<1>0. UNCHANGED <<shadow, regs>>
  BY DEF hostVars, devVars
<1>1. CASE IoStart \/ IoEnter \/ IoSelect \/ IoRecvNothing \/ IoReply
  <2>1. UNCHANGED <<h2d, conn, conf, rx_fifo, fnode, gpc, req>>
    BY <1>1 DEF IoStart, IoEnter, IoSelect, IoRecvNothing, IoReply, sharedVars, simVars, linkVars
  <2> QED
    BY <1>0, <2>1, ArrivesFrame
<1>2. CASE IoEvent \/ IoKey \/ IoBatch \/ IoEndLoop \/ IoFiniServer
  <2>1. UNCHANGED <<h2d, conn, conf, rx_fifo, fnode, gpc, req>>
    BY <1>2 DEF IoEvent, IoKey, IoBatch, IoEndLoop, IoFiniServer, sharedVars, simVars, linkVars
  <2> QED
    BY <1>0, <2>1, ArrivesFrame
<1>3. CASE IoRecvRead
  <2>1. PICK m \in Request : /\ RecvRequest(m) /\ UNCHANGED <<rx_fifo, fnode, conf>>
                             /\ m.op \in {"READ_CONFIG", "READ_MEM"}
    BY <1>3 DEF IoRecvRead
  <2>2. \A l : ~WritesTo(m, l) /\ Held(l)' = Held(l)
    BY <1>0, <2>1 DEF WritesTo, IsRead, Held, RecvRequest, simVars
  <2> QED
    BY <1>0, <2>1, <2>2, BaseFrame, TakeArrives
<1>4. CASE IoRecvBarRead
  BY <1>0, <1>4, PushArrives DEF IoRecvBarRead
<1>5. CASE IoRecvWrite
  <2>1. PICK m \in Request :
          /\ RecvRequest(m) /\ UNCHANGED <<rx_fifo, fnode>>
          /\ m.op = "WRITE_CONFIG" \/ (m.op = "WRITE_MEM" /\ m.bar >= PCIE_BAR_COUNT)
          /\ conf' = IF m.op = "WRITE_CONFIG" THEN m.data ELSE conf
    BY <1>5 DEF IoRecvWrite
  <2>2. \A l : Held(l)' = Held(l)
    BY <1>0, <2>1 DEF Held, RecvRequest, simVars
  <2>3. CASE m.op = "WRITE_CONFIG"
    <3>1. m.addr = "conf" /\ conf' = m.data
      BY <2>1, <2>3 DEF Request
    <3>2. \A l : WritesTo(m, l) <=> l = "conf"
      BY <2>3, <3>1 DEF WritesTo, IsRead
    <3>3. \A l, v : l # "conf" /\ Queued(l, v) => Queued(l, v)'
      BY <2>1, <2>2, QueuedFrame
    <3>4. \A l, v : /\ WritesTo(m, l) => Base(l, m.data)'
                    /\ ~WritesTo(m, l) /\ Base(l, v) => Base(l, v)'
      BY <3>1, <3>2, <3>3 DEF Base
    <3> QED
      BY <1>0, <2>1, <3>4, TakeArrives
  <2>4. CASE m.op = "WRITE_MEM" /\ m.bar >= PCIE_BAR_COUNT
    <3>1. \A l : ~WritesTo(m, l)
      <4>1. m.bar \in Nat
        BY BarsAssumption DEF Request
      <4> QED
        BY <2>4, <4>1 DEF WritesTo, PCIE_BAR_COUNT
    <3>2. conf' = conf
      BY <2>1, <2>4
    <3> QED
      BY <1>0, <2>1, <2>2, <3>1, <3>2, BaseFrame, TakeArrives
  <2> QED
    BY <2>1, <2>3, <2>4
<1>6. CASE IoRecvBarWrite
  BY <1>0, <1>6, PushArrives DEF IoRecvBarWrite
<1>7. CASE IoWait
  <2>1. /\ iopc = "wait" /\ fnode[cur].is_replied /\ fnode' = [fnode EXCEPT ![cur] = Freed]
        /\ UNCHANGED <<rx_fifo, conf, gpc, req, h2d, conn>>
    BY <1>7 DEF IoWait, simVars, linkVars
  <2>2. \A i \in 1..Len(rx_fifo) : fnode'[rx_fifo[i]] = fnode[rx_fifo[i]]
    BY <2>1, ElementOfSeq DEF NodeInv, TypeOK, SharedTypeOK
  <2>3. \A l : Held(l)' = Held(l)
    BY <1>0, <2>1 DEF Held
  <2>4. \A l, v : Base(l, v) => Base(l, v)'
    BY <2>1, <2>2, <2>3, QueuedFrame DEF Base
  <2> QED
    BY <1>0, <2>1, <2>4, ComingFrame, ArrivesStep
<1>8. CASE IoFini
  <2>1. conn' # "up"
    BY <1>8 DEF IoFini, CloseDeviceEnd
  <2> QED
    BY <2>1 DEF Arrives
<1> QED
  BY <1>1, <1>2, <1>3, <1>4, <1>5, <1>6, <1>7, <1>8 DEF IoNext

LEMMA SimArrives ==
  ASSUME TypeOK, NodeInv, LogicInv, ThreadInv, Arrives, SimNext, UNCHANGED <<hostVars, devVars>>
  PROVE  Arrives'
<1>0. UNCHANGED <<shadow, regs>>
  BY DEF hostVars, devVars
<1>s. ASSUME UNCHANGED <<h2d, conn, conf, rx_fifo>>, gpc \notin {"quit", "join"},
             \A l, v : Queued(l, v) => Queued(l, v)'
      PROVE  Arrives'
  <2>1. \A l, v : Base(l, v) => Base(l, v)'
    BY <1>s DEF Base
  <2> QED
    BY <1>0, <1>s, <2>1, ComingFrame, ArrivesStep
<1>1. CASE GhdlMain
  <2>1. /\ UNCHANGED <<h2d, conn, conf, rx_fifo, fnode, req>>
        /\ gpc = "spawn" /\ gpc' = "clk" /\ ~req.en
    BY <1>1 DEF GhdlMain, sharedVars, ioVars, linkVars, LogicInv
  <2>2. \A l : Held(l)' = Held(l)
    BY <1>0, <2>1 DEF Held
  <2> QED
    BY <1>s, <2>1, <2>2, QueuedFrame
<1>2. CASE EdgeMsi \/ EdgeMwr \/ WriteEvent
  <2>1. /\ UNCHANGED <<h2d, conn, conf, rx_fifo, fnode>>
        /\ gpc \in {"edge", "ev"} /\ gpc' \in {"edge", "ev"}
    BY <1>2 DEF EdgeMsi, EdgeMwr, WriteEvent, PushTx, simRest, ioVars, linkVars
  <2>2. \A l : Held(l)' = Held(l)
    BY <1>0, <2>1 DEF Held
  <2> QED
    BY <1>s, <2>1, <2>2, QueuedFrame
<1>3. CASE EdgeReply
  <2>1. /\ gpc = "edge" /\ gin.rep /\ reply_node # NULL
    BY <1>3 DEF EdgeReply, LogicInv
  <2>2. /\ gpc' = "rep" /\ fnode' = [fnode EXCEPT ![reply_node].data = gin.data]
        /\ UNCHANGED <<h2d, conn, conf, rx_fifo>>
    BY <1>3, <2>1 DEF EdgeReply, ioVars, linkVars
  <2>3. \A l : Held(l)' = Held(l)
    BY <1>0, <2>1, <2>2 DEF Held
  <2>4. \A i \in 1..Len(rx_fifo) : rx_fifo[i] # reply_node /\ rx_fifo[i] \in Nodes
    BY <2>1, ElementOfSeq DEF NodeInv, TypeOK, SharedTypeOK
  <2>5. \A i \in 1..Len(rx_fifo) : fnode'[rx_fifo[i]] = fnode[rx_fifo[i]]
    BY <2>2, <2>4 DEF TypeOK, SharedTypeOK
  <2> QED
    BY <1>s, <2>1, <2>2, <2>3, <2>5, QueuedFrame
<1>4. CASE ReplyDone
  <2>1. /\ gpc = "rep" /\ gpc' = "edge" /\ fnode' = [fnode EXCEPT ![gnode].is_replied = TRUE]
        /\ UNCHANGED <<h2d, conn, conf, rx_fifo>>
    BY <1>4 DEF ReplyDone, ioVars, linkVars
  <2>2. \A l : Held(l)' = Held(l)
    BY <1>0, <2>1 DEF Held
  <2>3. \A i \in 1..Len(rx_fifo) : rx_fifo[i] \in Nodes
    BY ElementOfSeq DEF TypeOK, SharedTypeOK
  <2>4. \A x \in Nodes : /\ fnode'[x].is_read = fnode[x].is_read
                         /\ fnode'[x].addr = fnode[x].addr /\ fnode'[x].data = fnode[x].data
    BY <2>1 DEF TypeOK, SharedTypeOK, FNode
  <2> QED
    BY <1>s, <2>1, <2>2, <2>3, <2>4, QueuedFrame
<1>5. CASE PollRxFifo
  <2>1. UNCHANGED <<h2d, conn, conf>> /\ gpc = "edge" /\ gpc' = "clk"
    BY <1>5 DEF PollRxFifo, InputsDone, ioVars, linkVars
  <2>2. \A l, v : Base(l, v) => Base(l, v)'
    BY <1>0, <1>5, <2>1, PollQueued DEF Base
  <2> QED
    BY <1>0, <2>1, <2>2, ComingFrame, ArrivesStep
<1>6. CASE GhdlEnd \/ WriteQuit
  <2>1. UNCHANGED <<h2d, conn, conf>> /\ gpc' \in {"quit", "join"}
    BY <1>6 DEF GhdlEnd, WriteQuit, ioVars, linkVars
  <2>2. \A v : Base("conf", v) => Base("conf", v)'
    BY <2>1 DEF Base
  <2> QED
    BY <1>0, <2>1, <2>2, ComingFrame, ArrivesStep
<1>7. CASE Join
  <2>1. conn' # "up"
    BY <1>7 DEF Join, linkVars, ThreadInv
  <2> QED
    BY <2>1 DEF Arrives
<1> QED
  BY <1>1, <1>2, <1>3, <1>4, <1>5, <1>6, <1>7 DEF SimNext

LEMMA EdgeArrives ==
  ASSUME TypeOK, Arrives, UserLogic
  PROVE  Arrives'
<1>1. /\ gpc = "clk" /\ gpc' = "edge"
      /\ UNCHANGED <<rx_fifo, fnode, conf, req, h2d, conn, shadow>>
      /\ regs' = IF req.en /\ req.wr THEN [regs EXCEPT ![req.addr] = req.data] ELSE regs
  BY DEF UserLogic, EdgeQuiet, EdgeAnswer, EdgeEmit, Edge, ClockEdge, SampleRequest,
         sharedVars, ioVars, linkVars, hostVars
<1>2. \A r \in Regs : Held(r)' = Held(r)
  BY <1>1 DEF Held, TypeOK, SimTypeOK, ReqOut
<1>3. \A l \in Loc : \A v : Base(l, v) => Base(l, v)'
  BY <1>1, <1>2, QueuedFrame DEF Base, Loc
<1> QED
  BY <1>1, <1>3, ComingFrame, ArrivesStep

\* A connection is made to a device that was reset.
LEMMA ConnectArrives ==
  ASSUME TypeOK, ThreadInv, WritesInv, Connect
  PROVE  Arrives'
<1>1. /\ iopc = "accept" /\ h2d' = <<>> /\ shadow' = [l \in Loc |-> 0]
      /\ UNCHANGED <<rx_fifo, conf, regs, gpc>>
  BY DEF Connect, HostConnect, OpenConn, IoAccept, sharedVars, devVars
<1>2. rx_fifo = <<>> /\ conf = 0 /\ gpc = "spawn" /\ regs = [r \in Regs |-> 0]
  BY <1>1 DEF WritesInv, ThreadInv
<1>3. (\A i \in 1..Len(h2d') : FALSE) /\ (\A i \in 1..Len(rx_fifo') : FALSE)
  BY <1>1, <1>2, EmptySeq
<1>4. \A r \in Regs : Held(r)' = 0
  BY <1>1, <1>2 DEF Held
<1>5. \A r \in Regs : Queued(r, 0)'
  BY <1>3, <1>4 DEF Queued
<1>6. \A l \in Loc : Coming(l, 0)'
  BY <1>1, <1>2, <1>3, <1>5 DEF Coming, Loc
<1>7. \A l \in Loc : shadow'[l] = 0
  BY <1>1
<1> QED
  BY <1>6, <1>7 DEF Arrives, Coming

\* What a process that has not connected, has ended or has not started holds.
Clean ==
  /\ iopc = "accept" => rx_fifo = <<>> /\ conf = 0
  /\ gpc = "exit" => rx_fifo = <<>> /\ conf = 0
  /\ gpc = "spawn" => regs = [r \in Regs |-> 0]

LEMMA WritesParts == WritesInv <=> Arrives /\ Clean
  BY DEF WritesInv, Arrives, Clean

LEMMA InitWrites == Init => WritesInv
  BY DEF Init, GlueInit, MemInit, DevInit, WritesInv

LEMMA NextWrites ==
  ASSUME IInv, ThreadInv, WritesInv, [Next]_vars
  PROVE  WritesInv'
<1>0. Arrives /\ Clean
  BY WritesParts
<1>s. ASSUME Arrives', Clean' PROVE WritesInv'
  BY <1>s DEF WritesInv, Arrives, Clean
<1>1. CASE HostNext /\ UNCHANGED <<glueVars, devVars, lives>>
  <2>1. Clean'
    BY <1>0, <1>1 DEF Clean, glueVars, sharedVars, ioVars, simVars, devVars
  <2> QED
    BY <1>0, <1>1, <1>s, <2>1, HostArrives DEF IInv
<1>2. CASE IoNext /\ UNCHANGED <<hostVars, devVars, lives>>
  <2>1. iopc \notin {"accept", "done", "dead"} /\ iopc' # "accept" /\ UNCHANGED <<gpc, regs>>
    BY <1>2 DEF IoNext, IoStart, IoEnter, IoSelect, IoRecvNothing, IoRecvRead, IoRecvBarRead,
         IoRecvWrite, IoRecvBarWrite, RecvRequest, IoWait, IoReply, IoEvent, IoKey, IoBatch,
         IoEndLoop, IoFiniServer, IoFini, simVars, devVars
  <2>2. gpc # "exit"
    BY <2>1 DEF IInv, NodeInv
  <2>3. Clean'
    BY <1>0, <2>1, <2>2 DEF Clean
  <2> QED
    BY <1>0, <1>2, <1>s, <2>3, IoArrives DEF IInv
<1>3. CASE SimNext /\ UNCHANGED <<hostVars, devVars, lives>>
  <2>1. CASE Join
    <3>1. gpc' = "exit" /\ iopc' = "done" /\ rx_fifo' = <<>> /\ conf' = 0
      BY <2>1 DEF Join, MemReset
    <3> QED
      BY <1>0, <1>3, <1>s, <3>1, SimArrives DEF IInv, Clean
  <2>2. CASE ~Join
    <3>1. iopc' = iopc /\ gpc' \notin {"spawn", "exit"} /\ (gpc = "spawn" => state # 0)
      BY <1>3, <2>2 DEF SimNext, GhdlMain, EdgeMsi, EdgeMwr, PushTx, WriteEvent, EdgeReply,
           ReplyDone, PollRxFifo, InputsDone, GhdlEnd, WriteQuit, ioVars
    <3>2. iopc # "accept"
      <4>1. ASSUME iopc = "accept" PROVE FALSE
        <5>1. gpc = "spawn" /\ state = 0
          BY <4>1 DEF ThreadInv
        <5> QED
          BY <3>1, <5>1
      <4> QED
        BY <4>1
    <3>3. Clean'
      BY <3>1, <3>2 DEF Clean
    <3> QED
      BY <1>0, <1>3, <1>s, <3>3, SimArrives DEF IInv
  <2> QED
    BY <2>1, <2>2
<1>4. CASE UserLogic
  <2>1. gpc = "clk" /\ gpc' = "edge" /\ UNCHANGED <<iopc, rx_fifo, conf>>
    BY <1>4 DEF UserLogic, EdgeQuiet, EdgeAnswer, EdgeEmit, Edge, ClockEdge, sharedVars, ioVars
  <2>2. Clean'
    BY <1>0, <2>1 DEF Clean
  <2> QED
    BY <1>0, <1>4, <1>s, <2>2, EdgeArrives DEF IInv
<1>5. CASE Connect
  <2>1. Clean'
    BY <1>0, <1>5 DEF Clean, Connect, IoAccept, sharedVars, devVars
  <2> QED
    BY <1>5, <1>s, <2>1, ConnectArrives DEF IInv
<1>6. CASE ConnectRefused
  <2>1. UNCHANGED <<shadow, h2d, conf, rx_fifo, fnode, gpc, req, regs, conn, iopc>>
    BY <1>6 DEF ConnectRefused, HostConnectFail, glueVars, sharedVars, ioVars, simVars,
                linkVars, devVars
  <2> QED
    BY <1>0, <1>s, <2>1, ArrivesFrame DEF IInv, Clean
<1>7. CASE Kill
  <2>1. conn' # "up" /\ rx_fifo' = <<>> /\ conf' = 0 /\ gpc' = "exit"
    BY <1>7 DEF Kill, CloseDeviceEnd, MemReset
  <2> QED
    BY <1>s, <2>1 DEF Arrives, Clean
<1>8. CASE Restart
  <2>1. /\ gpc = "exit" /\ gpc' = "spawn" /\ regs' = [r \in Regs |-> 0]
        /\ UNCHANGED <<rx_fifo, conf, conn>>
    BY <1>8 DEF Restart, Running, DevReset, linkVars
  <2>2. conn # "up"
    BY <2>1 DEF IInv, NodeInv, ThreadInv
  <2> QED
    BY <1>0, <1>s, <2>1, <2>2 DEF Arrives, Clean
<1>9. CASE UNCHANGED vars
  <2>1. UNCHANGED <<shadow, h2d, conf, rx_fifo, fnode, gpc, req, regs, conn, iopc>>
    BY <1>9 DEF vars, hostVars, glueVars, sharedVars, ioVars, simVars, linkVars, devVars
  <2> QED
    BY <1>0, <1>s, <2>1, ArrivesFrame DEF IInv, Clean
<1> QED
  BY <1>1, <1>2, <1>3, <1>4, <1>5, <1>6, <1>7, <1>8, <1>9 DEF Next
----------------------------------------------------------------------------
(* The data of a read *)

Data == TokenDataInv /\ ReadYourWrites

LEMMA DataFrame ==
  ASSUME TokenDataInv, conn' = "up" => conn = "up",
         UNCHANGED <<h2d, hreq, shadow, iopc, reply, fnode, cur, gpc, rx_fifo, reply_node, req,
                     dread, gin>>
  PROVE  TokenDataInv'
  BY DEF TokenDataInv, Expected

\* Where no read is in the io thread's hands, only the requests matter.
LEMMA DataIdle ==
  ASSUME TokenDataInv, conn' = "up" => conn = "up", UNCHANGED <<hreq, shadow>>,
         iopc' \notin {"wait", "reply"},
         \A i \in 1..Len(h2d') : \E j \in 1..Len(h2d) : h2d'[i] = h2d[j]
  PROVE  TokenDataInv'
  BY DEF TokenDataInv

LEMMA RepliesFrame ==
  ASSUME ReadYourWrites, UNCHANGED <<hreq, shadow>>,
         \A i \in 1..Len(d2h') : d2h'[i].op = "REPLY" => \E j \in 1..Len(d2h) : d2h'[i] = d2h[j]
  PROVE  ReadYourWrites'
  BY DEF ReadYourWrites

LEMMA ForwardData ==
  ASSUME IInv, Data, hpc = "idle", NEW m \in Request, Forward(m),
         UNCHANGED <<d2h, conn, iopc>>
  PROVE  Data'
<1>1. /\ \A i \in 1..Len(h2d) : ~IsRead(h2d[i])
      /\ iopc \notin {"wait", "reply"}
      /\ \A i \in 1..Len(d2h) : d2h[i].op # "REPLY"
  BY DEF IInv, TokenInv, NoStrayReply
<1>2. ReadYourWrites'
  BY <1>1 DEF ReadYourWrites
<1>3. CASE conn = "up"
  <2>1. h2d \in Seq(Request) /\ h2d' = Append(h2d, m) /\ (IsRead(m) => hreq' = m)
    BY <1>3 DEF IInv, TypeOK, LinkTypeOK, Forward, SendToDevice
  <2>2. /\ Len(h2d) \in Nat /\ Len(h2d') = Len(h2d) + 1
        /\ \A i \in 1..Len(h2d) : h2d'[i] = h2d[i]
        /\ h2d'[Len(h2d) + 1] = m
    BY <2>1, AppendFacts
  <2>3. \A i \in 1..Len(h2d') : IsRead(h2d'[i]) => h2d'[i] = hreq'
    BY <1>1, <2>1, <2>2
  <2> QED
    BY <1>1, <1>2, <2>3 DEF Data, TokenDataInv
<1>4. CASE conn # "up"
  BY <1>2, <1>4 DEF Data, TokenDataInv
<1> QED
  BY <1>3, <1>4

LEMMA HostData ==
  ASSUME IInv, Data, HostNext, UNCHANGED <<glueVars, devVars>>
  PROVE  Data'
<1>0. UNCHANGED <<iopc, reply, fnode, cur, gpc, rx_fifo, reply_node, req, dread, gin>>
  BY DEF glueVars, sharedVars, ioVars, simVars, devVars
<1>1. CASE HostProbe
  BY <1>0, <1>1, ForwardData, ProbeReqType DEF HostProbe
<1>2. CASE HostIssue
  BY <1>0, <1>2, ForwardData DEF HostIssue, IInv, TypeOK, HostTypeOK
<1>3. CASE \E m \in GuestCalls : HostCall(m)
  <2>1. UNCHANGED <<h2d, d2h, conn, hreq, shadow>>
    BY <1>3 DEF HostCall, linkVars
  <2> QED
    BY <1>0, <2>1, DataFrame, RepliesFrame DEF Data
<1>4. CASE RecvReply
  <2>1. /\ d2h \in Seq(Message \cup Reply) /\ d2h # <<>> /\ d2h' = Tail(d2h)
        /\ UNCHANGED <<h2d, conn, shadow>>
    BY <1>4 DEF RecvReply, IInv, TypeOK, LinkTypeOK
  <2>2. /\ Head(d2h) \in Message \cup Reply /\ Head(d2h) = d2h[1] /\ 1 \in 1..Len(d2h)
        /\ \A i \in 1..Len(d2h') : d2h'[i] = d2h[i + 1] /\ i + 1 \in 1..Len(d2h)
    BY <2>1, TailFacts
  <2>3. CASE Head(d2h).op = "REPLY"
    <3>1. hreq' = NULL
      BY <1>4, <2>2, <2>3, ReplyBySize DEF RecvReply
    <3>2. ~NoReplyIn(d2h)
      BY <2>2, <2>3 DEF NoReplyIn
    <3>3. iopc \notin {"wait", "reply"} /\ \A i \in 1..Len(h2d) : ~IsRead(h2d[i])
      BY <3>2 DEF IInv, TokenInv
    <3> QED
      BY <1>0, <2>1, <3>1, <3>3 DEF Data, TokenDataInv, ReadYourWrites
  <2>4. CASE Head(d2h).op # "REPLY"
    <3>1. hreq' = hreq
      BY <1>4, <2>2, <2>4, ReplyBySize DEF RecvReply
    <3> QED
      BY <1>0, <2>1, <2>2, <3>1, DataFrame, RepliesFrame DEF Data
  <2> QED
    BY <2>3, <2>4
<1>5. CASE RecvReplyError
  <2>1. conn' # "up" /\ hreq' = NULL
    BY <1>5 DEF RecvReplyError, linkVars
  <2> QED
    BY <2>1 DEF Data, TokenDataInv, ReadYourWrites
<1>6. CASE OnRead
  <2>1. /\ d2h \in Seq(Message \cup Reply) /\ d2h # <<>> /\ d2h' = Tail(d2h)
        /\ UNCHANGED <<h2d, conn, shadow, hreq>>
    BY <1>6 DEF OnRead, IInv, TypeOK, LinkTypeOK
  <2>2. \A i \in 1..Len(d2h') : d2h'[i] = d2h[i + 1] /\ i + 1 \in 1..Len(d2h)
    BY <2>1, TailFacts
  <2> QED
    BY <1>0, <2>1, <2>2, DataFrame, RepliesFrame DEF Data
<1>7. CASE OnReadError \/ HostExit
  <2>1. conn' # "up" /\ d2h' = <<>>
    BY <1>7 DEF OnReadError, HostExit, CloseHostEnd
  <2>2. \A i \in 1..Len(d2h') : FALSE
    BY <2>1, EmptySeq
  <2> QED
    BY <2>1, <2>2 DEF Data, TokenDataInv, ReadYourWrites
<1> QED
  BY <1>1, <1>2, <1>3, <1>4, <1>5, <1>6, <1>7 DEF HostNext

\* The io thread takes a read: it is the one QEMU waits for, and nothing is
\* behind it.
LEMMA TakeRead ==
  ASSUME IInv, Data, conn = "up", NEW m, RecvRequest(m), IsRead(m)
  PROVE  m = hreq /\ m \in Request /\ h2d' = <<>> /\ Len(h2d) = 1 /\ h2d[1] = m
<1>1. /\ m \in Request /\ m = h2d[1] /\ Len(h2d) \in Nat /\ Len(h2d) >= 1
      /\ Len(h2d') = Len(h2d) - 1
  BY TailRequests DEF IInv
<1>2. 1 \in 1..Len(h2d)
  BY <1>1
<1>3. Len(h2d) = 1
  BY <1>1, <1>2 DEF IInv, TokenInv
<1>4. m = hreq
  BY <1>1, <1>2 DEF Data, TokenDataInv
<1>5. h2d' \in Seq(Request)
  BY TailFacts DEF RecvRequest, IInv, TypeOK, LinkTypeOK
<1>6. h2d' = <<>>
  BY <1>1, <1>3, <1>5, EmptySeq
<1> QED
  BY <1>1, <1>3, <1>4, <1>6

LEMMA RecvReadData ==
  ASSUME IInv, Data, Arrives, IoRecvRead, UNCHANGED hostVars
  PROVE  TokenDataInv'
<1>1. PICK m \in Request :
        /\ RecvRequest(m)
        /\ m.op = "READ_CONFIG" \/ (m.op = "READ_MEM" /\ m.bar >= PCIE_BAR_COUNT)
        /\ reply' = IF m.op = "READ_CONFIG" THEN conf ELSE AllOnes
        /\ iopc' = "reply"
  BY DEF IoRecvRead
<1>2. IsRead(m) /\ UNCHANGED <<conn, hreq, shadow>>
  BY <1>1 DEF IsRead, RecvRequest, hostVars
<1> SUFFICES ASSUME conn = "up" PROVE TokenDataInv'
  BY <1>2 DEF TokenDataInv
<1>3. m = hreq /\ h2d' = <<>> /\ Len(h2d) = 1 /\ h2d[1] = m
  BY <1>1, <1>2, TakeRead
<1>4. reply' = Expected
  <2>1. CASE m.op = "READ_CONFIG"
    <3>1. m.addr = "conf" /\ "conf" \in Loc
      BY <2>1 DEF Request, Loc
    <3>2. Coming("conf", shadow["conf"])
      BY <3>1 DEF Arrives
    <3>3. \A i \in 1..Len(h2d) : ~WritesTo(h2d[i], "conf")
      BY <1>2, <1>3 DEF WritesTo
    <3>4. conf = shadow["conf"]
      BY <3>2, <3>3 DEF Coming
    <3> QED
      BY <1>1, <1>3, <2>1, <3>1, <3>4 DEF Expected
  <2>2. CASE m.op = "READ_MEM" /\ m.bar >= PCIE_BAR_COUNT
    BY <1>1, <1>3, <2>2 DEF Expected
  <2> QED
    BY <1>1, <2>1, <2>2
<1>5. \A i \in 1..Len(h2d') : FALSE
  BY <1>3, EmptySeq
<1> QED
  BY <1>1, <1>2, <1>4, <1>5 DEF TokenDataInv, Expected

LEMMA RecvBarReadData ==
  ASSUME IInv, Data, IoRecvBarRead, UNCHANGED hostVars
  PROVE  TokenDataInv'
<1>1. PICK m \in Request, n \in Nodes :
        /\ RecvRequest(m) /\ m.op = "READ_MEM" /\ m.bar < PCIE_BAR_COUNT
        /\ PushAccess(n, m) /\ cur' = n /\ iopc' = "wait" /\ iopc = "recv"
  BY DEF IoRecvBarRead, RecvRequest
<1>2. IsRead(m) /\ UNCHANGED <<conn, hreq, shadow, gpc, reply_node>>
  BY <1>1 DEF IsRead, RecvRequest, hostVars, simVars
<1> SUFFICES ASSUME conn = "up" PROVE TokenDataInv'
  BY <1>2 DEF TokenDataInv
<1>3. m = hreq /\ h2d' = <<>>
  BY <1>1, <1>2, TakeRead
<1>4. \A i \in 1..Len(h2d') : FALSE
  BY <1>3, EmptySeq
<1>5. gpc # "rep" /\ reply_node = NULL
  BY <1>1 DEF IInv, NodeInv
<1>6. /\ rx_fifo \in Seq(Nodes) /\ rx_fifo' = Append(rx_fifo, n)
      /\ n \notin heap /\ fnode \in [Nodes -> FNode]
      /\ fnode' = [fnode EXCEPT ![n] = [is_read |-> m.op = "READ_MEM", addr |-> m.addr,
                                        data |-> m.data, is_replied |-> FALSE]]
  BY <1>1 DEF IInv, TypeOK, SharedTypeOK, PushAccess
<1>7. ~fnode'[n].is_replied /\ fnode'[n].addr = m.addr
  BY <1>6
<1>8. /\ Len(rx_fifo) \in Nat /\ Len(rx_fifo') = Len(rx_fifo) + 1
      /\ \A i \in 1..Len(rx_fifo) : rx_fifo'[i] = rx_fifo[i]
  BY <1>6, AppendFacts
<1>9. \A i \in 1..Len(rx_fifo) : rx_fifo[i] # n
  BY <1>6 DEF IInv, NodeInv
<1>10. \A i \in 1..Len(rx_fifo') : rx_fifo'[i] = n => i = Len(rx_fifo')
  BY <1>8, <1>9
<1> QED
  BY <1>1, <1>2, <1>3, <1>4, <1>5, <1>7, <1>10 DEF TokenDataInv

LEMMA IoData ==
  ASSUME IInv, Data, Arrives, IoNext, UNCHANGED <<hostVars, devVars>>
  PROVE  Data'
<1>0. UNCHANGED <<hreq, shadow, dread>>
  BY DEF hostVars, devVars
<1>s. ASSUME UNCHANGED <<h2d, conn>>, iopc' \notin {"wait", "reply"} PROVE TokenDataInv'
  BY <1>0, <1>s, DataIdle DEF Data
<1>r. ASSUME UNCHANGED d2h PROVE ReadYourWrites'
  BY <1>0, <1>r, RepliesFrame DEF Data
<1>1. CASE IoStart \/ IoEnter \/ IoSelect \/ IoRecvNothing
  BY <1>1, <1>s, <1>r DEF Data, IoStart, IoEnter, IoSelect, IoRecvNothing, linkVars
<1>2. CASE IoEvent \/ IoEndLoop \/ IoFiniServer
  BY <1>2, <1>s, <1>r DEF Data, IoEvent, IoEndLoop, IoFiniServer, linkVars
<1>3. CASE IoKey
  <2>1. UNCHANGED <<h2d, d2h, conn>> /\ iopc' \in {"keys", "batch"}
    BY <1>3 DEF IoKey, linkVars
  <2> QED
    BY <1>s, <1>r, <2>1 DEF Data
<1>4. CASE IoRecvRead
  <2>1. UNCHANGED d2h
    BY <1>4 DEF IoRecvRead, RecvRequest
  <2> QED
    BY <1>4, <1>r, <2>1, RecvReadData DEF Data
<1>5. CASE IoRecvBarRead
  <2>1. UNCHANGED d2h
    BY <1>5 DEF IoRecvBarRead, RecvRequest
  <2> QED
    BY <1>5, <1>r, <2>1, RecvBarReadData DEF Data
<1>6. CASE IoRecvWrite \/ IoRecvBarWrite
  <2>1. PICK m : RecvRequest(m) /\ iopc' = "event"
    BY <1>6 DEF IoRecvWrite, IoRecvBarWrite
  <2>2. \A i \in 1..Len(h2d') : h2d'[i] = h2d[i + 1] /\ i + 1 \in 1..Len(h2d)
    BY <2>1, TailRequests DEF IInv
  <2>3. UNCHANGED <<d2h, conn>>
    BY <2>1 DEF RecvRequest
  <2> QED
    BY <1>0, <1>r, <2>1, <2>2, <2>3, DataIdle DEF Data
<1>7. CASE IoWait
  <2>1. /\ iopc = "wait" /\ fnode[cur].is_replied /\ iopc' = "reply"
        /\ reply' = fnode[cur].data /\ UNCHANGED <<h2d, d2h, conn>>
    BY <1>7 DEF IoWait, linkVars
  <2>2. conn = "up" => reply' = Expected /\ Expected' = Expected
    BY <1>0, <2>1 DEF Data, TokenDataInv, Expected
  <2> QED
    BY <1>0, <1>r, <2>1, <2>2 DEF Data, TokenDataInv
<1>8. CASE IoReply
  <2>1. /\ d2h' = (IF conn = "up" THEN Append(d2h, NetReply(reply)) ELSE d2h)
        /\ UNCHANGED <<h2d, conn>> /\ iopc = "reply" /\ iopc' = "event"
    BY <1>8 DEF IoReply, SendToHost
  <2>2. CASE conn = "up"
    <3>1. NoReplyIn(d2h) /\ NetReply(reply) \in Message \cup Reply /\ reply = Expected
      BY <2>1, <2>2, NetReplyType DEF IInv, TokenInv, TypeOK, IoTypeOK, Data, TokenDataInv
    <3>2. /\ Len(d2h) \in Nat /\ Len(d2h') = Len(d2h) + 1
          /\ \A i \in 1..Len(d2h) : d2h'[i] = d2h[i]
          /\ d2h'[Len(d2h) + 1] = NetReply(reply)
      BY <2>1, <2>2, <3>1, AppendFacts DEF IInv, TypeOK, LinkTypeOK
    <3>3. \A i \in 1..Len(d2h') : d2h'[i].op = "REPLY" => d2h'[i].data = Expected
      <4>1. NetReply(reply).data = reply
        BY DEF NetReply
      <4> QED
        BY <3>1, <3>2, <4>1 DEF NoReplyIn
    <3>4. ReadYourWrites'
      BY <1>0, <3>3 DEF ReadYourWrites, Expected
    <3> QED
      BY <1>s, <2>1, <3>4 DEF Data
  <2>3. CASE conn # "up"
    BY <1>s, <1>r, <2>1, <2>3 DEF Data
  <2> QED
    BY <2>2, <2>3
<1>9. CASE IoBatch
  <2>1. UNCHANGED <<h2d, conn>> /\ iopc' \in {"keys", "batch"}
    BY <1>9 DEF IoBatch
  <2>2. CASE d2h' = d2h
    BY <1>s, <1>r, <2>1, <2>2 DEF Data
  <2>3. CASE d2h' # d2h
    <3>1. /\ batch # <<>> /\ d2h' = Append(d2h, Head(batch))
          /\ batch \in Seq(Message) /\ d2h \in Seq(Message \cup Reply)
      BY <1>9, <2>3 DEF IoBatch, SendToHost, IInv, TypeOK, LinkTypeOK, IoTypeOK
    <3>2. Head(batch) \in Message
      BY <3>1, TailFacts
    <3>3. /\ Len(d2h) \in Nat /\ Len(d2h') = Len(d2h) + 1
          /\ \A i \in 1..Len(d2h) : d2h'[i] = d2h[i]
          /\ d2h'[Len(d2h) + 1].op # "REPLY"
      BY <3>1, <3>2, AppendFacts, MessageOp
    <3>4. ReadYourWrites'
      BY <1>0, <3>3, RepliesFrame DEF Data
    <3> QED
      BY <1>s, <2>1, <3>4 DEF Data
  <2> QED
    BY <2>2, <2>3
<1>10. CASE IoFini
  <2>1. conn' # "up" /\ d2h' \in {d2h, <<>>}
    BY <1>10 DEF IoFini, CloseDeviceEnd
  <2>2. ReadYourWrites'
    BY <1>0, <2>1, EmptySeq, RepliesFrame DEF Data
  <2> QED
    BY <2>1, <2>2 DEF Data, TokenDataInv
<1> QED
  BY <1>1, <1>2, <1>3, <1>4, <1>5, <1>6, <1>7, <1>8, <1>9, <1>10 DEF IoNext

\* The part of TokenDataInv that is about a read the io thread spins on.
Spin ==
  /\ hreq.op = "READ_MEM" /\ hreq.bar < PCIE_BAR_COUNT /\ h2d = <<>>
  /\ fnode[cur].is_replied \/ gpc = "rep" => fnode[cur].data = Expected
  /\ \A i \in 1..Len(rx_fifo) : rx_fifo[i] = cur =>
       i = Len(rx_fifo) /\ fnode[cur].addr = hreq.addr
  /\ reply_node # NULL =>
       /\ rx_fifo = <<>>
       /\ gpc = "clk" /\ req.en /\ ~req.wr => req.addr = hreq.addr
       /\ dread # <<>> => dread[1] = Expected
       /\ gin.rep => gin.data = Expected

\* A step of the simulation thread matters to the read the io thread spins on.
LEMMA SpinStep ==
  ASSUME TokenDataInv, UNCHANGED <<hreq, shadow, h2d, conn, iopc, reply>>,
         (conn = "up" /\ iopc = "wait" /\ Spin) => Spin'
  PROVE  TokenDataInv'
<1>1. Expected' = Expected
  BY DEF Expected
<1>2. CASE conn = "up" /\ iopc = "wait"
  <2>1. Spin
    BY <1>2 DEF TokenDataInv, Spin
  <2>2. Spin'
    BY <1>2, <2>1
  <2> QED
    BY <1>2, <2>2 DEF TokenDataInv, Spin
<1>3. CASE ~(conn = "up" /\ iopc = "wait")
  BY <1>1, <1>3 DEF TokenDataInv
<1> QED
  BY <1>2, <1>3

LEMMA PollSpin ==
  ASSUME IInv, Spin, iopc = "wait", PollRxFifo, UNCHANGED <<hostVars, devVars>>
  PROVE  Spin'
<1>1. /\ gpc = "edge" /\ gpc' = "clk" /\ gin' = NoInput
      /\ UNCHANGED <<hreq, shadow, h2d, iopc, cur, dread>>
  BY DEF PollRxFifo, InputsDone, ioVars, linkVars, hostVars, devVars
<1>2. ~gin'.rep /\ Expected' = Expected
  BY <1>1 DEF NoInput, Expected
<1>3. CASE rx_fifo = <<>>
  <2>1. req' = NoReq /\ UNCHANGED <<rx_fifo, fnode, reply_node>>
    BY <1>3 DEF PollRxFifo
  <2>2. ~req'.en
    BY <2>1 DEF NoReq
  <2> QED
    BY <1>1, <1>2, <2>1, <2>2 DEF Spin
<1>4. CASE rx_fifo # <<>>
  <2> DEFINE n == Head(rx_fifo)
  <2>1. /\ n = rx_fifo[1] /\ 1 \in 1..Len(rx_fifo) /\ n \in Nodes
        /\ \A i \in 1..Len(Tail(rx_fifo)) :
             /\ i + 1 \in 1..Len(rx_fifo) /\ Tail(rx_fifo)[i] = rx_fifo[i + 1]
             /\ Tail(rx_fifo)[i] # n
    BY <1>4, PopNode DEF IInv
  <2>2. /\ rx_fifo' = Tail(rx_fifo) /\ Len(rx_fifo) \in Nat /\ Len(rx_fifo') = Len(rx_fifo) - 1
        /\ rx_fifo' \in Seq(Nodes)
    <3>1. rx_fifo \in Seq(Nodes) /\ rx_fifo' = Tail(rx_fifo)
      BY <1>4 DEF PollRxFifo, IInv, TypeOK, SharedTypeOK
    <3> QED
      BY <1>4, <3>1, TailFacts
  <2>3. reply_node = NULL
    BY <1>4 DEF Spin
  <2>4. /\ fnode[n].is_read => n = cur
        /\ n = cur => fnode[n].is_read
    BY <2>1 DEF IInv, NodeInv
  <2>5. fnode \in [Nodes -> FNode] /\ cur \in Nodes
    BY DEF IInv, TypeOK, SharedTypeOK, IoTypeOK
  <2>6. CASE fnode[n].is_read
    <3>1. /\ reply_node' = n /\ UNCHANGED fnode
          /\ req' = [en |-> TRUE, wr |-> ~fnode[n].is_read, addr |-> fnode[n].addr,
                     data |-> fnode[n].data]
      BY <1>4, <2>3, <2>6 DEF PollRxFifo
    <3>2. req'.addr = fnode[n].addr
      BY <3>1
    <3>3. Len(rx_fifo) = 1 /\ fnode[n].addr = hreq.addr
      BY <2>1, <2>4, <2>6 DEF Spin
    <3>4. rx_fifo' = <<>>
      BY <2>2, <3>3, EmptySeq
    <3>5. \A i \in 1..Len(rx_fifo') : FALSE
      BY <3>4, EmptySeq
    <3>6. dread = <<>>
      BY <2>3 DEF IInv, LogicInv
    <3> QED
      BY <1>1, <1>2, <3>1, <3>2, <3>3, <3>4, <3>5, <3>6 DEF Spin
  <2>7. CASE ~fnode[n].is_read
    <3>1. reply_node' = NULL /\ fnode' = [fnode EXCEPT ![n] = Freed]
      BY <1>4, <2>3, <2>7 DEF PollRxFifo
    <3>2. fnode'[cur] = fnode[cur]
      BY <2>4, <2>5, <2>7, <3>1
    <3>3. \A i \in 1..Len(rx_fifo') : rx_fifo'[i] = cur =>
            i = Len(rx_fifo') /\ fnode'[cur].addr = hreq.addr
      <4> SUFFICES ASSUME NEW i \in 1..Len(rx_fifo'), rx_fifo'[i] = cur
                   PROVE  i = Len(rx_fifo') /\ fnode'[cur].addr = hreq.addr
        OBVIOUS
      <4>1. i + 1 \in 1..Len(rx_fifo) /\ rx_fifo[i + 1] = cur
        BY <2>1, <2>2
      <4>2. i + 1 = Len(rx_fifo) /\ fnode[cur].addr = hreq.addr
        BY <4>1 DEF Spin
      <4>3. i = Len(rx_fifo')
        <5>1. i + 1 = Len(rx_fifo)
          BY <4>2
        <5>2. Len(rx_fifo) \in Nat /\ Len(rx_fifo') = Len(rx_fifo) - 1 /\ i \in Nat
          BY <2>2
        <5> QED
          BY <5>1, <5>2
      <4> QED
        BY <3>2, <4>2, <4>3
    <3> QED
      BY <1>1, <1>2, <3>1, <3>2, <3>3 DEF Spin
  <2> QED
    BY <2>6, <2>7
<1> QED
  BY <1>3, <1>4

LEMMA SimData ==
  ASSUME IInv, ThreadInv, Data, SimNext, UNCHANGED <<hostVars, devVars>>
  PROVE  Data'
<1>0. UNCHANGED <<hreq, shadow, dread>>
  BY DEF hostVars, devVars
<1>d. UNCHANGED <<h2d, d2h, conn, iopc>>
  BY DEF SimNext, GhdlMain, EdgeMsi, EdgeMwr, WriteEvent, EdgeReply, ReplyDone,
         PollRxFifo, GhdlEnd, WriteQuit, Join, ioVars, linkVars
<1>r. ReadYourWrites'
  BY <1>0, <1>d, RepliesFrame DEF Data
<1>e. Expected' = Expected
  BY <1>0 DEF Expected
<1>1. CASE GhdlMain
  <2>1. /\ UNCHANGED <<reply, cur, fnode, rx_fifo, reply_node, req, gin>>
        /\ gpc' = "clk" /\ ~req.en
    BY <1>1 DEF GhdlMain, sharedVars, ioVars, IInv, LogicInv
  <2>2. Spin => Spin'
    BY <1>0, <1>d, <1>e, <2>1 DEF Spin
  <2> QED
    BY <1>0, <1>d, <1>r, <2>1, <2>2, SpinStep DEF Data
<1>2. CASE EdgeMsi \/ EdgeMwr
  <2>1. /\ UNCHANGED <<reply, cur, fnode, rx_fifo, reply_node, req>>
        /\ gpc' = "ev" /\ gin'.rep = gin.rep /\ gin'.data = gin.data
    BY <1>2 DEF EdgeMsi, EdgeMwr, PushTx, simRest, ioVars, IInv, TypeOK, SimTypeOK, Inputs
  <2>2. Spin => Spin'
    BY <1>0, <1>d, <1>e, <2>1 DEF Spin
  <2> QED
    BY <1>0, <1>d, <1>r, <2>1, <2>2, SpinStep DEF Data
<1>3. CASE WriteEvent \/ GhdlEnd \/ WriteQuit
  <2>1. /\ UNCHANGED <<reply, cur, fnode, rx_fifo, reply_node, req, gin>>
        /\ gpc' \notin {"clk", "rep"}
    BY <1>3 DEF WriteEvent, GhdlEnd, WriteQuit, simRest, ioVars
  <2>2. Spin => Spin'
    BY <1>0, <1>d, <1>e, <2>1 DEF Spin
  <2> QED
    BY <1>0, <1>d, <1>r, <2>1, <2>2, SpinStep DEF Data
<1>4. CASE EdgeReply
  <2>1. gin.rep /\ reply_node # NULL
    BY <1>4 DEF EdgeReply, IInv, LogicInv
  <2>2. /\ reply_node' = NULL /\ gpc' = "rep" /\ UNCHANGED <<rx_fifo, cur, reply>>
        /\ fnode' = [fnode EXCEPT ![reply_node].data = gin.data]
    BY <1>4, <2>1 DEF EdgeReply, ioVars
  <2>3. reply_node = cur /\ cur \in Nodes
    BY <2>1 DEF IInv, NodeInv, TypeOK, IoTypeOK
  <2>4. fnode'[cur].data = gin.data /\ fnode'[cur].addr = fnode[cur].addr
    BY <2>2, <2>3 DEF IInv, TypeOK, SharedTypeOK, FNode
  <2>5. Spin => Spin'
    BY <1>0, <1>d, <1>e, <2>1, <2>2, <2>4 DEF Spin
  <2> QED
    BY <1>0, <1>d, <1>r, <2>2, <2>5, SpinStep DEF Data
<1>5. CASE ReplyDone
  <2>1. /\ gpc = "rep" /\ gpc' = "edge" /\ UNCHANGED <<rx_fifo, cur, reply, reply_node, gin>>
        /\ fnode' = [fnode EXCEPT ![gnode].is_replied = TRUE]
    BY <1>5 DEF ReplyDone, ioVars
  <2>2. gnode = cur /\ cur \in Nodes /\ reply_node = NULL
    BY <2>1 DEF IInv, NodeInv, TypeOK, IoTypeOK
  <2>3. fnode'[cur].data = fnode[cur].data /\ fnode'[cur].addr = fnode[cur].addr
    BY <2>1, <2>2 DEF IInv, TypeOK, SharedTypeOK, FNode
  <2>4. Spin => Spin'
    BY <1>0, <1>d, <1>e, <2>1, <2>2, <2>3 DEF Spin
  <2> QED
    BY <1>0, <1>d, <1>r, <2>1, <2>4, SpinStep DEF Data
<1>6. CASE PollRxFifo
  <2>1. UNCHANGED reply
    BY <1>6 DEF PollRxFifo, ioVars
  <2> QED
    BY <1>0, <1>6, <1>d, <1>r, <2>1, PollSpin, SpinStep DEF Data
<1>7. CASE Join
  <2>1. conn' # "up"
    BY <1>7, <1>d DEF Join, ThreadInv
  <2> QED
    BY <1>r, <2>1 DEF Data, TokenDataInv
<1> QED
  BY <1>1, <1>2, <1>3, <1>4, <1>5, <1>6, <1>7 DEF SimNext

\* The user logic samples a read: with nothing behind it and no write before it
\* left, the register holds what the guest wrote last.
LEMMA EdgeData ==
  ASSUME IInv, HostInv, Arrives, Data, NEW msi, NEW mwr, NEW size, NEW rep \in BOOLEAN,
         Edge(msi, mwr, size, rep), UNCHANGED hostVars
  PROVE  Data'
<1>1. /\ gpc = "clk" /\ gpc' = "edge"
      /\ UNCHANGED <<rx_fifo, fnode, reply_node, iopc, reply, cur, conf, req, h2d, d2h, conn,
                     hreq, shadow>>
      /\ gin'.rep = rep /\ gin'.data = (IF rep THEN Head(dread) ELSE 0)
      /\ (rep => dread # <<>>)
  BY DEF Edge, ClockEdge, sharedVars, ioVars, linkVars, hostVars
<1>2. ReadYourWrites'
  BY <1>1, RepliesFrame DEF Data
<1>e. Expected' = Expected
  BY <1>1 DEF Expected
<1>3. ASSUME conn = "up", iopc = "wait", Spin PROVE Spin'
  <2>1. /\ hreq \in Request /\ hreq.op = "READ_MEM" /\ hreq.bar < PCIE_BAR_COUNT
        /\ h2d = <<>>
    <3>1. hpc = "wait" /\ hreq \in Request \cup {NULL}
      BY <1>3 DEF IInv, TokenInv, TypeOK, HostTypeOK
    <3>2. hreq.op = "READ_MEM" /\ hreq.bar < PCIE_BAR_COUNT /\ h2d = <<>>
      BY <1>3 DEF Spin
    <3> QED
      BY <3>1, <3>2 DEF HostInv
  <2>2. hreq.addr \in Regs /\ Expected = shadow[hreq.addr]
    <3>1. hreq.bar \in Nat
      BY <2>1, BarsAssumption DEF Request
    <3> QED
      BY <2>1, <3>1 DEF Request, Expected, PCIE_BAR_COUNT
  <2>3. ASSUME reply_node # NULL
        PROVE  /\ dread' # <<>> => dread'[1] = Expected
               /\ gin'.rep => gin'.data = Expected
    <3>1. rx_fifo = <<>> /\ (req.en /\ ~req.wr => req.addr = hreq.addr)
      BY <1>1, <1>3, <2>3 DEF Spin
    <3>2. dread \in Seq(Vals) /\ (dread # <<>> => Len(dread) = 1 /\ dread[1] = Expected)
      BY <1>3, <2>3 DEF Spin, IInv, TypeOK, LogicInv
    <3>3. gin'.rep => gin'.data = Expected
      BY <1>1, <3>2, TailFacts
    <3>4. CASE req.en /\ ~req.wr
      <4>1. dread = <<>> /\ ~rep
        BY <1>1, <3>4 DEF IInv, LogicInv
      <4>2. dread' = Append(<<>>, regs[req.addr])
        BY <3>4, <4>1 DEF Edge, SampleRequest
      <4>3. dread'[1] = regs[hreq.addr]
        BY <3>1, <3>4, <4>2
      <4>4. Coming(hreq.addr, shadow[hreq.addr])
        BY <1>1, <1>3, <2>2 DEF Arrives, Loc
      <4>5. (\A i \in 1..Len(h2d) : FALSE) /\ (\A i \in 1..Len(rx_fifo) : FALSE)
        BY <2>1, <3>1, EmptySeq
      <4>6. hreq.addr # "conf"
        BY <2>2, RegsAssumption
      <4>7. Queued(hreq.addr, shadow[hreq.addr])
        BY <4>4, <4>5, <4>6 DEF Coming
      <4>8. shadow[hreq.addr] = Held(hreq.addr)
        BY <4>5, <4>7 DEF Queued
      <4>9. Held(hreq.addr) = regs[hreq.addr]
        BY <3>4 DEF Held
      <4> QED
        BY <2>2, <3>3, <4>3, <4>8, <4>9
    <3>5. CASE ~(req.en /\ ~req.wr)
      <4>1. dread' = IF rep THEN Tail(dread) ELSE dread
        BY <3>5 DEF Edge, SampleRequest
      <4>2. rep => Tail(dread) = <<>>
        <5>1. rep => Tail(dread) \in Seq(Vals) /\ Len(Tail(dread)) = 0
          BY <1>1, <3>2, TailFacts
        <5> QED
          BY <5>1, EmptySeq
      <4> QED
        BY <3>2, <3>3, <4>1, <4>2
    <3> QED
      BY <3>4, <3>5
  <2> QED
    BY <1>1, <1>3, <1>e, <2>3 DEF Spin
<1> QED
  BY <1>1, <1>2, <1>3, SpinStep DEF Data

LEMMA InitData == Init => Data
  BY EmptySeq DEF Init, Data, TokenDataInv, ReadYourWrites

LEMMA NextData ==
  ASSUME IInv, ThreadInv, HostInv, WritesInv, Data, [Next]_vars
  PROVE  Data'
<1>0. Arrives
  BY WritesParts
<1>1. CASE HostNext /\ UNCHANGED <<glueVars, devVars, lives>>
  BY <1>1, HostData
<1>2. CASE IoNext /\ UNCHANGED <<hostVars, devVars, lives>>
  BY <1>0, <1>2, IoData
<1>3. CASE SimNext /\ UNCHANGED <<hostVars, devVars, lives>>
  BY <1>3, SimData
<1>4. CASE UserLogic
  BY <1>0, <1>4, EdgeData DEF UserLogic, EdgeQuiet, EdgeAnswer, EdgeEmit
<1>5. CASE Connect
  <2>1. h2d' = <<>> /\ d2h' = <<>> /\ iopc' = "start"
    BY <1>5 DEF Connect, HostConnect, OpenConn, IoAccept
  <2>2. (\A i \in 1..Len(h2d') : FALSE) /\ (\A i \in 1..Len(d2h') : FALSE)
    BY <2>1, EmptySeq
  <2> QED
    BY <2>1, <2>2 DEF Data, TokenDataInv, ReadYourWrites
<1>6. CASE ConnectRefused
  <2>1. UNCHANGED <<h2d, d2h, conn, iopc, reply, fnode, cur, gpc, rx_fifo, reply_node, req,
                    dread, gin, hreq, shadow>>
    BY <1>6 DEF ConnectRefused, HostConnectFail, glueVars, sharedVars, ioVars, simVars,
                linkVars, devVars
  <2> QED
    BY <2>1, DataFrame, RepliesFrame DEF Data
<1>7. CASE Kill
  <2>1. conn' # "up" /\ d2h' \in {d2h, <<>>} /\ UNCHANGED <<hreq, shadow>>
    BY <1>7 DEF Kill, CloseDeviceEnd, hostVars
  <2>2. ReadYourWrites'
    BY <2>1, EmptySeq, RepliesFrame DEF Data
  <2> QED
    BY <2>1, <2>2 DEF Data, TokenDataInv
<1>8. CASE Restart
  <2>1. UNCHANGED <<h2d, d2h, conn, hreq, shadow>> /\ iopc' = "accept"
    BY <1>8 DEF Restart, linkVars, hostVars
  <2> QED
    BY <2>1, DataIdle, RepliesFrame DEF Data
<1>9. CASE UNCHANGED vars
  <2>1. UNCHANGED <<h2d, d2h, conn, iopc, reply, fnode, cur, gpc, rx_fifo, reply_node, req,
                    dread, gin, hreq, shadow>>
    BY <1>9 DEF vars, hostVars, glueVars, sharedVars, ioVars, simVars, linkVars, devVars
  <2> QED
    BY <2>1, DataFrame, RepliesFrame DEF Data
<1> QED
  BY <1>1, <1>2, <1>3, <1>4, <1>5, <1>6, <1>7, <1>8, <1>9 DEF Next

----------------------------------------------------------------------------
(* The invariant of delivery *)

LEMMA DInvParts == DInv <=> IInv /\ Control /\ Events /\ OrderInv /\ WritesInv /\ Data
  BY DEF DInv, Control, Events, Data

LEMMA InitDInv == Init => DInv
  BY InitInv, InitControl, InitEvents, InitOrder, InitWrites, InitData, DInvParts

LEMMA NextDInv == DInv /\ [Next]_vars => DInv'
<1> SUFFICES ASSUME DInv, [Next]_vars PROVE DInv'
  OBVIOUS
<1>1. /\ IInv /\ Control /\ ThreadInv /\ HostInv /\ Events /\ OrderInv /\ WritesInv /\ Data
  BY DInvParts DEF Control
<1>2. IInv'
  BY <1>1, NextInv
<1>3. Control'
  BY <1>1, NextControl
<1>4. Events'
  BY <1>1, NextEvents
<1>5. OrderInv'
  BY <1>1, NextOrder
<1>6. WritesInv'
  BY <1>1, NextWrites
<1>7. Data'
  BY <1>1, NextData
<1> QED
  BY <1>2, <1>3, <1>4, <1>5, <1>6, <1>7 DEF DInv, Control, Events, Data

\* The invariant of delivery holds in every state of a session: the messages
\* and the writes in flight, the events in the pipe and the data of the read
\* are where they should be.
THEOREM Delivery == Spec => []DInv
  BY InitDInv, NextDInv, PTL DEF Spec

\* QEMU never connects to an endpoint process that listens and will not accept
\* (pcie_net_accept_client is called once, and pcie_net_fini closes the
\* listening socket).
THEOREM ConnectSafety == Spec => []NoOrphanConnect
<1>1. DInv => NoOrphanConnect
  BY DEF DInv, HostInv, NoOrphanConnect, ConnectNow
<1> QED
  BY <1>1, Delivery, PTL

\* No wake-up of the io thread is lost: while messages are in tx_fifo, evk_push
\* is in the pipe, in the io thread's hands, or about to be written.
THEOREM NoLostWakeUp == Spec => []WakeUpPending
<1>1. DInv => WakeUpPending
  BY DEF DInv
<1> QED
  BY <1>1, Delivery, PTL

\* What pcie_glue_send_write and pcie_glue_send_msi emit is carried out by QEMU
\* in order and once, up to the point where the connection breaks.
THEOREM DeliveryInOrder == Spec => []InOrder
<1>1. DInv => InOrder
  <2> SUFFICES ASSUME DInv PROVE InOrder
    OBVIOUS
  <2>1. IInv /\ OrderInv
    BY DEF DInv
  <2>2. CASE conn = "up"
    BY <2>1, <2>2 DEF OrderInv, InOrder
  <2>3. CASE conn = "eof_h"
    <3>1. /\ hmem \in Seq(Message) /\ emitted \in Seq(Message) /\ Posted(d2h) \in Seq(Message)
      BY <2>1, SentType DEF IInv, TypeOK, HostTypeOK, SimTypeOK
    <3>2. /\ Len(hmem \o Posted(d2h)) <= Len(emitted)
          /\ SubSeq(emitted, 1, Len(hmem \o Posted(d2h))) = hmem \o Posted(d2h)
      BY <2>1, <2>3 DEF OrderInv
    <3>3. SubSeq(emitted, 1, Len(hmem)) = hmem
      BY <3>1, <3>2, PrefixOfPrefix
    <3> QED
      BY <2>3, <3>3 DEF InOrder
  <2>4. CASE conn \notin {"up", "eof_h"}
    BY <2>4 DEF InOrder
  <2> QED
    BY <2>2, <2>3, <2>4
<1> QED
  BY <1>1, Delivery, PTL

\* A guest read returns what was last written to its register over the
\* connection, through the socket, rx_fifo, the request outputs of the endpoint
\* and the user logic, with the reply coming back the same way.
THEOREM ReadsSeeWrites == Spec => []ReadYourWrites
<1>1. DInv => ReadYourWrites
  BY DEF DInv
<1> QED
  BY <1>1, Delivery, PTL

\* evk_quit is behind every evk_push in the pipe: while the connection is up the
\* io thread leaves its loop only with tx_fifo drained and its list sent.
THEOREM QuitDrainsFifo == Spec => QuitDrains
<1>1. DInv /\ DInv' /\ [Next]_vars =>
        [iopc = "keys" /\ iopc' = "fini" /\ conn = "up" => tx_fifo = <<>> /\ batch = <<>>]_vars
  <2> SUFFICES ASSUME DInv, Next, iopc = "keys", iopc' = "fini", conn = "up"
               PROVE  tx_fifo = <<>> /\ batch = <<>>
    OBVIOUS
  <2>1. IInv /\ ThreadInv /\ QuitInv /\ WakeUpPending
    BY DEF DInv
  <2>2. IoEndLoop
    <3>1. CASE IoNext
      BY <3>1 DEF IoNext, IoStart, IoEnter, IoSelect, IoRecvNothing, IoRecvRead, IoRecvBarRead,
         IoRecvWrite, IoRecvBarWrite, RecvRequest, IoWait, IoReply, IoEvent, IoKey, IoBatch,
         IoFiniServer, IoFini
    <3>2. CASE ~IoNext
      <4>1. iopc' \in {iopc, "accept", "start", "done", "dead"}
        BY <3>2 DEF Next, SimNext, GhdlMain, EdgeMsi, EdgeMwr, WriteEvent, EdgeReply, ReplyDone,
           PollRxFifo, GhdlEnd, WriteQuit, Join, UserLogic, EdgeQuiet, EdgeAnswer, EdgeEmit, Edge,
           ClockEdge, Connect, IoAccept, ConnectRefused, Kill, Restart, glueVars, ioVars
      <4> QED
        BY <4>1
    <3> QED
      BY <3>1, <3>2
  <2>3. must_stop /\ keys = <<>>
    BY <2>2 DEF IoEndLoop
  <2>4. pipe = <<>> /\ gpc = "join"
    BY <2>1, <2>3 DEF QuitInv
  <2>5. tx_fifo = <<>>
    BY <2>1, <2>3, <2>4, EmptySeq DEF WakeUpPending, Running, Elems
  <2> QED
    BY <2>1, <2>5 DEF ThreadInv
<1> QED
  BY <1>1, Delivery, PTL DEF Spec, QuitDrains
=============================================================================
