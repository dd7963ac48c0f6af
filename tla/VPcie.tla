------------------------------- MODULE VPcie -------------------------------
(***************************************************************************)
(* A whole session: a guest in QEMU (Pciefw), the endpoint process of a    *)
(* VHDL device (PcieGlue), the TCP connection between them (PcieNet), and  *)
(* the user logic behind the endpoint entity.  The user logic is a bank of *)
(* read-write registers wired as in sbone (req_ack tied to '1', one rep_en *)
(* pulse for each read, some clocks later), which also posts writes to the *)
(* host's memory and MSIs as the dma and ebone designs do.  The endpoint   *)
(* process may end, or die, and be started again.                          *)
(***************************************************************************)
EXTENDS Pciefw, PcieGlue

CONSTANTS
  Sizes,     \* the mwr_size values the user logic drives
  MaxTx,     \* bound on the messages the device emits over one connection
  MaxLives   \* bound on the endpoint processes of a behaviour

ASSUME SizesAssumption == Sizes \subseteq 1..Payload
ASSUME MaxTxAssumption == MaxTx \in Nat
ASSUME MaxLivesAssumption == MaxLives \in Nat

VARIABLES
  regs,      \* the registers of the user logic
  dread,     \* the reads it has accepted and not answered: their data
  lives      \* endpoint processes started so far (bounded by MaxLives)

devVars == <<regs, dread>>
vars == <<linkVars, hostVars, glueVars, devVars, lives>>

DevInit ==
  /\ regs = [r \in Regs |-> 0]
  /\ dread = <<>>

DevReset ==
  /\ regs' = [r \in Regs |-> 0]
  /\ dread' = <<>>

Init ==
  /\ h2d = <<>> /\ d2h = <<>> /\ conn = "none"
  /\ HostInit
  /\ GlueInit /\ emitted = <<>>
  /\ DevInit
  /\ lives = 1

----------------------------------------------------------------------------
(* The user logic *)

\* The request outputs of the endpoint, sampled at an edge: reg_rw stores a
\* write, or starts a reply with what it holds.
SampleRequest(pending) ==
  /\ regs' = IF req.en /\ req.wr THEN [regs EXCEPT ![req.addr] = req.data] ELSE regs
  /\ dread' = IF req.en /\ ~req.wr THEN Append(pending, regs[req.addr]) ELSE pending

\* A clock edge.  Whether the oldest read is answered at this edge and what is
\* emitted is the user logic's choice.
Edge(msi, mwr, size, rep) ==
  /\ rep => dread # <<>>
  /\ msi \/ mwr => Len(emitted) < MaxTx
  /\ msi /\ mwr => Len(emitted) + 1 < MaxTx
  /\ ~mwr => size = 0
  /\ ClockEdge([msi |-> msi, mwr |-> mwr, size |-> size, rep |-> rep,
                data |-> IF rep THEN Head(dread) ELSE 0, ack |-> TRUE])
  /\ SampleRequest(IF rep THEN Tail(dread) ELSE dread)

EdgeQuiet == Edge(FALSE, FALSE, 0, FALSE)
EdgeAnswer == Edge(FALSE, FALSE, 0, TRUE)
EdgeEmit == \E msi, mwr, rep \in BOOLEAN, size \in Sizes \cup {0} :
              (msi \/ mwr) /\ (mwr => size # 0) /\ Edge(msi, mwr, size, rep)

----------------------------------------------------------------------------
(* The two processes *)

\* QEMU connects to the process that waits in accept
Connect ==
  /\ HostConnect
  /\ IoAccept
  /\ UNCHANGED <<devVars, lives>>

\* nothing listens: the connection is refused
ConnectRefused ==
  /\ ~listening
  /\ HostConnectFail
  /\ UNCHANGED <<glueVars, devVars, lives>>

Running == gpc # "exit"

\* The endpoint process dies, of a signal (SIGPIPE of a send, for one).  Its
\* memory goes with it.
Kill ==
  /\ Running
  /\ CloseDeviceEnd
  /\ gpc' = "exit" /\ iopc' = "dead" /\ listening' = FALSE
  /\ MemReset /\ DevReset
  /\ UNCHANGED <<hostVars, emitted, lives>>

\* and its user starts it again
Restart ==
  /\ ~Running /\ lives < MaxLives
  /\ lives' = lives + 1
  /\ iopc' = "accept" /\ gpc' = "spawn" /\ listening' = TRUE
  /\ DevReset
  /\ UNCHANGED <<linkVars, hostVars, rx_fifo, tx_fifo, pipe, reply_node, fnode,
                 heap, state, rfds, cur, reply, keys, batch, must_stop, conf,
                 gin, gnode, req, wait_ack, emitted>>

UserLogic == (EdgeQuiet \/ EdgeAnswer \/ EdgeEmit) /\ UNCHANGED <<hostVars, lives>>

Next ==
  \/ HostNext /\ UNCHANGED <<glueVars, devVars, lives>>
  \/ IoNext /\ UNCHANGED <<hostVars, devVars, lives>>
  \/ SimNext /\ UNCHANGED <<hostVars, devVars, lives>>
  \/ UserLogic
  \/ Connect
  \/ ConnectRefused
  \/ Kill
  \/ Restart

Spec == Init /\ [][Next]_vars

----------------------------------------------------------------------------
(* Safety *)

\* Every variable has its type, whatever the two processes and the threads of
\* the endpoint process do to each other.
TypeOK ==
  /\ LinkTypeOK /\ HostTypeOK /\ SharedTypeOK /\ IoTypeOK /\ SimTypeOK
  /\ regs \in [Regs -> Vals] /\ dread \in Seq(Vals) /\ lives \in Nat

Elems(s) == {s[i] : i \in 1..Len(s)}

\* No thread touches a node that is freed: not the io thread while it spins on
\* is_replied, not the simulation thread through rx_fifo, through reply_node or
\* between the barrier and the store to is_replied in pcie_glue_send_reply
\* ("node can no longer be accessed, may be freed").
NoUseAfterFree ==
  Running =>
    /\ iopc = "wait" => cur \in heap
    /\ Elems(rx_fifo) \subseteq heap
    /\ reply_node # NULL => reply_node \in heap
    /\ gpc = "rep" => gnode \in heap

\* Neither "should_not_occur" of pcie_glue.c occurs: a read polled from rx_fifo
\* finds reply_node free, and a rep_en pulse finds a read to reply to.
ShouldNotOccur ==
  Running =>
    /\ \A i \in 1..Len(rx_fifo) : fnode[rx_fifo[i]].is_read => reply_node = NULL
    /\ (gpc = "edge" /\ gin.rep) => reply_node # NULL

\* Replies carry no tag, so QEMU takes the next one it receives: there is at
\* most one on the connection, and QEMU is waiting for it.  A reply that came
\* late would be handled by pciefw_on_read as a message, or answer another read.
NoStrayReply ==
  \A i \in 1..Len(d2h) : d2h[i].op = "REPLY" =>
    /\ hpc = "wait"
    /\ \A j \in 1..Len(d2h) : d2h[j].op = "REPLY" => j = i

----------------------------------------------------------------------------
(* The inductive invariant behind the three *)

NoReplyIn(s) == \A i \in 1..Len(s) : s[i].op # "REPLY"

\* A read is a token that is in one place at a time: at the end of the request
\* stream, in the io thread, or as a reply on its way back.
TokenInv ==
  /\ \A i \in 1..Len(h2d) : IsRead(h2d[i]) =>
       /\ i = Len(h2d)
       /\ hpc \in {"wait", "exit"} /\ iopc \notin {"wait", "reply"}
       /\ NoReplyIn(d2h)
  /\ iopc \in {"wait", "reply"} => hpc \in {"wait", "exit"} /\ NoReplyIn(d2h)
  /\ conn = "eof_h" => h2d = <<>> /\ iopc \in {"accept", "done", "dead"}
  /\ hpc = "exit" => d2h = <<>>
  /\ conn = "eof_d" => hpc = "exit"
  /\ hpc = "exit" => conn \in {"eof_d", "none"}

\* The node of that read is the only read node there is: in rx_fifo, in
\* reply_node, in the hands of pcie_glue_send_reply, or replied.
NodeInv ==
  /\ iopc = "wait" => cur \in heap
  /\ \A i \in 1..Len(rx_fifo) :
       /\ rx_fifo[i] \in heap
       /\ ~fnode[rx_fifo[i]].is_replied
       /\ \A j \in 1..Len(rx_fifo) : rx_fifo[i] = rx_fifo[j] => i = j
       /\ fnode[rx_fifo[i]].is_read =>
            iopc = "wait" /\ rx_fifo[i] = cur /\ reply_node = NULL /\ gpc # "rep"
       /\ iopc = "wait" /\ rx_fifo[i] = cur => fnode[cur].is_read
  /\ reply_node # NULL =>
       iopc = "wait" /\ reply_node = cur /\ ~fnode[cur].is_replied /\ gpc # "rep"
  /\ gpc = "rep" => iopc = "wait" /\ gnode = cur /\ ~fnode[cur].is_replied
  /\ gpc = "exit" => iopc \in {"done", "dead"}

\* The user logic has the read of reply_node, and no other, in one place.
LogicInv ==
  /\ gpc \in {"spawn", "exit"} => ~req.en
  /\ gpc = "clk" /\ req.en /\ ~req.wr => reply_node # NULL /\ dread = <<>>
  /\ dread # <<>> => Len(dread) = 1 /\ reply_node # NULL /\ ~gin.rep
  /\ gin.rep => gpc \in {"edge", "ev"} /\ reply_node # NULL

\* The invariant of the read protocol: with at most one read in the system, its
\* token, its node and the user logic's copy of it are where they should be,
\* over any number of connections and restarts of the endpoint process.
IInv == TypeOK /\ TokenInv /\ NodeInv /\ LogicInv /\ NoStrayReply

----------------------------------------------------------------------------
(* What the session preserves *)

\* "size" is the user data buffer size of a posted write, at most the payload:
\* what reaches the host's memory is what the user logic asked to write.
\* pcie_glue_send_write takes the size of the whole buffer instead, so memory
\* beyond the user's data is written too.
UserSizeRespected ==
  \A i \in 1..Len(hmem) : hmem[i].op = "WRITE_MEM" => hmem[i].len = hmem[i].user

\* A read pushes the posted writes ahead of it, so that a guest which polls the
\* status of a transfer finds the data in memory: nothing the device emitted
\* waits in tx_fifo when it answers a read.  on_bar_read spins on the reply, and
\* the io thread sends it before it looks at tx_fifo again, so it overtakes.
ReadPushes == gpc = "rep" => tx_fifo = <<>>

\* A read returns what the guest last wrote to that register over this
\* connection, however the writes ahead of it are spread over the socket,
\* rx_fifo, the endpoint's outputs and the user logic.
ReadYourWrites ==
  \A i \in 1..Len(d2h) : (d2h[i].op = "REPLY" /\ hreq # NULL) =>
    d2h[i].data = IF hreq.op = "READ_MEM" /\ hreq.bar >= PCIE_BAR_COUNT
                  THEN AllOnes ELSE shadow[hreq.addr]

ReplyAt(s) == {i \in 1..Len(s) : s[i].op = "REPLY"}

\* The posted messages among those on the connection: by NoStrayReply there is
\* no more than one reply between them
Posted(s) ==
  IF ReplyAt(s) = {} THEN s
  ELSE LET k == CHOOSE i \in ReplyAt(s) : TRUE
       IN  SubSeq(s, 1, k - 1) \o SubSeq(s, k + 1, Len(s))

\* What the device emits reaches QEMU in order, once each: a posted write is in
\* memory before the MSI that follows it.  Between the fifo, the list on_event
\* detached and the socket nothing is lost, duplicated or reordered while the
\* connection is up; when it breaks, what was delivered is a prefix.
InOrder ==
  /\ (conn = "up" /\ Running) => hmem \o Posted(d2h) \o batch \o tx_fifo = emitted
  /\ conn = "eof_h" => SubSeq(emitted, 1, Len(hmem)) = hmem

\* No wake-up is lost: when a message is in tx_fifo, an event that will make
\* the io thread drain the fifo is in the pipe, in its hands, or about to be
\* written.
WakeUpPending ==
  (Running /\ tx_fifo # <<>> /\ iopc \notin {"accept", "start", "done"}) =>
    \/ gpc = "ev"
    \/ "push" \in Elems(pipe)
    \/ "push" \in Elems(keys)

\* evk_quit does not overtake: when the io thread leaves its loop because the
\* simulation ended, everything the device emitted has been sent.  (A thread
\* that finds the state cleared before it enters the loop sends nothing.)
QuitDrains ==
  [][iopc = "keys" /\ iopc' = "fini" /\ conn = "up"
       => tx_fifo = <<>> /\ batch = <<>>]_vars

\* QEMU never connects to a process that will not accept: the connection would
\* sit in the backlog of the listening socket and the first read of the probe
\* would block QEMU for ever.
NoOrphanConnect == ConnectNow => (iopc = "accept" \/ ~listening)

----------------------------------------------------------------------------
(* The inductive invariant behind these *)

\* The io thread's lists are empty outside of the part of the loop that uses
\* them, and both threads' before the simulation has started.
ThreadInv ==
  /\ iopc \in {"accept", "start"} => gpc = "spawn" /\ state = 0
  /\ gpc \in {"spawn", "exit"} => tx_fifo = <<>> /\ pipe = <<>>
  /\ gpc = "exit" => state = 0
  /\ batch # <<>> => iopc = "batch"
  /\ keys # <<>> => iopc \in {"keys", "batch"}
  /\ must_stop => iopc \in {"event", "keys", "batch"}
  /\ iopc \in {"accept", "done", "dead"} => conn # "up"

\* QEMU has no socket only where the endpoint process accepts or refuses.
HostInv ==
  /\ iopc \in {"shut", "done", "dead"} => ~listening
  /\ hpc = "init" => ~hsock
  /\ hpc = "wait" => hsock
  /\ ~hsock /\ hpc # "exit" => iopc = "accept" \/ ~listening
  /\ hpc = "wait" <=> hreq # NULL
  /\ hreq # NULL => IsRead(hreq)

\* evk_quit is the last event there is, and while the connection is up nothing
\* else stops the loop.
QuitInv ==
  /\ \A i \in 1..Len(pipe) : pipe[i] = "quit" => i = Len(pipe) /\ gpc = "join"
  /\ \A i \in 1..Len(keys) : keys[i] = "quit" =>
       i = Len(keys) /\ pipe = <<>> /\ gpc = "join"
  /\ must_stop /\ conn = "up" => keys = <<>> /\ pipe = <<>> /\ gpc = "join"
  /\ iopc = "recv" /\ "fd" \in rfds /\ conn = "up" => h2d # <<>>

\* What QEMU has carried out, then the connection, the detached list and the
\* fifo, are what was emitted; behind a break the first two are a prefix.
OrderInv ==
  LET sent == hmem \o Posted(d2h)
  IN  /\ conn = "up" => sent \o batch \o tx_fifo = emitted
      /\ conn = "eof_h" =>
           Len(sent) <= Len(emitted) /\ SubSeq(emitted, 1, Len(sent)) = sent

WritesTo(m, l) ==
  ~IsRead(m) /\ m.addr = l /\ (m.op = "WRITE_MEM" => m.bar < PCIE_BAR_COUNT)

NodeWritesTo(n, r) == ~fnode[n].is_read /\ fnode[n].addr = r

\* What register r holds once the user logic has sampled the request shown
Held(r) == IF gpc = "clk" /\ req.en /\ req.wr /\ req.addr = r THEN req.data ELSE regs[r]

\* r holds v once the writes in rx_fifo are carried out
Queued(r, v) ==
  \/ v = Held(r) /\ \A i \in 1..Len(rx_fifo) : ~NodeWritesTo(rx_fifo[i], r)
  \/ \E i \in 1..Len(rx_fifo) :
       /\ NodeWritesTo(rx_fifo[i], r) /\ fnode[rx_fifo[i]].data = v
       /\ \A j \in (i + 1)..Len(rx_fifo) : ~NodeWritesTo(rx_fifo[j], r)

\* l holds v once the writes on the connection are carried out too
Coming(l, v) ==
  \/ /\ IF l = "conf" THEN v = conf ELSE Queued(l, v)
     /\ \A i \in 1..Len(h2d) : ~WritesTo(h2d[i], l)
  \/ \E i \in 1..Len(h2d) :
       /\ WritesTo(h2d[i], l) /\ h2d[i].data = v
       /\ \A j \in (i + 1)..Len(h2d) : ~WritesTo(h2d[j], l)

\* The writes in flight lead to what the guest wrote last.  The registers are
\* out of reach when the simulation has ended.
WritesInv ==
  /\ conn = "up" => \A l \in Loc :
       l = "conf" \/ gpc \notin {"quit", "join"} => Coming(l, shadow[l])
  /\ iopc = "accept" => rx_fifo = <<>> /\ conf = 0
  /\ gpc = "exit" => rx_fifo = <<>> /\ conf = 0
  /\ gpc = "spawn" => regs = [r \in Regs |-> 0]

Expected == IF hreq.op = "READ_MEM" /\ hreq.bar >= PCIE_BAR_COUNT
            THEN AllOnes ELSE shadow[hreq.addr]

\* The read behind them keeps its address, has no write behind it, and from the
\* user logic on carries the data.
TokenDataInv ==
  conn = "up" =>
    /\ \A i \in 1..Len(h2d) : IsRead(h2d[i]) => h2d[i] = hreq
    /\ iopc = "reply" => reply = Expected
    /\ iopc = "wait" =>
         /\ hreq.op = "READ_MEM" /\ hreq.bar < PCIE_BAR_COUNT /\ h2d = <<>>
         /\ fnode[cur].is_replied \/ gpc = "rep" => fnode[cur].data = Expected
         /\ \A i \in 1..Len(rx_fifo) : rx_fifo[i] = cur =>
              i = Len(rx_fifo) /\ fnode[cur].addr = hreq.addr
         /\ reply_node # NULL =>
              /\ rx_fifo = <<>>
              /\ gpc = "clk" /\ req.en /\ ~req.wr => req.addr = hreq.addr
              /\ dread # <<>> => dread[1] = Expected
              /\ gin.rep => gin.data = Expected

\* The invariant of delivery: in each direction the fifos, lists and sockets
\* together hold what the other side has not seen yet, in order.
DInv ==
  /\ IInv /\ ThreadInv /\ HostInv /\ QuitInv /\ WakeUpPending /\ OrderInv
  /\ WritesInv /\ TokenDataInv /\ ReadYourWrites

----------------------------------------------------------------------------
(* Liveness *)

\* Both threads run, an answer of the user logic comes after a bounded number
\* of clocks, and QEMU finishes the handlers it is in and serves its
\* descriptors.  Guest accesses, the ends of the processes and emissions are
\* not bound to happen.
Fairness ==
  /\ WF_vars(IoNext /\ UNCHANGED <<hostVars, devVars, lives>>)
  /\ WF_vars((SimNext /\ gpc # "clk" /\ UNCHANGED <<hostVars, devVars, lives>>) \/ UserLogic)
  /\ SF_vars(EdgeAnswer /\ UNCHANGED <<hostVars, lives>>)
  /\ WF_vars((HostProbe \/ HostIssue \/ RecvReply \/ RecvReplyError \/ OnRead
              \/ OnReadError) /\ UNCHANGED <<glueVars, devVars, lives>>)
  /\ WF_vars(Connect)
  /\ WF_vars(ConnectRefused)

FairSpec == Spec /\ Fairness

\* Each thread waits for the other: the io thread spins in on_bar_read, and the
\* simulation thread, which should reply, is blocked in write on the full pipe
\* that only the io thread empties.
PipeDeadlock == iopc = "wait" /\ gpc = "ev" /\ Len(pipe) = PipeCap

\* A guest read comes back: answered, or failed because the endpoint process
\* is gone.  There are two exceptions, and no other.  A simulation that ends
\* first leaves the io thread spinning in on_bar_read, and QEMU blocked with
\* it; and the pipe may fill up while the read waits.
ReadReturns ==
  (hpc = "wait") ~> (hpc # "wait" \/ gpc \in {"quit", "join"} \/ PipeDeadlock)

\* Joining the io thread ends, unless it is inside on_bar_read.
JoinEnds == (gpc = "join") ~> (gpc = "exit" \/ iopc = "wait")

\* What the device emits is delivered, if the connection lasts, the simulation
\* and QEMU go on, and the two threads do not block each other.
Delivered ==
  \A k \in 1..MaxTx :
    (Len(emitted) >= k /\ conn = "up")
      ~> (Len(hmem) >= k \/ conn # "up" \/ gpc \in {"quit", "join", "exit"}
          \/ hpc = "exit" \/ PipeDeadlock)
=============================================================================
