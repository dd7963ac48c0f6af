------------------------------ MODULE PcieGlue ------------------------------
(***************************************************************************)
(* The endpoint process of a VHDL device: main_ghdl.c starts an io thread  *)
(* (pcie_glue.c, with the event loop of pcie_net.c and the request handler *)
(* of pcie.c) and then runs the GHDL simulation, in which the endpoint     *)
(* entity calls back into pcie_glue.c.  The two threads share two mutex    *)
(* protected fifos, a pipe that wakes the io thread up, reply_node and the *)
(* node a read waits on.                                                   *)
(***************************************************************************)
EXTENDS PcieNet, FiniteSets

CONSTANTS
  Nodes,     \* the addresses malloc can return for a node of the rx fifo
  PipeCap,   \* events the pipe holds before write blocks
  EvBuf      \* events one read of the pipe takes (32 in the code)

ASSUME NodesAssumption == NULL \notin Nodes
ASSUME PipeCapAssumption == PipeCap \in Nat \ {0}
ASSUME EvBufAssumption == EvBuf \in Nat \ {0}

VARIABLES
  (* shared *)
  rx_fifo,     \* nodes of accesses on their way to the simulation
  tx_fifo,     \* messages on their way to the network
  pipe,        \* the events written to ev_fds[1] and not read yet
  reply_node,  \* the read the simulation is to reply to
  fnode,       \* the contents of the nodes
  heap,        \* the nodes that are allocated
  state,       \* thread_context_t.state
  (* io thread *)
  iopc,        \* where the io thread is
  rfds,        \* the descriptors select reported
  cur,         \* the node on_bar_read waits on
  reply,       \* the data of the reply being sent
  keys,        \* the events read from the pipe and not handled yet
  batch,       \* the list on_event detached from tx_fifo
  must_stop,   \* pcie_net_loop's local
  conf,        \* the configuration register
  listening,   \* server_fd is open
  (* simulation thread *)
  gpc,         \* where the simulation thread is
  gin,         \* the inputs of the endpoint that its process has not handled
  gnode,       \* the node pcie_glue_send_reply is replying to
  req,         \* the registered request outputs of the endpoint
  wait_ack,    \* var_req_wait_ack: the request shown is not acknowledged
  emitted      \* every message the device emitted, in order (history)

sharedVars == <<rx_fifo, tx_fifo, pipe, reply_node, fnode, heap, state>>
ioVars == <<iopc, rfds, cur, reply, keys, batch, must_stop, conf,
            listening>>
simVars == <<gpc, gin, gnode, req, wait_ack, emitted>>
glueVars == <<sharedVars, ioVars, simVars>>

----------------------------------------------------------------------------
(* The data of the two threads *)

\* fnode_t.u.bar_access
FNode == [is_read : BOOLEAN, addr : Regs, data : Vals, is_replied : BOOLEAN]

\* What the user logic drives at a clock edge: msi_en, mwr_en with mwr_size,
\* rep_en with rep_data, req_ack.
Inputs == [msi : BOOLEAN, mwr : BOOLEAN, size : 0..Payload,
           rep : BOOLEAN, data : Vals, ack : BOOLEAN]
NoInput == [msi |-> FALSE, mwr |-> FALSE, size |-> 0, rep |-> FALSE,
            data |-> 0, ack |-> FALSE]

\* req_en, req_wr, req_addr and req_data
ReqOut == [en : BOOLEAN, wr : BOOLEAN, addr : Regs, data : Vals]

AnyReg == CHOOSE r \in Regs : TRUE
NoReq == [en |-> FALSE, wr |-> FALSE, addr |-> AnyReg, data |-> 0]

\* What free leaves in a node is of no interest: nobody may look at it
Freed == [is_read |-> FALSE, addr |-> AnyReg, data |-> 0, is_replied |-> FALSE]

SharedTypeOK ==
  /\ rx_fifo \in Seq(Nodes) /\ tx_fifo \in Seq(Message)
  /\ pipe \in Seq({"push", "quit"}) /\ reply_node \in Nodes \cup {NULL}
  /\ fnode \in [Nodes -> FNode] /\ heap \in SUBSET Nodes /\ state \in {0, 1}

IoTypeOK ==
  /\ iopc \in {"accept", "start", "enter", "select", "recv", "wait", "reply",
               "event", "keys", "batch", "fini", "shut", "done", "dead"}
  /\ rfds \in SUBSET {"fd", "ev"} /\ cur \in Nodes \cup {NULL}
  /\ iopc = "wait" => cur \in Nodes
  /\ reply \in Vals \cup {AllOnes} /\ keys \in Seq({"push", "quit"})
  /\ batch \in Seq(Message) /\ must_stop \in BOOLEAN /\ conf \in Vals
  /\ listening \in BOOLEAN

SimTypeOK ==
  /\ gpc \in {"spawn", "clk", "edge", "ev", "rep", "quit", "join", "exit"}
  /\ gin \in Inputs /\ gnode \in Nodes \cup {NULL}
  /\ req \in ReqOut /\ wait_ack \in BOOLEAN /\ emitted \in Seq(Message)

\* The memory of a fresh process
MemInit ==
  /\ rx_fifo = <<>> /\ tx_fifo = <<>> /\ pipe = <<>>
  /\ reply_node = NULL
  /\ fnode = [n \in Nodes |-> Freed] /\ heap = {}
  /\ state = 0
  /\ rfds = {} /\ cur = NULL /\ reply = 0
  /\ keys = <<>> /\ batch = <<>> /\ must_stop = FALSE /\ conf = 0
  /\ gin = NoInput /\ gnode = NULL /\ req = NoReq /\ wait_ack = FALSE

\* The process ends and its memory goes with it; nothing is left of it but the
\* fact that it has ended.
MemReset ==
  /\ rx_fifo' = <<>> /\ tx_fifo' = <<>> /\ pipe' = <<>>
  /\ reply_node' = NULL
  /\ fnode' = [n \in Nodes |-> Freed] /\ heap' = {}
  /\ state' = 0
  /\ rfds' = {} /\ cur' = NULL /\ reply' = 0
  /\ keys' = <<>> /\ batch' = <<>> /\ must_stop' = FALSE /\ conf' = 0
  /\ gin' = NoInput /\ gnode' = NULL /\ req' = NoReq /\ wait_ack' = FALSE

\* main calls pcie_glue_create_thread, and the io thread waits in accept
GlueInit ==
  /\ MemInit
  /\ iopc = "accept" /\ gpc = "spawn" /\ listening = TRUE

----------------------------------------------------------------------------
(* io thread: start and event loop *)

\* pcie_init_net returns from accept
IoAccept ==
  /\ iopc = "accept"
  /\ iopc' = "start"
  /\ emitted' = <<>>
  /\ UNCHANGED <<sharedVars, rfds, cur, reply, keys, batch, must_stop, conf,
                 listening, gpc, gin, gnode, req, wait_ack>>

\* thread_entry: the bars are set and the state is committed ...
IoStart ==
  /\ iopc = "start"
  /\ state' = 1
  /\ iopc' = "enter"
  /\ UNCHANGED <<rx_fifo, tx_fifo, pipe, reply_node, fnode, heap, rfds, cur,
                 reply, keys, batch, must_stop, conf, listening, simVars, linkVars>>

\* ... and tested again before the loop is entered: the simulation may have
\* ended already
IoEnter ==
  /\ iopc = "enter"
  /\ iopc' = IF state = 0 THEN "fini" ELSE "select"
  /\ UNCHANGED <<sharedVars, rfds, cur, reply, keys, batch, must_stop, conf,
                 listening, simVars, linkVars>>

\* select sees the socket readable when a request is there, or end-of-file,
\* and the pipe when an event is.
Readable ==
  {d \in {"fd", "ev"} :
     \/ d = "fd" /\ (h2d # <<>> \/ conn = "eof_d")
     \/ d = "ev" /\ pipe # <<>>}

IoSelect ==
  /\ iopc = "select"
  /\ Readable # {}
  /\ rfds' = Readable
  /\ iopc' = "recv"
  /\ UNCHANGED <<sharedVars, cur, reply, keys, batch, must_stop, conf, listening, simVars, linkVars>>

\* fifo_alloc_access_node, then fifo_push_node on rx_fifo
PushAccess(n, m) ==
  /\ n \in Nodes \ heap
  /\ heap' = heap \cup {n}
  /\ fnode' = [fnode EXCEPT ![n] = [is_read |-> m.op = "READ_MEM",
                                    addr |-> m.addr, data |-> m.data,
                                    is_replied |-> FALSE]]
  /\ rx_fifo' = Append(rx_fifo, n)

\* The socket is not in rfds, or it is at end-of-file: pcie_net_recv_msg fails
IoRecvNothing ==
  /\ iopc = "recv"
  /\ ("fd" \in rfds) => h2d = <<>>
  /\ must_stop' = ("fd" \in rfds)
  /\ iopc' = "event"
  /\ UNCHANGED <<sharedVars, rfds, cur, reply, keys, batch, conf, listening, simVars,
                 linkVars>>

RecvRequest(m) ==
  /\ iopc = "recv" /\ "fd" \in rfds
  /\ h2d # <<>> /\ m = Head(h2d)
  /\ h2d' = Tail(h2d)
  /\ UNCHANGED <<tx_fifo, pipe, reply_node, state, rfds, keys, batch,
                 must_stop, simVars, d2h, conn>>

\* on_msg_recv, PCIE_NET_OP_READ_CONFIG, and PCIE_NET_OP_READ_MEM of a bar the
\* device does not have: the io thread answers at once
IoRecvRead ==
  \E m \in Request :
    /\ RecvRequest(m)
    /\ m.op = "READ_CONFIG" \/ (m.op = "READ_MEM" /\ m.bar >= PCIE_BAR_COUNT)
    /\ reply' = IF m.op = "READ_CONFIG" THEN conf ELSE AllOnes
    /\ iopc' = "reply"
    /\ UNCHANGED <<rx_fifo, fnode, heap, cur, conf, listening>>

\* on_bar_read: the simulation answers, and this thread spins until it has
IoRecvBarRead ==
  \E m \in Request, n \in Nodes :
    /\ RecvRequest(m)
    /\ m.op = "READ_MEM" /\ m.bar < PCIE_BAR_COUNT
    /\ PushAccess(n, m)
    /\ cur' = n
    /\ iopc' = "wait"
    /\ UNCHANGED <<reply, conf, listening>>

\* on_write_config of an ordinary register, and a write to a missing bar
IoRecvWrite ==
  \E m \in Request :
    /\ RecvRequest(m)
    /\ m.op = "WRITE_CONFIG" \/ (m.op = "WRITE_MEM" /\ m.bar >= PCIE_BAR_COUNT)
    /\ conf' = IF m.op = "WRITE_CONFIG" THEN m.data ELSE conf
    /\ iopc' = "event"
    /\ UNCHANGED <<rx_fifo, fnode, heap, cur, reply, listening>>

\* on_bar_write: pushed, not waited for
IoRecvBarWrite ==
  \E m \in Request, n \in Nodes :
    /\ RecvRequest(m)
    /\ m.op = "WRITE_MEM" /\ m.bar < PCIE_BAR_COUNT
    /\ PushAccess(n, m)
    /\ iopc' = "event"
    /\ UNCHANGED <<cur, reply, conf, listening>>

\* Faulty variant: is_replied is not waited for.
IoWait_NoSpin ==
  /\ iopc = "wait"
  /\ reply' = fnode[cur].data
  /\ heap' = heap \ {cur}
  /\ fnode' = [fnode EXCEPT ![cur] = Freed]
  /\ cur' = NULL
  /\ iopc' = "reply"
  /\ UNCHANGED <<rx_fifo, tx_fifo, pipe, reply_node, state, rfds, keys,
                 batch, must_stop, conf, listening, simVars, linkVars>>

\* on_bar_read leaves its loop: the data is copied and the node freed
IoWait ==
  /\ iopc = "wait"
  /\ fnode[cur].is_replied
  /\ reply' = fnode[cur].data
  /\ heap' = heap \ {cur}
  /\ fnode' = [fnode EXCEPT ![cur] = Freed]
  /\ cur' = NULL
  /\ iopc' = "reply"
  /\ UNCHANGED <<rx_fifo, tx_fifo, pipe, reply_node, state, rfds, keys,
                 batch, must_stop, conf, listening, simVars, linkVars>>

\* pcie_net_send_reply
IoReply ==
  /\ iopc = "reply"
  /\ SendToHost(NetReply(reply))
  /\ must_stop' \in {FALSE} \cup (IF conn = "up" THEN {} ELSE {TRUE})
  /\ reply' = 0
  /\ iopc' = "event"
  /\ UNCHANGED <<sharedVars, rfds, cur, keys, batch, conf, listening, simVars,
                 h2d, conn>>

\* The second half of the iteration: the events select reported are read
IoEvent ==
  /\ iopc = "event"
  /\ LET n == IF "ev" \notin rfds THEN 0
              ELSE IF Len(pipe) < EvBuf THEN Len(pipe) ELSE EvBuf
     IN  /\ keys' = SubSeq(pipe, 1, n)
         /\ pipe' = SubSeq(pipe, n + 1, Len(pipe))
  /\ rfds' = {}
  /\ iopc' = "keys"
  /\ UNCHANGED <<rx_fifo, tx_fifo, reply_node, fnode, heap, state, cur, reply,
                 batch, must_stop, conf, listening, simVars, linkVars>>

\* Faulty variant: the list is sent but not detached.
IoKey_NoDetach ==
  /\ iopc = "keys" /\ keys # <<>>
  /\ keys' = Tail(keys)
  /\ IF Head(keys) = "quit"
     THEN must_stop' = TRUE /\ UNCHANGED <<batch, iopc>>
     ELSE batch' = tx_fifo /\ iopc' = "batch" /\ UNCHANGED must_stop
  /\ UNCHANGED <<sharedVars, rfds, cur, reply, conf, listening, simVars, linkVars>>

\* on_event: evk_quit stops the loop, evk_push takes the whole tx_fifo
IoKey ==
  /\ iopc = "keys" /\ keys # <<>>
  /\ keys' = Tail(keys)
  /\ IF Head(keys) = "quit"
     THEN /\ must_stop' = TRUE
          /\ UNCHANGED <<tx_fifo, batch, iopc>>
     ELSE /\ batch' = tx_fifo
          /\ tx_fifo' = <<>>
          /\ iopc' = "batch"
          /\ UNCHANGED must_stop
  /\ UNCHANGED <<rx_fifo, pipe, reply_node, fnode, heap, state, rfds, cur,
                 reply, conf, listening, simVars, linkVars>>

\* on_event: the detached nodes are sent head first
IoBatch ==
  /\ iopc = "batch"
  /\ IF batch = <<>>
     THEN iopc' = "keys" /\ UNCHANGED <<batch, d2h>>
     ELSE /\ SendToHost(Head(batch))
          /\ batch' = Tail(batch)
          /\ UNCHANGED iopc
  /\ UNCHANGED <<sharedVars, rfds, cur, reply, keys, must_stop, conf, listening, simVars,
                 h2d, conn>>

\* Faulty variant: the state alone decides.
IoEndLoop_StateOnly ==
  /\ iopc = "keys" /\ keys = <<>>
  /\ iopc' = IF state = 0 THEN "fini" ELSE "select"
  /\ must_stop' = FALSE
  /\ UNCHANGED <<sharedVars, rfds, cur, reply, keys, batch, conf, listening,
                 simVars, linkVars>>

\* The end of an iteration; when the loop is left, thread_entry re-enters it
\* unless the thread is being joined.
IoEndLoop ==
  /\ iopc = "keys" /\ keys = <<>>
  /\ iopc' = IF must_stop /\ state = 0 THEN "fini" ELSE "select"
  /\ must_stop' = FALSE
  /\ UNCHANGED <<sharedVars, rfds, cur, reply, keys, batch, conf, listening,
                 simVars, linkVars>>

\* Faulty variant: the connection is closed first.
IoFiniServer_ConnFirst ==
  /\ iopc = "fini"
  /\ CloseDeviceEnd
  /\ iopc' = "shut"
  /\ UNCHANGED <<sharedVars, rfds, cur, reply, keys, batch, must_stop, conf,
                 listening, simVars>>

\* pcie_net_fini: the listening socket is closed first ...
IoFiniServer ==
  /\ iopc = "fini"
  /\ listening' = FALSE
  /\ iopc' = "shut"
  /\ UNCHANGED <<sharedVars, rfds, cur, reply, keys, batch, must_stop, conf,
                 simVars, linkVars>>

\* ... then the connection, and thread_entry frees the fifos
IoFini ==
  /\ iopc = "shut"
  /\ CloseDeviceEnd
  /\ heap' = heap \ {rx_fifo[i] : i \in 1..Len(rx_fifo)}
  /\ fnode' = [n \in Nodes |-> IF n \in heap' THEN fnode[n] ELSE Freed]
  /\ rx_fifo' = <<>> /\ tx_fifo' = <<>>
  /\ iopc' = "done"
  /\ UNCHANGED <<pipe, reply_node, state, rfds, cur, reply, keys, batch,
                 must_stop, conf, listening, simVars>>

IoNext ==
  \/ IoStart \/ IoEnter \/ IoSelect \/ IoRecvNothing \/ IoRecvRead \/ IoRecvBarRead
  \/ IoRecvWrite \/ IoRecvBarWrite \/ IoWait \/ IoReply \/ IoEvent \/ IoKey
  \/ IoBatch \/ IoEndLoop \/ IoFiniServer \/ IoFini

----------------------------------------------------------------------------
(* Simulation thread: the process of the endpoint entity, at a clock edge *)

simRest == <<heap, reply_node, rx_fifo, fnode, gnode, req, wait_ack>>

\* main goes on to ghdl_main once the state is committed
GhdlMain ==
  /\ gpc = "spawn" /\ state # 0
  /\ gpc' = "clk"
  /\ UNCHANGED <<sharedVars, ioVars, gin, gnode, req, wait_ack, emitted,
                 linkVars>>

\* A rising edge at which the user logic drives these inputs
ClockEdge(in) ==
  /\ gpc = "clk"
  /\ gin' = in
  /\ gpc' = "edge"
  /\ UNCHANGED <<sharedVars, ioVars, gnode, req, wait_ack, emitted, linkVars>>

\* fifo_push_node on tx_fifo; the event is written in a step of its own
PushTx(op, len, user) ==
  LET m == NetMsg(op, Len(emitted) + 1, len, user)
  IN  /\ tx_fifo' = Append(tx_fifo, m)
      /\ emitted' = Append(emitted, m)
      /\ gpc' = "ev"

\* Faulty variant: the io thread is not told.
EdgeMsi_NoEvent ==
  /\ gpc = "edge" /\ gin.msi
  /\ LET m == NetMsg("MSI", Len(emitted) + 1, 8, 8)
     IN  tx_fifo' = Append(tx_fifo, m) /\ emitted' = Append(emitted, m)
  /\ gin' = [gin EXCEPT !.msi = FALSE]
  /\ UNCHANGED <<gpc, pipe, state, simRest, ioVars, linkVars>>

\* pcie_glue_send_msi
EdgeMsi ==
  /\ gpc = "edge" /\ gin.msi
  /\ PushTx("MSI", 8, 8)
  /\ gin' = [gin EXCEPT !.msi = FALSE]
  /\ UNCHANGED <<pipe, state, simRest, ioVars, linkVars>>

\* pcie_glue_send_write: the message carries the whole payload buffer
EdgeMwr ==
  /\ gpc = "edge" /\ ~gin.msi /\ gin.mwr
  /\ PushTx("WRITE_MEM", Payload, gin.size)
  /\ gin' = [gin EXCEPT !.mwr = FALSE]
  /\ UNCHANGED <<pipe, state, simRest, ioVars, linkVars>>

\* The write to the pipe that ends both; it blocks while the pipe is full
WriteEvent ==
  /\ gpc = "ev" /\ Len(pipe) < PipeCap
  /\ pipe' = Append(pipe, "push")
  /\ gpc' = "edge"
  /\ UNCHANGED <<tx_fifo, state, simRest, gin, emitted, ioVars, linkVars>>

\* Faulty variants: reply_node is not reset; is_replied is set with the data and
\* the node written once more.
EdgeReply_NoReset ==
  /\ gpc = "edge" /\ ~gin.msi /\ ~gin.mwr /\ gin.rep
  /\ gin' = [gin EXCEPT !.rep = FALSE]
  /\ IF reply_node = NULL
     THEN UNCHANGED <<gnode, fnode, gpc>>
     ELSE /\ gnode' = reply_node
          /\ fnode' = [fnode EXCEPT ![reply_node].data = gin.data]
          /\ gpc' = "rep"
  /\ UNCHANGED <<tx_fifo, pipe, state, reply_node, heap, rx_fifo, req, wait_ack,
                 emitted, ioVars, linkVars>>

EdgeReply_FlagFirst ==
  /\ gpc = "edge" /\ ~gin.msi /\ ~gin.mwr /\ gin.rep
  /\ gin' = [gin EXCEPT !.rep = FALSE]
  /\ IF reply_node = NULL
     THEN UNCHANGED <<reply_node, gnode, fnode, gpc>>
     ELSE /\ reply_node' = NULL
          /\ gnode' = reply_node
          /\ fnode' = [fnode EXCEPT ![reply_node].data = gin.data,
                                    ![reply_node].is_replied = TRUE]
          /\ gpc' = "rep"
  /\ UNCHANGED <<tx_fifo, pipe, state, heap, rx_fifo, req, wait_ack, emitted,
                 ioVars, linkVars>>

\* pcie_glue_send_reply up to the barrier: reply_node is taken and the data
\* copied to the node; more_replies_than_requests when there is none.
EdgeReply ==
  /\ gpc = "edge" /\ ~gin.msi /\ ~gin.mwr /\ gin.rep
  /\ gin' = [gin EXCEPT !.rep = FALSE]
  /\ IF reply_node = NULL
     THEN UNCHANGED <<reply_node, gnode, fnode, gpc>>
     ELSE /\ reply_node' = NULL
          /\ gnode' = reply_node
          /\ fnode' = [fnode EXCEPT ![reply_node].data = gin.data]
          /\ gpc' = "rep"
  /\ UNCHANGED <<tx_fifo, pipe, state, heap, rx_fifo, req, wait_ack, emitted,
                 ioVars, linkVars>>

\* ... and the flag the io thread spins on
ReplyDone ==
  /\ gpc = "rep"
  /\ fnode' = [fnode EXCEPT ![gnode].is_replied = TRUE]
  /\ gnode' = NULL
  /\ gpc' = "edge"
  /\ UNCHANGED <<tx_fifo, pipe, state, heap, reply_node, rx_fifo, gin, req,
                 wait_ack, emitted, ioVars, linkVars>>

InputsDone == gpc = "edge" /\ ~gin.msi /\ ~gin.mwr /\ ~gin.rep

\* pcie_glue_poll_rx_fifo pops the head.  A write is freed, a read becomes
\* reply_node; a read that finds one there is freed and not shown.
PollRxFifo ==
  /\ InputsDone
  /\ ~wait_ack \/ gin.ack
  /\ gin' = NoInput
  /\ gpc' = "clk"
  /\ IF rx_fifo = <<>>
     THEN /\ req' = NoReq /\ wait_ack' = FALSE
          /\ UNCHANGED <<rx_fifo, heap, fnode, reply_node>>
     ELSE LET n == Head(rx_fifo)
              shown == ~fnode[n].is_read \/ reply_node = NULL
          IN  /\ rx_fifo' = Tail(rx_fifo)
              /\ req' = IF shown THEN [en |-> TRUE, wr |-> ~fnode[n].is_read,
                                       addr |-> fnode[n].addr,
                                       data |-> fnode[n].data]
                                 ELSE NoReq
              /\ wait_ack' = shown
              /\ reply_node' = IF shown /\ fnode[n].is_read THEN n ELSE reply_node
              /\ IF shown /\ fnode[n].is_read
                 THEN UNCHANGED <<heap, fnode>>
                 ELSE heap' = heap \ {n} /\ fnode' = [fnode EXCEPT ![n] = Freed]
  /\ UNCHANGED <<tx_fifo, pipe, state, gnode, emitted, ioVars, linkVars>>

----------------------------------------------------------------------------
(* Simulation thread: the end *)

\* Faulty variant: the state is not cleared.
GhdlEnd_NoClear ==
  /\ gpc = "clk"
  /\ gpc' = "quit"
  /\ UNCHANGED <<sharedVars, ioVars, gin, gnode, req, wait_ack, emitted, linkVars>>

\* ghdl_main returns; pcie_glue_join_thread clears the state ...
GhdlEnd ==
  /\ gpc = "clk"
  /\ state' = 0
  /\ gpc' = "quit"
  /\ UNCHANGED <<rx_fifo, tx_fifo, pipe, reply_node, fnode, heap, ioVars, gin,
                 gnode, req, wait_ack, emitted, linkVars>>

\* ... and writes evk_quit ...
WriteQuit ==
  /\ gpc = "quit" /\ Len(pipe) < PipeCap
  /\ pipe' = Append(pipe, "quit")
  /\ gpc' = "join"
  /\ UNCHANGED <<tx_fifo, state, simRest, gin, emitted, ioVars, linkVars>>

\* ... and waits for the io thread
Join ==
  /\ gpc = "join" /\ iopc = "done"
  /\ gpc' = "exit"
  /\ MemReset
  /\ UNCHANGED <<iopc, listening, emitted, linkVars>>

\* The simulation steps that do not depend on the user logic.  (Holding a request
\* until a user logic that drives req_ack takes it is in DmaEngine.)
SimNext ==
  \/ GhdlMain \/ EdgeMsi \/ EdgeMwr \/ WriteEvent \/ EdgeReply \/ ReplyDone
  \/ PollRxFifo \/ GhdlEnd \/ WriteQuit \/ Join
=============================================================================
