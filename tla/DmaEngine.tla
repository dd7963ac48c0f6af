----------------------------- MODULE DmaEngine -----------------------------
(***************************************************************************)
(* The VHDL dma design (dma.vhdl, wired by main.vhdl to the endpoint): one *)
(* action per rising edge, in which every clocked process reads the values *)
(* from before the edge.  The processes of the state machine are sensitive *)
(* to dma_state (and ctl_data) only, so what they assign when a state is   *)
(* entered is computed from signals as they are in that delta cycle: the   *)
(* registers are new, but dma_off and dma_ptr, one and two deltas behind,  *)
(* still follow the counter from before the edge.                          *)
(***************************************************************************)
EXTENDS Naturals, Sequences

CONSTANTS
  Programs,   \* the sequences of requests a host may issue
  Block,      \* DMA_BLOCK_SIZE
  Width       \* the modulus of dma_off and dma_counter_reg, 2^16 in the code

ASSUME BlockAssumption == Block \in Nat \ {0}
ASSUME WidthAssumption == Width \in Nat \ {0} /\ Width % Block = 0

VARIABLES
  (* endpoint *)
  rx,         \* requests queued for the endpoint
  req,        \* req_en, req_wr, req_addr, req_data
  wait_ack,   \* var_req_wait_ack
  reading,    \* reply_node # NULL
  (* registers *)
  data,       \* reg_wo.data of each register
  latched,    \* reg_wo.reg_data: ctl_data, adl_data, adh_data, baz_data
  sta,        \* reg_ro.data of DMA_REG_STA
  rep,        \* rep_en and rep_data of DMA_REG_STA
  (* engine *)
  dma_state, dma_counter_reg, dma_size, dma_addr, dma_msi_en,
  mwr_off,    \* mwr_addr - dma_addr
  sta_n,      \* sta_set_data(15 downto 0) of write_done
  (* history *)
  written,    \* offsets written since the last start
  started,    \* a transfer was started
  msi         \* an MSI was sent at the last edge

endpointVars == <<rx, req, wait_ack, reading>>
regVars == <<data, latched, sta, rep>>
engineVars == <<dma_state, dma_counter_reg, dma_size, dma_addr, dma_msi_en,
                mwr_off, sta_n>>
vars == <<endpointVars, regVars, engineVars, written, started, msi>>

WoRegs == {"CTL", "ADL", "ADH", "BAZ"}

\* The value of a register: S, I and N of DMA_REG_CTL; the others use n
Zero == [s |-> FALSE, i |-> FALSE, n |-> 0]
Value == [s : BOOLEAN, i : BOOLEAN, n : 0..(Width - 1)]
Request == [wr : BOOLEAN, reg : WoRegs \cup {"STA"}, v : Value]

ASSUME ProgramsAssumption == Programs \subseteq Seq(Request)

NoReq == [en |-> FALSE, wr |-> FALSE, reg |-> "STA", v |-> Zero]
NoRep == [en |-> FALSE, d |-> FALSE, n |-> 0]

Init ==
  /\ rx \in Programs /\ req = NoReq /\ wait_ack = FALSE /\ reading = FALSE
  /\ data = [r \in WoRegs |-> Zero] /\ latched = [r \in WoRegs |-> Zero]
  /\ sta = [d |-> FALSE, n |-> 0] /\ rep = NoRep
  /\ dma_state = "idle" /\ dma_counter_reg = 0 /\ dma_size = 0
  /\ dma_addr = <<0, 0>> /\ dma_msi_en = FALSE /\ mwr_off = 0 /\ sta_n = 0
  /\ written = {} /\ started = FALSE /\ msi = FALSE

----------------------------------------------------------------------------
(* The engine *)

\* A faulty variant: the product is not cut to the width of dma_off.
Off_NoTrunc == dma_counter_reg * Block

\* mul_pow2: dma_off = dma_counter_reg * DMA_BLOCK_SIZE, truncated
Off == (dma_counter_reg * Block) % Width

\* Faulty variants: the last block is left out; the size is one too large.
NextState_Early ==
  CASE dma_state = "idle" -> IF latched["CTL"].s THEN "write_start" ELSE "idle"
    [] dma_state = "write_start" -> "write_one"
    [] dma_state = "write_one" -> "write_next"
    [] dma_state = "write_next" -> IF Off + Block >= dma_size THEN "write_done" ELSE "write_one"
    [] dma_state = "write_done" -> "idle"

NextState_OffByOne ==
  CASE dma_state = "idle" -> IF latched["CTL"].s THEN "write_start" ELSE "idle"
    [] dma_state = "write_start" -> "write_one"
    [] dma_state = "write_one" -> "write_next"
    [] dma_state = "write_next" -> IF Off = dma_size + 1 THEN "write_done" ELSE "write_one"
    [] dma_state = "write_done" -> "idle"

\* dma_next_state
NextState ==
  CASE dma_state = "idle" -> IF latched["CTL"].s THEN "write_start" ELSE "idle"
    [] dma_state = "write_start" -> "write_one"
    [] dma_state = "write_one" -> "write_next"
    [] dma_state = "write_next" -> IF Off = dma_size THEN "write_done" ELSE "write_one"
    [] dma_state = "write_done" -> "idle"

\* What the output process assigns when a state is entered
Outputs ==
  /\ IF NextState = "write_start"
     THEN /\ dma_size' = latched'["CTL"].n
          /\ dma_addr' = <<latched'["ADH"].n, latched'["ADL"].n>>
          /\ dma_msi_en' = latched'["CTL"].i
     ELSE UNCHANGED <<dma_size, dma_addr, dma_msi_en>>
  /\ mwr_off' = IF NextState = "write_one" THEN Off ELSE mwr_off
  /\ sta_n' = IF NextState = "write_done" THEN Off ELSE sta_n

Engine ==
  /\ dma_state' = NextState
  /\ dma_counter_reg' =
       CASE dma_state = "write_start" -> 0
         [] dma_state = "write_next" -> (dma_counter_reg + 1) % Width
         [] OTHER -> dma_counter_reg
  /\ Outputs

----------------------------------------------------------------------------
(* The registers *)

Registers ==
  /\ data' = [r \in WoRegs |->
                IF r = "CTL" /\ dma_state = "write_start" THEN Zero
                ELSE IF req.en /\ req.wr /\ req.reg = r THEN req.v ELSE data[r]]
  /\ latched' = data
  /\ sta' = CASE dma_state = "write_start" -> [d |-> FALSE, n |-> 0]
              [] dma_state = "write_done" -> [d |-> TRUE, n |-> sta_n]
              [] OTHER -> sta
  /\ rep' = IF /\ dma_state \notin {"write_start", "write_done"}
               /\ req.en /\ ~req.wr /\ req.reg = "STA"
            THEN [en |-> TRUE, d |-> sta.d, n |-> sta.n] ELSE NoRep

----------------------------------------------------------------------------
(* The endpoint: outputs of the engine are handled, then a request is shown *)

\* A reply ends the read; another one is more_replies_than_requests.  The
\* engine acknowledges in write_done.
Endpoint ==
  LET read == reading /\ ~rep.en
      held == wait_ack /\ dma_state # "write_done"
  IN  IF held \/ rx = <<>>
      THEN /\ req' = IF held THEN req ELSE NoReq
           /\ wait_ack' = held
           /\ reading' = read
           /\ UNCHANGED rx
      ELSE LET m == Head(rx)
               shown == m.wr \/ ~read
           IN  /\ rx' = Tail(rx)
               /\ req' = IF shown THEN [en |-> TRUE, wr |-> m.wr, reg |-> m.reg,
                                        v |-> m.v]
                                  ELSE NoReq
               /\ wait_ack' = shown
               /\ reading' = (read \/ ~m.wr)

\* The effects the host sees: mwr_en in write_one, msi_en in write_done
Effects ==
  /\ written' = CASE dma_state = "write_start" -> {}
                  [] dma_state = "write_one" -> written \cup {mwr_off}
                  [] OTHER -> written
  /\ msi' = (dma_state = "write_done" /\ dma_msi_en)
  /\ started' = (started \/ dma_state = "write_start")

Clock == Registers /\ Engine /\ Endpoint /\ Effects

Next == Clock
Spec == Init /\ [][Next]_vars
FairSpec == Spec /\ WF_vars(Clock)

----------------------------------------------------------------------------
(* Properties *)

\* Types, and the 16 bits of the engine's offset, size and counter: mul_pow2
\* cuts the product, so an offset past the width wraps and is never wider.
TypeOK ==
  /\ rx \in Seq(Request) /\ wait_ack \in BOOLEAN /\ reading \in BOOLEAN
  /\ req \in [en : BOOLEAN, wr : BOOLEAN, reg : WoRegs \cup {"STA"}, v : Value]
  /\ data \in [WoRegs -> Value] /\ latched \in [WoRegs -> Value]
  /\ sta \in [d : BOOLEAN, n : 0..(Width - 1)]
  /\ rep \in [en : BOOLEAN, d : BOOLEAN, n : 0..(Width - 1)]
  /\ dma_state \in {"idle", "write_start", "write_one", "write_next", "write_done"}
  /\ dma_counter_reg \in 0..(Width - 1) /\ dma_size \in 0..(Width - 1)
  /\ dma_addr \in (0..(Width - 1)) \X (0..(Width - 1)) /\ dma_msi_en \in BOOLEAN
  /\ mwr_off \in 0..(Width - 1) /\ sta_n \in 0..(Width - 1)
  /\ written \subseteq 0..(Width - 1) /\ started \in BOOLEAN /\ msi \in BOOLEAN

\* The offsets of a whole transfer
Blocks(size) == {o \in 0..(size - 1) : o % Block = 0}

\* "automatically set to 1 when a transfer is done" and "size (in bytes)
\* actually transfered": when D is set, every block of the N bytes it announces
\* has been written, and N is what was asked for.
StatusCovers ==
  sta.d => Blocks(sta.n) \subseteq written /\ (dma_state = "idle" => sta.n = dma_size)

\* The MSI of a transfer is sent behind its last block, so that an interrupt
\* handler finds the whole buffer written.
MsiAfterData == msi => Blocks(dma_size) \subseteq written

\* Every block below n is in the set
Covered(n, set) == \A o \in 0..(Width - 1) : o % Block = 0 /\ o < n => o \in set

\* The inductive invariant behind the two: in write_one the offset about to be
\* written closes the gap below the counter; in write_next there is none; and
\* the status and the MSI are about a transfer nothing has overwritten since.
TransferInv ==
  /\ dma_state = "write_one" => Covered(dma_counter_reg * Block, written \cup {mwr_off})
  /\ dma_state = "write_next" => Covered(dma_counter_reg * Block, written)
  /\ dma_state = "write_done" => Covered(dma_size, written) /\ sta_n = dma_size
  /\ sta.d => /\ dma_state \in {"idle", "write_start"} /\ Covered(sta.n, written)
              /\ dma_state = "idle" => sta.n = dma_size
  /\ msi => dma_state = "idle" /\ Covered(dma_size, written)

\* A transfer of a number of blocks ends, whatever the counter held before.
TransferEnds == (dma_state = "write_start") ~> (dma_state = "write_done")

\* "size of the transfer, in bytes": nothing is written beyond the buffer.
InBuffer == \A o \in written : o = 0 \/ o + Block <= dma_size

\* "the user sets the DMA_REG_CTL S bit to start the transfer", the last step of
\* the programming procedure: the transfer starts.
ProcedureStarts == <>started
=============================================================================
