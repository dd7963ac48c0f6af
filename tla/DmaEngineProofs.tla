-------------------------- MODULE DmaEngineProofs --------------------------
(***************************************************************************)
(* Proofs about DmaEngine, for every program of requests, every size of a  *)
(* block and every width of the counter that is a multiple of it: types,   *)
(* and the two promises to a driver that waits for the status or the MSI.  *)
(***************************************************************************)
EXTENDS DmaEngine, TLAPS

----------------------------------------------------------------------------
(* Arithmetic *)

\* What the width cuts fits in it, and is no larger.
LEMMA Cut ==
  ASSUME NEW n \in Nat
  PROVE  n % Width \in 0..(Width - 1) /\ n % Width <= n /\ (n < Width => n % Width = n)
BY WidthAssumption

LEMMA Products ==
  ASSUME NEW a \in Nat
  PROVE  a * Block \in Nat /\ (a + 1) * Block \in Nat
BY BlockAssumption

LEMMA Monotone ==
  ASSUME NEW a \in Nat, NEW b \in Nat, a <= b
  PROVE  a * Block <= b * Block
<1> DEFINE k == b - a
<1>1. k \in Nat /\ b = a + k
  OBVIOUS
<1> HIDE DEF k
<1>2. b * Block = a * Block + k * Block /\ k * Block >= 0
  BY <1>1, BlockAssumption
<1>3. a * Block \in Nat /\ k * Block \in Nat
  BY <1>1, BlockAssumption
<1> QED
  BY <1>2, <1>3

\* Between two multiples of the block there is no other.
LEMMA NextMultiple ==
  ASSUME NEW o \in Nat, NEW c \in Nat, o % Block = 0, o < (c + 1) * Block
  PROVE  o <= c * Block
<1> DEFINE q == o \div Block
<1>1. q \in Nat /\ o = q * Block
  BY BlockAssumption
<1> HIDE DEF q
<1>2. q < c + 1
  <2> SUFFICES ASSUME q >= c + 1 PROVE FALSE
    BY <1>1
  <2> QED
    BY <1>1, BlockAssumption
<1>3. q <= c
  BY <1>1, <1>2
<1> QED
  BY <1>1, <1>3, BlockAssumption

LEMMA ZeroValue == Zero \in Value
BY WidthAssumption DEF Zero, Value

----------------------------------------------------------------------------
(* Types *)

LEMMA InitTypes == Init => TypeOK
<1> SUFFICES ASSUME Init PROVE TypeOK
  OBVIOUS
<1>1. 0 \in 0..(Width - 1)
  BY WidthAssumption
<1> QED
  BY <1>1, ZeroValue, ProgramsAssumption DEF Init, TypeOK, NoReq, NoRep

LEMMA OffType == TypeOK => Off \in 0..(Width - 1) /\ dma_counter_reg * Block \in Nat
<1> SUFFICES ASSUME TypeOK
             PROVE  Off \in 0..(Width - 1) /\ dma_counter_reg * Block \in Nat
  OBVIOUS
<1> DEFINE n == dma_counter_reg * Block
<1>1. dma_counter_reg \in Nat
  BY WidthAssumption DEF TypeOK
<1>2. n \in Nat
  BY <1>1, BlockAssumption
<1>3. Off = n % Width
  BY DEF Off
<1> HIDE DEF n
<1>4. Off \in 0..(Width - 1)
  BY <1>2, <1>3, Cut
<1> QED
  BY <1>2, <1>4 DEF n

LEMMA NextStateType == TypeOK => NextState \in {"idle", "write_start", "write_one", "write_next", "write_done"}
BY DEF TypeOK, NextState

LEMMA RegistersTypes ==
  ASSUME TypeOK, Registers
  PROVE  /\ data' \in [WoRegs -> Value] /\ latched' \in [WoRegs -> Value]
         /\ sta' \in [d : BOOLEAN, n : 0..(Width - 1)]
         /\ rep' \in [en : BOOLEAN, d : BOOLEAN, n : 0..(Width - 1)]
<1>1. 0 \in 0..(Width - 1)
  BY WidthAssumption
<1>2. data' \in [WoRegs -> Value] /\ latched' \in [WoRegs -> Value]
  BY ZeroValue DEF TypeOK, Registers
<1>3. sta' \in [d : BOOLEAN, n : 0..(Width - 1)]
  <2>1. sta \in [d : BOOLEAN, n : 0..(Width - 1)] /\ sta_n \in 0..(Width - 1)
    BY DEF TypeOK
  <2>2. CASE dma_state = "write_start"
    BY <1>1, <2>2 DEF Registers
  <2>3. CASE dma_state = "write_done"
    BY <2>1, <2>3 DEF Registers
  <2>4. CASE dma_state \notin {"write_start", "write_done"}
    BY <2>1, <2>4 DEF Registers
  <2> QED
    BY <2>2, <2>3, <2>4
<1>4. rep' \in [en : BOOLEAN, d : BOOLEAN, n : 0..(Width - 1)]
  <2>1. NoRep \in [en : BOOLEAN, d : BOOLEAN, n : 0..(Width - 1)]
    BY <1>1 DEF NoRep
  <2>2. sta.d \in BOOLEAN /\ sta.n \in 0..(Width - 1)
    BY DEF TypeOK
  <2>3. rep' = NoRep \/ rep' = [en |-> TRUE, d |-> sta.d, n |-> sta.n]
    BY DEF Registers
  <2>4. [en |-> TRUE, d |-> sta.d, n |-> sta.n]
          \in [en : BOOLEAN, d : BOOLEAN, n : 0..(Width - 1)]
    BY <2>2
  <2> QED
    BY <2>1, <2>3, <2>4, Zenon
<1> QED
  BY <1>2, <1>3, <1>4

LEMMA EndpointTypes ==
  ASSUME TypeOK, Endpoint
  PROVE  /\ rx' \in Seq(Request) /\ wait_ack' \in BOOLEAN /\ reading' \in BOOLEAN
         /\ req' \in [en : BOOLEAN, wr : BOOLEAN, reg : WoRegs \cup {"STA"}, v : Value]
<1>1. NoReq \in [en : BOOLEAN, wr : BOOLEAN, reg : WoRegs \cup {"STA"}, v : Value]
  BY ZeroValue DEF NoReq
<1>2. rx # <<>> => Head(rx) \in Request /\ Tail(rx) \in Seq(Request)
  BY DEF TypeOK
<1>3. rx' \in Seq(Request)
  BY <1>2 DEF TypeOK, Endpoint
<1>4. wait_ack' \in BOOLEAN /\ reading' \in BOOLEAN
  <2>1. rx # <<>> => Head(rx).wr \in BOOLEAN
    BY <1>2 DEF Request
  <2> QED
    BY <2>1 DEF TypeOK, Endpoint
<1>5. req' \in [en : BOOLEAN, wr : BOOLEAN, reg : WoRegs \cup {"STA"}, v : Value]
  <2>1. rx # <<>> => [en |-> TRUE, wr |-> Head(rx).wr, reg |-> Head(rx).reg, v |-> Head(rx).v]
                       \in [en : BOOLEAN, wr : BOOLEAN, reg : WoRegs \cup {"STA"}, v : Value]
    BY <1>2 DEF Request
  <2>2. \/ req' = req \/ req' = NoReq
        \/ rx # <<>> /\ req' = [en |-> TRUE, wr |-> Head(rx).wr, reg |-> Head(rx).reg,
                                v |-> Head(rx).v]
    BY Zenon DEF Endpoint
  <2> QED
    BY <1>1, <2>1, <2>2 DEF TypeOK
<1> QED
  BY <1>3, <1>4, <1>5

LEMMA EngineTypes ==
  ASSUME TypeOK, Registers, Engine, Effects
  PROVE  /\ dma_state' \in {"idle", "write_start", "write_one", "write_next", "write_done"}
         /\ dma_counter_reg' \in 0..(Width - 1) /\ dma_size' \in 0..(Width - 1)
         /\ dma_addr' \in (0..(Width - 1)) \X (0..(Width - 1)) /\ dma_msi_en' \in BOOLEAN
         /\ mwr_off' \in 0..(Width - 1) /\ sta_n' \in 0..(Width - 1)
         /\ written' \subseteq 0..(Width - 1) /\ started' \in BOOLEAN /\ msi' \in BOOLEAN
<1>1. dma_counter_reg + 1 \in Nat /\ (dma_counter_reg + 1) % Width \in 0..(Width - 1)
  <2>1. dma_counter_reg + 1 \in Nat
    BY WidthAssumption DEF TypeOK
  <2> QED
    BY <2>1, Cut
<1>2. 0 \in 0..(Width - 1)
  BY WidthAssumption
<1>3. dma_state' \in {"idle", "write_start", "write_one", "write_next", "write_done"}
  BY NextStateType DEF Engine
<1>4. dma_counter_reg' \in 0..(Width - 1)
  BY <1>1, <1>2 DEF TypeOK, Engine
<1>5. latched' \in [WoRegs -> Value]
  BY RegistersTypes
<1>6. /\ latched'["CTL"].n \in 0..(Width - 1) /\ latched'["CTL"].i \in BOOLEAN
      /\ latched'["ADH"].n \in 0..(Width - 1) /\ latched'["ADL"].n \in 0..(Width - 1)
  BY <1>5 DEF WoRegs, Value
<1>7. /\ dma_size' \in 0..(Width - 1) /\ dma_msi_en' \in BOOLEAN
      /\ dma_addr' \in (0..(Width - 1)) \X (0..(Width - 1))
  <2>1. dma_size' \in {dma_size, latched'["CTL"].n} /\ dma_msi_en' \in {dma_msi_en, latched'["CTL"].i}
    BY DEF Engine, Outputs
  <2>2. dma_addr' \in {dma_addr, <<latched'["ADH"].n, latched'["ADL"].n>>}
    BY DEF Engine, Outputs
  <2>3. /\ dma_size \in 0..(Width - 1) /\ dma_msi_en \in BOOLEAN
        /\ dma_addr \in (0..(Width - 1)) \X (0..(Width - 1))
    BY DEF TypeOK
  <2>4. <<latched'["ADH"].n, latched'["ADL"].n>> \in (0..(Width - 1)) \X (0..(Width - 1))
    BY <1>6
  <2>5. dma_size' \in 0..(Width - 1)
    BY <1>6, <2>1, <2>3
  <2>6. dma_msi_en' \in BOOLEAN
    BY <1>6, <2>1, <2>3
  <2>7. dma_addr' \in (0..(Width - 1)) \X (0..(Width - 1))
    BY <2>2, <2>3, <2>4, Zenon
  <2> QED
    BY <2>5, <2>6, <2>7
<1>8. mwr_off' \in 0..(Width - 1) /\ sta_n' \in 0..(Width - 1)
  BY OffType DEF TypeOK, Engine, Outputs
<1>9. written' \subseteq 0..(Width - 1)
  BY DEF TypeOK, Effects
<1>10. started' \in BOOLEAN /\ msi' \in BOOLEAN
  BY DEF TypeOK, Effects
<1> QED
  BY <1>3, <1>4, <1>7, <1>8, <1>9, <1>10

LEMMA StepTypes == TypeOK /\ [Next]_vars => TypeOK'
<1> SUFFICES ASSUME TypeOK, [Next]_vars PROVE TypeOK'
  OBVIOUS
<1>1. CASE Clock
  BY <1>1, RegistersTypes, EndpointTypes, EngineTypes DEF TypeOK, Clock
<1>2. CASE UNCHANGED vars
  BY <1>2 DEF TypeOK, vars, endpointVars, regVars, engineVars
<1> QED
  BY <1>1, <1>2 DEF Next

\* Every register, the counter, the offset and the size of the engine keep the
\* 16 bits the design gives them, whatever the host requests.
THEOREM EngineTyping == Spec => []TypeOK
BY InitTypes, StepTypes, PTL DEF Spec

----------------------------------------------------------------------------
(* The transfer *)

LEMMA InitTransfer == Init => TransferInv
BY WidthAssumption DEF Init, TransferInv, Covered

LEMMA StepTransfer ==
  ASSUME TypeOK, TransferInv, Clock
  PROVE  TransferInv'
<1> USE DEF Clock
<1>0. dma_state \in {"idle", "write_start", "write_one", "write_next", "write_done"}
  BY DEF TypeOK
<1>1. CASE dma_state = "idle"
  <2>1. /\ dma_state' \in {"idle", "write_start"} /\ written' = written /\ sta' = sta
        /\ msi' = FALSE /\ (dma_state' = "idle" => dma_size' = dma_size)
    BY <1>1 DEF Engine, NextState, Outputs, Registers, Effects
  <2> QED
    BY <1>1, <2>1 DEF TransferInv, Covered
<1>2. CASE dma_state = "write_start"
  <2>1. dma_state' = "write_one" /\ dma_counter_reg' = 0 /\ msi' = FALSE
    BY <1>2 DEF Engine, NextState, Effects
  <2>3. sta'.d = FALSE
    BY <1>2 DEF Registers
  <2>2. \A o \in 0..(Width - 1) : ~(o < 0 * Block)
    BY BlockAssumption
  <2> QED
    BY <1>2, <2>1, <2>2, <2>3 DEF TransferInv, Covered
<1>3. CASE dma_state = "write_one"
  <2>1. /\ dma_state' = "write_next" /\ dma_counter_reg' = dma_counter_reg /\ sta' = sta
        /\ msi' = FALSE /\ written' = written \cup {mwr_off}
    BY <1>3 DEF Engine, NextState, Outputs, Registers, Effects
  <2> QED
    BY <1>3, <2>1 DEF TransferInv, Covered
<1>4. CASE dma_state = "write_next"
  <2>1. /\ dma_counter_reg' = (dma_counter_reg + 1) % Width /\ sta' = sta
        /\ dma_size' = dma_size /\ msi' = FALSE /\ written' = written
        /\ \/ dma_state' = "write_one" /\ mwr_off' = Off
           \/ dma_state' = "write_done" /\ Off = dma_size /\ sta_n' = Off
    BY <1>4 DEF Engine, NextState, Outputs, Registers, Effects
  <2>2. CASE dma_state' = "write_one" /\ mwr_off' = Off
    <3>1. Covered(dma_counter_reg' * Block, written \cup {Off})
      <4> SUFFICES ASSUME NEW o \in 0..(Width - 1), o % Block = 0,
                          o < dma_counter_reg' * Block
                   PROVE  o \in written \cup {Off}
        BY DEF Covered
      <4>1. dma_counter_reg \in Nat /\ dma_counter_reg' \in Nat
            /\ dma_counter_reg' <= dma_counter_reg + 1
        BY <2>1, Cut DEF TypeOK
      <4>2. o < (dma_counter_reg + 1) * Block
        <5>1. dma_counter_reg' * Block <= (dma_counter_reg + 1) * Block
          BY <4>1, Monotone
        <5>2. dma_counter_reg' * Block \in Nat /\ (dma_counter_reg + 1) * Block \in Nat
          BY <4>1, Products
        <5> QED
          BY <5>1, <5>2
      <4>3. o <= dma_counter_reg * Block
        BY <4>1, <4>2, NextMultiple
      <4>4. CASE o < dma_counter_reg * Block
        BY <1>4, <4>4 DEF TransferInv, Covered
      <4>5. CASE o = dma_counter_reg * Block
        <5>1. Off = o % Width
          BY <4>5 DEF Off
        <5>2. o \in Nat /\ o < Width
          BY WidthAssumption
        <5>3. Off = o
          BY <5>1, <5>2, Cut
        <5> QED
          BY <5>3
      <4> QED
        BY <4>1, <4>3, <4>4, <4>5, BlockAssumption
    <3> QED
      BY <1>4, <2>1, <2>2, <3>1 DEF TransferInv
  <2>3. CASE dma_state' = "write_done" /\ Off = dma_size /\ sta_n' = Off
    <3>1. Covered(dma_size, written)
      <4> SUFFICES ASSUME NEW o \in 0..(Width - 1), o % Block = 0, o < dma_size
                   PROVE  o \in written
        BY DEF Covered
      <4>1. dma_counter_reg * Block \in Nat /\ Off <= dma_counter_reg * Block /\ Off \in Nat
        BY OffType, Cut DEF Off
      <4> QED
        BY <1>4, <2>3, <4>1 DEF TransferInv, Covered
    <3> QED
      BY <1>4, <2>1, <2>3, <3>1 DEF TransferInv
  <2> QED
    BY <2>1, <2>2, <2>3
<1>5. CASE dma_state = "write_done"
  <2>1. /\ dma_state' = "idle" /\ sta' = [d |-> TRUE, n |-> sta_n]
        /\ dma_size' = dma_size /\ written' = written
    BY <1>5 DEF Engine, NextState, Outputs, Registers, Effects
  <2> QED
    BY <1>5, <2>1 DEF TransferInv, Covered
<1> QED
  BY <1>0, <1>1, <1>2, <1>3, <1>4, <1>5

\* The inductive invariant of the engine: the progress of a transfer through
\* its states, for every program.
THEOREM EngineSafety == Spec => [](TypeOK /\ TransferInv)
<1>1. TypeOK /\ TransferInv /\ [Next]_vars => TransferInv'
  <2> SUFFICES ASSUME TypeOK, TransferInv, [Next]_vars PROVE TransferInv'
    OBVIOUS
  <2>1. CASE UNCHANGED vars
    BY <2>1 DEF TransferInv, Covered, vars, endpointVars, regVars, engineVars
  <2> QED
    BY <2>1, StepTransfer DEF Next
<1> QED
  BY <1>1, InitTypes, StepTypes, InitTransfer, PTL DEF Spec

LEMMA CoveredBlocks ==
  ASSUME NEW size \in 0..(Width - 1), Covered(size, written)
  PROVE  Blocks(size) \subseteq written
<1> SUFFICES ASSUME NEW o \in Blocks(size) PROVE o \in written
  OBVIOUS
<1>1. o \in 0..(size - 1) /\ o % Block = 0
  BY DEF Blocks
<1>2. o \in 0..(Width - 1) /\ o < size
  BY <1>1, WidthAssumption
<1> QED
  BY <1>1, <1>2 DEF Covered

\* dma.vhdl sets the D bit of DMA_REG_STA only when every block of the size in
\* the register has been written, and that size is the one requested.
THEOREM StatusIsTrue == Spec => []StatusCovers
<1>1. TypeOK /\ TransferInv => StatusCovers
  <2> SUFFICES ASSUME TypeOK, TransferInv, sta.d
               PROVE  Blocks(sta.n) \subseteq written /\ (dma_state = "idle" => sta.n = dma_size)
    BY DEF StatusCovers
  <2>1. sta.n \in 0..(Width - 1) /\ Covered(sta.n, written)
    BY DEF TypeOK, TransferInv
  <2> QED
    BY <2>1, CoveredBlocks DEF TransferInv
<1> QED
  BY <1>1, EngineSafety, PTL

\* The interrupt of a transfer is raised behind its last block, for every size
\* and every value the counter held before the transfer.
THEOREM InterruptBehindData == Spec => []MsiAfterData
<1>1. TypeOK /\ TransferInv => MsiAfterData
  BY CoveredBlocks DEF MsiAfterData, TypeOK, TransferInv
<1> QED
  BY <1>1, EngineSafety, PTL
============================================================================
