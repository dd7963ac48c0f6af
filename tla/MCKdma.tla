------------------------------- MODULE MCKdma -------------------------------
EXTENDS Kdma

\* The dma device has BAR 1 only, here of four words
MCVadr == [b \in Bars |-> IF b = 1 THEN 8 ELSE 0]
MCBarLen == [b \in Bars |-> IF b = 1 THEN 8 ELSE 0]
=============================================================================
