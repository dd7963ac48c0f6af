---------------------------- MODULE MCDmaEngine ----------------------------
(* DmaEngine with the requests of a host *)
EXTENDS DmaEngine

Start(i, n) == [wr |-> TRUE, reg |-> "CTL", v |-> [s |-> TRUE, i |-> i, n |-> n]]
Set(r, n) == [wr |-> TRUE, reg |-> r, v |-> [s |-> FALSE, i |-> FALSE, n |-> n]]
ReadSta == [wr |-> FALSE, reg |-> "STA", v |-> Zero]

Sizes == {n \in 0..(Width - 1) : n % Block = 0}

\* A transfer, then a second one or a read of the status
Transfers ==
  {<<Start(i, n)>> \o t : i \in BOOLEAN, n \in Sizes,
                          t \in {<<>>, <<ReadSta>>} \cup {<<Start(TRUE, m)>> : m \in Sizes}}

\* One transfer, and nothing after
OneTransfer == {<<Start(TRUE, n)>> : n \in Sizes \ {0}}

\* The programming procedure of the datasheet, as the user application runs it
Procedure == {<<Set("BAZ", 1), Set("ADH", 0), Set("ADL", 2), Start(TRUE, n)>> : n \in Sizes}
=============================================================================
