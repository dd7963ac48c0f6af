------------------------------ MODULE PcieBus ------------------------------
(***************************************************************************)
(* What a vpcie session promises its two users, the guest driver and the   *)
(* device's logic, with no sockets, threads or fifos: registers that are   *)
(* read and written one access at a time, and a channel of posted messages *)
(* (memory writes and MSIs) that is reliable and in order as long as the   *)
(* connection lasts.  Replies and posted messages are not ordered against  *)
(* each other.  VPcie is shown to implement it.                            *)
(***************************************************************************)
EXTENDS Sequences, SequencesExt

CONSTANTS
  Locs,      \* the locations
  Data,      \* what they hold
  Zero,      \* what they hold when a connection is made
  Absent,    \* a location the device does not have
  Ones,      \* the answer to a read of it
  None       \* no read; no answer

VARIABLES
  up,        \* the connection is up
  mem,       \* the locations
  rd,        \* the location being read
  ans,       \* the answer on its way
  chan,      \* posted messages on their way
  got        \* posted messages delivered over this connection

busVars == <<up, mem, rd, ans, chan, got>>

Init ==
  /\ ~up /\ mem = [l \in Locs |-> Zero]
  /\ rd = None /\ ans = None /\ chan = <<>> /\ got = <<>>

\* A connection, always to a device that was reset and has nothing to send yet
Open ==
  /\ ~up /\ up' /\ mem' = [l \in Locs |-> Zero]
  /\ rd = None /\ ans = None /\ chan' = <<>> /\ got' = <<>>
  /\ UNCHANGED <<rd, ans>>

Write(l, v) ==
  /\ up /\ rd = None /\ mem' = [mem EXCEPT ![l] = v]
  /\ UNCHANGED <<up, rd, ans, chan, got>>

StartRead(l) ==
  /\ rd = None /\ rd' = l
  /\ UNCHANGED <<up, mem, ans, chan, got>>

\* One answer for each read: what was written last, or all ones
Answer ==
  /\ up /\ rd # None /\ ans = None
  /\ ans' = IF rd = Absent THEN Ones ELSE mem[rd]
  /\ UNCHANGED <<up, mem, rd, chan, got>>

Receive ==
  /\ rd # None /\ ans # None /\ rd' = None /\ ans' = None
  /\ UNCHANGED <<up, mem, chan, got>>

\* Without an answer a read returns only when the connection is gone
ReadFails ==
  /\ ~up /\ rd # None /\ ans = None /\ rd' = None
  /\ UNCHANGED <<up, mem, ans, chan, got>>

Emit ==
  /\ up /\ Len(chan') = Len(chan) + 1 /\ IsPrefix(chan, chan')
  /\ UNCHANGED <<up, mem, rd, ans, got>>

Deliver ==
  /\ chan # <<>> /\ chan' = Tail(chan) /\ got' = Append(got, Head(chan))
  /\ UNCHANGED <<up, mem, rd, ans>>

\* The connection breaks: of what is on its way the rest may be lost
Break ==
  /\ ~up' /\ IsPrefix(chan', chan) /\ ans' \in {ans, None}
  /\ UNCHANGED <<mem, rd, got>>

\* The guest is gone, and a read with it
GuestEnds ==
  /\ ~up' /\ rd' = None /\ ans' = None /\ chan' = <<>>
  /\ UNCHANGED <<mem, got>>

Next ==
  \/ Open \/ Answer \/ Receive \/ ReadFails \/ Emit \/ Deliver \/ Break \/ GuestEnds
  \/ \E l \in Locs, v \in Data : Write(l, v)
  \/ \E l \in Locs \cup {Absent} : StartRead(l)

Spec == Init /\ [][Next]_busVars
============================================================================
