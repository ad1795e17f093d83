--------------------------- MODULE SyncBroadcast ----------------------------
(***************************************************************************)
(* The time server with the air between it and a client's sniffer: every   *)
(* packet goes out in a frame whose headers the sniffer does not parse,    *)
(* and frames are lost, delayed past later ones, received twice or cut     *)
(* short before find_in_frame of crates/clock-sync sees them.              *)
(***************************************************************************)
EXTENDS SyncServer, FiniteSets, Sequences

CONSTANTS
  Base, MAGIC, SeqLen, NsLen,   \* the wire format
  Headers,      \* environment: what precedes a packet in its frame
  Trailers,     \* environment: what follows it
  MaxInAir      \* bound: packets in the air

Wire == INSTANCE SyncPacket

ASSUME BroadcastAssumption ==
  /\ Base \in Nat \ {0} /\ {SeqLen, NsLen} \subseteq Nat
  /\ SeqMod = Wire!Weight[SeqLen]
  /\ MAGIC \in Seq(0..Base-1) \ {<<>>}
  /\ Headers \cup Trailers \subseteq Seq(0..Base-1)
  /\ MaxInAir \in Nat

VARIABLES
  air,       \* packets in the air
  heard      \* the frame this step received: its packet, whether whole, and what was found

broadcastVars == <<vars, air, heard>>

BroadcastInit ==
  /\ Init
  /\ air = {}
  /\ heard = None

\* A packet is handed to the network.
Broadcast ==
  /\ Send
  /\ Cardinality(air) < MaxInAir
  /\ air' = air \cup {[seq |-> seq, send_unix_ns |-> send_unix_ns]}
  /\ heard' = None

\* The sniffer is given the frame of a packet, less the cut last bytes.
Receive ==
  /\ \E p \in air, h \in Headers, t \in Trailers, cut \in 0..1 :
       LET frame == h \o Wire!to_bytes(p) \o t
       IN  heard' = [of |-> p, whole |-> cut <= Len(t),
                     found |-> Wire!find_in_frame(SubSeq(frame, 1, Len(frame) - cut))]
  /\ UNCHANGED <<vars, air>>

\* A packet will not be received any more.
Lose ==
  /\ \E p \in air : air' = air \ {p}
  /\ heard' = None
  /\ UNCHANGED vars

Quietly == heard' = None /\ UNCHANGED air

BroadcastNext ==
  \/ Tick /\ Quietly
  \/ Boot /\ Quietly
  \/ Start /\ Quietly
  \/ WakeUp /\ Quietly
  \/ Broadcast
  \/ Stop /\ Quietly
  \/ Receive
  \/ Lose

BroadcastSpec == BroadcastInit /\ [][BroadcastNext]_broadcastVars

-----------------------------------------------------------------------------
\* Whatever precedes it in the frame, a packet that arrives whole is found and is the one
\* that was sent, also when a header ends in a part of MAGIC; of one that is cut short
\* nothing is found.
HeardAsSent ==
  heard # None =>
    heard.found = IF heard.whole THEN heard.of ELSE None

=============================================================================
