----------------------------- MODULE SyncServer ------------------------------
(***************************************************************************)
(* The time server, crates/clock-sync-server/src/main.rs: after reading its *)
(* clock once it sends a packet every interval, whose timestamp is computed *)
(* and not measured.  "now" is real time in ns, which CLOCK_REALTIME shows. *)
(* The process may be stopped at any point and started again.              *)
(***************************************************************************)
EXTENDS Integers

CONSTANTS
  Interval,    \* interval_ns
  SeqMod,      \* seq wraps here (2^32)
  None,        \* no packet yet
  MaxTime,     \* bound: real time
  MaxPackets   \* bound: packets of one process

ASSUME ServerAssumption ==
  /\ Interval \in Nat
  /\ SeqMod \in Nat \ {0}
  /\ {MaxTime, MaxPackets} \subseteq Nat
  /\ None \notin Int

VARIABLES
  now,       \* real time
  pc,        \* where main is: "stopped", "booting", "waiting", "sending"
  t0,        \* the server's clock when it started
  next,      \* when the next packet is due
  seq,       \* its sequence number
  packet,    \* the last packet handed to send_to, and when
  packets    \* those this process has sent, for the properties

vars == <<now, pc, t0, next, seq, packet, packets>>

-----------------------------------------------------------------------------
Init ==
  /\ now = 0
  /\ pc = "stopped"
  /\ t0 = 0
  /\ next = 0
  /\ seq = 0
  /\ packet = None
  /\ packets = 0

Tick ==
  /\ now < MaxTime
  /\ now' = now + 1
  /\ UNCHANGED <<pc, t0, next, seq, packet, packets>>

\* T0 is read.
Boot ==
  /\ pc = "stopped"
  /\ pc' = "booting"
  /\ t0' = now
  /\ UNCHANGED <<now, next, seq, packet, packets>>

\* The loop is entered; the first packet is due at once.
Start ==
  /\ pc = "booting"
  /\ pc' = "waiting"
  /\ next' = now
  /\ seq' = 0
  /\ packets' = 0
  /\ UNCHANGED <<now, t0, packet>>

\* Faulty: the server does not wait.
Due_always == TRUE

\* sleep returns no earlier than asked.
Due == now >= next

\* The top of the loop: the next packet is due an interval after this one was, not
\* after it is sent.
WakeUp ==
  /\ pc = "waiting"
  /\ packets < MaxPackets
  /\ Due
  /\ pc' = "sending"
  /\ next' = next + Interval
  /\ UNCHANGED <<now, t0, seq, packet, packets>>

\* Faulty: the timestamp counts from the next packet.
send_unix_ns_of_next == t0 + (seq + 1) * Interval

send_unix_ns == t0 + seq * Interval

next_seq == (seq + 1) % SeqMod

\* send_to; its failure changes nothing but the log.
Send ==
  /\ pc = "sending"
  /\ pc' = "waiting"
  /\ packet' = [seq |-> seq, send_unix_ns |-> send_unix_ns, at |-> now]
  /\ seq' = next_seq
  /\ packets' = packets + 1
  /\ UNCHANGED <<now, t0, next>>

Stop ==
  /\ pc # "stopped"
  /\ pc' = "stopped"
  /\ UNCHANGED <<now, t0, next, seq, packet, packets>>

Next == Tick \/ Boot \/ Start \/ WakeUp \/ Send \/ Stop

Spec == Init /\ [][Next]_vars

-----------------------------------------------------------------------------
Packet == [seq : 0..SeqMod-1, send_unix_ns : Nat, at : Nat]

TypeOK ==
  /\ now \in Nat
  /\ pc \in {"stopped", "booting", "waiting", "sending"}
  /\ t0 \in Nat
  /\ next \in Nat
  /\ seq \in 0..SeqMod-1
  /\ packet \in Packet \cup {None}
  /\ packets \in Nat

\* No packet carries a time that is still to come when it is sent, which is what the
\* clients' estimates rest on: a packet is only ever late (Due, send_unix_ns).
NeverEarly == packet # None => packet.send_unix_ns <= packet.at

\* Timestamps never run backwards, not even over a restart of the server, as long as
\* its sequence number has not wrapped.
NeverBackwards ==
  [][packet' # packet /\ packet # None /\ packets' <= SeqMod
       => packet'.send_unix_ns >= packet.send_unix_ns]_vars

=============================================================================
