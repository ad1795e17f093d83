------------------------------ MODULE CapTimer -------------------------------
(***************************************************************************)
(* The capture timer of crates/clock-sync-test/src/mcpwm_cap.rs once init   *)
(* has calibrated it.  The hardware counts ticks modulo 2^32; the software  *)
(* extends its readings to 64 bits, in two ways:                           *)
(*                                                                         *)
(*   - a software capture (sw_capture_ch2_unwrapped) compares its reading   *)
(*     with that of the previous capture, in LAST_SW_CAP_PACKED;            *)
(*   - an edge latched by the hardware (poll_ch0, poll_ch1) is placed next  *)
(*     to what Instant predicts the timer to be (unwrap_cap_raw).           *)
(*                                                                         *)
(* Captures are taken in two contexts: the beacon hook runs in the WiFi     *)
(* driver's and preempts the executor, where the pulser and debug_dump      *)
(* take theirs.  "ticks" is the real count since the timer was reset.      *)
(***************************************************************************)
EXTENDS RustArith

CONSTANTS
  RawMod,        \* the timer counts modulo this (2^32)
  Contexts,      \* where captures are taken: "driver", "executor"
  Channels,      \* the edge channels
  TicksPerUs,    \* rate of the timer (80)
  InstantBase,   \* Instant::now() at tick 0
  Q,             \* fixed-point scale of the calibrated rate (2^32)
  Cap0,          \* tick of the first calibration capture
  Calibration,   \* ticks between the two calibration captures (4 s)
  None,
  MaxCapture,    \* bound: ticks from the latch of a capture to its publication
  MaxGap,        \* bound: ticks from a published reading to the next publication
  MaxPollDelay,  \* bound: ticks from an edge to its poll
  MaxTicks       \* bound: ticks

Cap1 == Cap0 + Calibration

ASSUME CapTimerAssumption ==
  /\ RawMod \in Nat \ {0}
  /\ Contexts \subseteq {"driver", "executor"}
  /\ {TicksPerUs, Q, Calibration} \subseteq Nat \ {0}
  /\ {InstantBase, Cap0, MaxCapture, MaxGap, MaxPollDelay, MaxTicks} \subseteq Nat
  /\ MaxCapture <= MaxGap
  /\ Cap1 < RawMod
  /\ None \notin Int

VARIABLES
  ticks,      \* the real count
  ch2,        \* the capture register of the software channel
  packed,     \* LAST_SW_CAP_PACKED, high * RawMod + raw
  capture,    \* capture[c]: where context c is in sw_capture_ch2_unwrapped
  edge,       \* edge[ch]: the real count at the last edge of a channel
  lastRaw,    \* LAST_CAP_CHx_RAW
  polled,     \* polled[ch]: what the last poll of a channel that saw an edge returned
  polledAt,   \* the real count of that edge, for the properties
  latchedAt,  \* the real count when ch2 was latched, for the properties
  packedAt    \* the real count of the reading in packed, for the properties

swVars   == <<ch2, packed, capture, latchedAt, packedAt>>
edgeVars == <<edge, lastRaw, polled, polledAt>>
vars     == <<ticks, swVars, edgeVars>>

-----------------------------------------------------------------------------
(* Calibration.                                                            *)

InstantUs(t) == InstantBase + t \div TicksPerUs

\* US_PER_TICK_INSTANT_Q32
UsPerTick == ((InstantUs(Cap1) - InstantUs(Cap0)) * Q) \div (Cap1 - Cap0)

\* The calibration takes long enough for Instant to advance; q32 = 0, which would send
\* unwrap_cap_raw down the path of an uncalibrated timer, does not come out of it.
ASSUME CalibrationAssumption == UsPerTick > 0

\* Faulty: the anchors are of different captures.
PredictedTicks_mixes_anchors ==
  Cap1 + TruncDiv((InstantUs(ticks) - InstantUs(Cap0)) * Q, UsPerTick)

\* Where Instant puts the timer now.
PredictedTicks ==
  Cap0 + TruncDiv((InstantUs(ticks) - InstantUs(Cap0)) * Q, UsPerTick)

\* After init, whose second calibration capture is the last one so far.
Init ==
  /\ ticks = Cap1
  /\ ch2 = Cap1
  /\ packed = Cap1
  /\ capture = [c \in Contexts |-> [pc |-> "idle"]]
  /\ edge = [ch \in Channels |-> 0]
  /\ lastRaw = [ch \in Channels |-> 0]
  /\ polled = [ch \in Channels |-> None]
  /\ polledAt = [ch \in Channels |-> None]
  /\ latchedAt = Cap1
  /\ packedAt = Cap1

-----------------------------------------------------------------------------
(* Software captures.                                                      *)

\* The executor does not run while the driver's context does.
MayRun(c) ==
  c = "executor" /\ "driver" \in Contexts => capture["driver"].pc \in {"idle", "done"}

At(c, pc) == MayRun(c) /\ capture[c].pc = pc

\* Writing the configuration register latches the timer.
Trigger(c) ==
  /\ MayRun(c)
  /\ capture[c].pc \in {"idle", "done"}
  /\ ch2' = ticks % RawMod
  /\ latchedAt' = ticks
  /\ capture' = [capture EXCEPT ![c] = [pc |-> "latched"]]
  /\ UNCHANGED <<ticks, packed, packedAt, edgeVars>>

\* The latch is read, wherever it was last written.
ReadLatch(c) ==
  /\ At(c, "latched")
  /\ capture' = [capture EXCEPT ![c] = [pc |-> "read", raw |-> ch2, at |-> latchedAt]]
  /\ UNCHANGED <<ticks, ch2, latchedAt, packed, packedAt, edgeVars>>

\* The previous capture is loaded.
LoadPacked(c) ==
  /\ At(c, "read")
  /\ capture' = [capture EXCEPT ![c] = [pc   |-> "loaded", raw |-> @.raw, at |-> @.at,
                                        prev |-> packed]]
  /\ UNCHANGED <<ticks, ch2, latchedAt, packed, packedAt, edgeVars>>

\* Faulty: a reading that equals the previous one counts as a wrap, the timer is
\* taken to have wrapped the other way, or never to wrap.
Extend_on_equal(raw, prev) ==
  (IF raw <= prev % RawMod THEN prev \div RawMod + 1 ELSE prev \div RawMod) * RawMod + raw
Extend_backwards(raw, prev) ==
  (IF raw < prev % RawMod THEN prev \div RawMod - 1 ELSE prev \div RawMod) * RawMod + raw
Extend_never(raw, prev) == (prev \div RawMod) * RawMod + raw

\* The reading that follows prev: the timer has wrapped if it is below prev's.
Extend(raw, prev) ==
  (IF raw < prev % RawMod THEN prev \div RawMod + 1 ELSE prev \div RawMod) * RawMod + raw

\* compare_exchange publishes the reading, or the loop starts over.
Publish(c) ==
  /\ At(c, "loaded")
  /\ packed = capture[c].prev
  /\ packed' = Extend(capture[c].raw, packed)
  /\ packedAt' = capture[c].at
  /\ capture' = [capture EXCEPT ![c] = [pc |-> "done", at |-> @.at, value |-> packed']]
  /\ UNCHANGED <<ticks, ch2, latchedAt, edgeVars>>

Retry(c) ==
  /\ At(c, "loaded")
  /\ packed # capture[c].prev
  /\ capture' = [capture EXCEPT ![c] = [pc |-> "read", raw |-> @.raw, at |-> @.at]]
  /\ UNCHANGED <<ticks, ch2, latchedAt, packed, packedAt, edgeVars>>

sw_capture_ch2_unwrapped(c) ==
  Trigger(c) \/ ReadLatch(c) \/ LoadPacked(c) \/ Publish(c) \/ Retry(c)

-----------------------------------------------------------------------------
(* Edges.                                                                  *)

\* The capture register of a channel.
Register(ch) == edge[ch] % RawMod

\* Faulty: the window is that of the last software capture.
unwrap_cap_raw_same_window(raw) == (packed \div RawMod) * RawMod + raw

\* The reading with the given low bits that is closest to what Instant predicts,
\* the earlier of two.  (Below tick 0 the code's candidate wraps to the far end.)
unwrap_cap_raw(raw) ==
  LET high        == PredictedTicks \div RawMod
      Distance(h) == Magnitude(h * RawMod + raw - PredictedTicks)
      Candidates  == {high - 1, high, high + 1} \cap Nat
      best        == CHOOSE h \in Candidates : \A k \in Candidates :
                       \/ Distance(h) < Distance(k)
                       \/ Distance(h) = Distance(k) /\ h <= k
  IN  best * RawMod + raw

\* The hardware latches an edge.
Edge(ch) ==
  /\ edge' = [edge EXCEPT ![ch] = ticks]
  /\ UNCHANGED <<ticks, swVars, lastRaw, polled, polledAt>>

\* The reporter sees a new reading in the register; an unchanged one is none.
poll(ch) ==
  /\ MayRun("executor")
  /\ Register(ch) # lastRaw[ch]
  /\ polled' = [polled EXCEPT ![ch] = unwrap_cap_raw(Register(ch))]
  /\ polledAt' = [polledAt EXCEPT ![ch] = edge[ch]]
  /\ lastRaw' = [lastRaw EXCEPT ![ch] = Register(ch)]
  /\ UNCHANGED <<ticks, swVars, edge>>

-----------------------------------------------------------------------------
\* Time passes; the reporter polls every edge within MaxPollDelay, a capture takes no
\* longer than MaxCapture, and there is one every MaxGap.
Tick ==
  /\ ticks < MaxTicks
  /\ ticks < packedAt + MaxGap
  /\ \A c \in Contexts :
       /\ capture[c].pc = "latched" => ticks < latchedAt + MaxCapture
       /\ capture[c].pc \in {"read", "loaded"} => ticks < capture[c].at + MaxCapture
  /\ \A ch \in Channels : Register(ch) # lastRaw[ch] => ticks < edge[ch] + MaxPollDelay
  /\ ticks' = ticks + 1
  /\ UNCHANGED <<swVars, edgeVars>>

Next ==
  \/ Tick
  \/ \E c \in Contexts : sw_capture_ch2_unwrapped(c)
  \/ \E ch \in Channels : Edge(ch) \/ poll(ch)

Spec == Init /\ [][Next]_vars

-----------------------------------------------------------------------------
TypeOK ==
  /\ {ticks, ch2, packed, latchedAt, packedAt} \subseteq Nat
  /\ ch2 < RawMod
  /\ capture \in [Contexts -> [pc : {"idle", "latched"}]
                                \cup [pc : {"read"}, raw : Nat, at : Nat]
                                \cup [pc : {"loaded"}, raw : Nat, at : Nat, prev : Nat]
                                \cup [pc : {"done"}, at : Nat, value : Nat]]
  /\ edge \in [Channels -> Nat]
  /\ lastRaw \in [Channels -> Nat]
  /\ polled \in [Channels -> Nat \cup {None}]
  /\ polledAt \in [Channels -> Nat \cup {None}]

\* "CAS loop: beacon hook + pulser SW captures + reporter polls run from different
\* async contexts": a capture returns the real count at which the timer was latched.
CaptureExact ==
  \A c \in Contexts : capture[c].pc = "done" => capture[c].value = capture[c].at

\* What the loop does achieve whatever preempts a capture: its low bits are right and
\* it is never behind,
CaptureNeverBehind ==
  \A c \in Contexts : capture[c].pc = "done" =>
    /\ capture[c].value % RawMod = capture[c].at % RawMod
    /\ capture[c].value >= capture[c].at

\* and publishing a reading no older than the published one adds exactly the ticks
\* between them, over a wrap of the timer too.
CaptureAddsElapsed ==
  [][packedAt' >= packedAt => packed' - packed = packedAt' - packedAt]_vars

\* The calibration "never drifts" far over a run: Instant puts the timer so close
\* to the real count that an edge, polled as late as it may be, is nearest to it in its
\* own wrap.
PredictionClose ==
  /\ 2 * (PredictedTicks - (ticks - MaxPollDelay)) <= RawMod
  /\ 2 * (ticks - PredictedTicks) < RawMod

\* A polled edge is where the hardware latched it, however late in the poll's delay
\* it is polled and however often the timer has wrapped.
EdgeExact == \A ch \in Channels : polled[ch] = polledAt[ch]

\* "anchor & event readings always agree on the high bits even after wraps": a capture that
\* follows an edge is not behind it, although the two are extended in different ways.  It
\* takes captures more frequent than wraps (MaxGap).
HighBitsAgree ==
  \A ch \in Channels, c \in Contexts :
    polled[ch] # None /\ capture[c].pc = "done" /\ capture[c].at >= polledAt[ch]
      => capture[c].value >= polled[ch]

=============================================================================
