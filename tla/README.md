# clock-sync in TLA+

A verification project for the clock-sync workspace: a time server that broadcasts its
clock over UDP, ESP32 boards that sniff the broadcasts and the access point's beacons to
follow that clock, and the tools that measure how well they do. The TLA+ modules model the
parts that keep time; TLC checks them on small instances, and TLAPS proves the results
that do not depend on the instance.

Paths below are relative to the repository; `clock-sync/lib.rs` stands for
`crates/clock-sync/src/lib.rs`, and so on for the other crates.

## 1. The system

```
 time server --UDP broadcast--> access point --frame--> radio of every board
                                access point --beacon-> radio of every board
 board:  WiFi driver -> rx_cb -> SAMPLES -> consume_samples -> BEACON_EST, UDP_EST
                          |  LATEST_BEACON, filters                 |
         association -> poll_ap_bssid -> LOCKED_BSSID               v
         pulser, reporter (test firmware) <---- queries ---- ClockSyncClient
         edges -> capture timer (MCPWM) -> reporter -> serial line -> skew meter
```

| Component | State | Operations | Talks to |
|---|---|---|---|
| `Estimator` (`clock-sync/lib.rs`) | ring of observations, head, count, last update, fit | `new`, `observe` (with `refit`), `synced_ns_at`, `local_us_at`, `quality` | owned by the client, behind a critical section |
| `AlphaBetaFilter` (same) | last x, offset and rate in fixed point | `new`, `observe`, `predict`, `rate_ppb`, `offset_us` | owned by the client |
| `LinearTracker` (same) | ring of pairs, least-squares line | `observe` (with `refit`), `predict`, `predict_inverse`, `slope_ppb` | imported by the client, never used |
| `SyncPacket` (same) | none | `to_bytes`, `parse`, `find_in_frame` | server writes, `rx_cb` reads |
| Client (`clock-sync-client/lib.rs`) | the statics: `LOCKED_BSSID`, `LATEST_BEACON`, two filters, `EXTRA_PER_US_Q32`, `BEACON_HOOK`, `INSTANT_MINUS_TSF`, `SAMPLES`, two estimators, counters | `install`, `rx_cb`, `consume_samples`, `poll_ap_bssid`, `set_beacon_hook`, the queries | WiFi driver calls `rx_cb`; tasks run on the embassy executor; the application asks queries and supplies the hook |
| Capture timer (`clock-sync-test/mcpwm_cap.rs`) | 32-bit hardware counter and capture registers, `LAST_SW_CAP_PACKED`, `LAST_CAP_CHx_RAW`, the calibration | `init`, software captures, `poll_ch0`, `poll_ch1` | is the client's beacon hook; used by pulser and reporter |
| Time server (`clock-sync-server/main.rs`) | `t0`, next deadline, sequence number | the send loop | UDP |
| Test firmware (`clock-sync-test/main.rs`) | pulse counter, WiFi station | `pulser`, `reporter`, `connection` | client, capture timer, serial line |
| Firmware (`clock-sync-firmware/main.rs`) | the line being typed, WiFi station, the socket's buffer | prompts (`read_line`), start-up waits, `install`, heartbeats, `connection`, `net_task` | client, radio, embassy-net, serial line |
| Skew meter (`skew-meter/main.rs`) | transmissions per board, statistics per direction | readers, matching, trimming, `DirStats::record`, exit status | serial lines |

### What is hard

* **Two contexts.** `rx_cb` runs in the WiFi driver's context and preempts the executor
  between any two critical sections; a query and `consume_samples` read the anchor and the
  estimator in two of them. `rx_cb` itself reads its clocks one after the other, with a
  driver call in between that may block.
* **Several time bases.** The server's clock, the TSF of each access point, the radio's
  `mac_tsf_us`, the 32-bit stamps of received frames, `Instant`, and the application's
  timer. A value is only meaningful with the clock it was read from, and every access point
  has its own. Whether `mac_tsf_us` and the stamps are one clock the source says both ways
  (section 5).
* **Wraps.** The radio's stamp (32 bits of µs), the capture timer (32 bits of 12.5 ns,
  53 s), the server's sequence number (32 bits).
* **Bounded buffers.** The channel drops what does not fit; the estimators' rings
  overwrite.
* **Rounding.** Truncated means, quotients and square roots in both directions of a
  conversion.
* **Scheduling.** Late wake-ups of the server, a consumer kept from running (the
  calibration in `mcpwm_cap::init` spins for four seconds right after `install`), captures
  that pause when beacons do, a pulser that spins on the executor it shares with the
  reporter, late wake-ups before a pulse.
* **The network.** Packets lost, late, twice, cut and overtaken; an association that comes
  and goes between any two steps of the task that looks after it.
* **Lines read by two threads.** The skew meter sees the reports of two boards in an order
  that is not that of the pulses, with lines missing.

`PROJECT.json` lists the hazards one by one, with the lines where they bite and the
properties that would notice.

### What makes each component correct

* `Estimator`: the ring is the window of the most recent observations; an answer lies
  where those put it; its two queries are inverse; the residual it reports covers most of
  the window.
* Trackers: under noise of a given range a filter's offset stays near that range, and an
  outlier moves it by a clamped step only; a line stays anchored in its window; both settle
  when the noise stops.
* Client: an anchor pairs readings of one reception with one access point's TSF; the
  window of `UDP_EST` is on one TSF; an answer is never in the future and late only by the
  packets' delay, whatever runs between its two halves; packets are conserved; a packet
  that can be used is used in the end.
* Capture timer: a capture returns the count at which the timer was latched; an edge is
  placed in its own wrap of the timer; captures and edges agree.
* Time server: a timestamp is never in the future, and timestamps never run backwards.
* Packets: one that arrives whole is found in its frame as it was sent; one that is cut is
  not found.
* Pulser and reporter: every tick is served once, the boards' pulses for one tick are close
  together, a report can be told from that of the neighbouring tick, and no edge is
  overwritten before it has been polled.
* Firmware: the line read is what the editing keys left; the board reconnects; the client
  is installed; heartbeats resume after an outage.
* Skew meter: a difference is one of two reports of the same tick, no reception whose
  transmission is known is lost, the statistics and the exit status are those of the
  differences, and its memory does not grow.

## 2. Modules

| Module | Models | Code |
|---|---|---|
| `RustArith` | `/` on signed integers, `clamp`, `min`, `abs` | as used by `refit` |
| `EstimatorOps` | the estimator's methods as operators on a value | `clock-sync/lib.rs` 104–318, 695–706 |
| `Estimator` | an estimator fed one observation after another, with its properties | same |
| `SampleWindow` | **abstract**: the last `WINDOW` observations as a sequence | what the ring promises |
| `AlphaBeta`, `LinearTracker` | the two trackers' methods as operators | `clock-sync/lib.rs` 488–588, 333–467 |
| `Trackers` | either tracker under noise | same |
| `SyncPacket` | the wire format as operators | `clock-sync/lib.rs` 39–99 |
| `ClockSyncClient` | the client's two contexts over an environment of clocks and frames; composes `EstimatorOps` and `AlphaBeta` | `clock-sync-client/lib.rs` |
| `SyncedTime` | **abstract**: a clock that becomes ready and answers questions | what the client promises |
| `CapTimer` | software captures and edge polls over a wrapping timer | `mcpwm_cap.rs` |
| `SyncServer` | the send loop, with stops and restarts | `clock-sync-server/main.rs` |
| `SyncBroadcast` | the server, the air and the sniffer's search; extends `SyncServer`, uses `SyncPacket` | same, and `find_in_frame` |
| `Pulser` | `pulser` and `reporter` of boards wired to each other | `clock-sync-test/main.rs` 282–403 |
| `Station` | `connection` over the radio | `clock-sync-test/main.rs` 226–256, `clock-sync-firmware/main.rs` 191–221 |
| `Firmware` | `main` and `net_task`; extends `Station` | `clock-sync-firmware/main.rs` |
| `SkewMeter` | readers, matching, statistics | `skew-meter/main.rs` |
| `MCEstimator`, `MCTrackers`, `MCClockSyncClient`, `MCSyncBroadcast`, `MCFirmware`, `MCSkewMeter` | values of constants that a `.cfg` cannot write | — |
| `IntegerTheorems` | quotients and remainders, sums over a domain and slot by slot, and induction as facts about sets | — |
| `EstimatorOpsProofs`, `EstimatorProofs` | lemmas on the operators; theorems of `Estimator`, and of the line in `Trackers` | — |
| `ClientProofs` | theorems of `ClockSyncClient` | — |
| `CapTimerProofs` | theorems of `CapTimer` | — |
| `PulserProofs` | theorems of `Pulser`, and of `Firmware` and `Station` | — |
| `SyncServerProofs` | theorems of `SyncServer`, `SyncPacket` and `SyncBroadcast` | — |
| `SkewMeterProofs` | theorems of `SkewMeter` | — |

### Estimator

`est` is the struct; `fit` groups the three fields only `refit` writes, and `anchor_us`,
which is 0 throughout, is left out. `observe` is one action with its refit. Arithmetic is
on the integers: the code widens to `i128`, and its saturation starts far beyond any clock.
Where Rust truncates, `TruncDiv` does, and `isqrt_u128` is the code's Newton iteration as
a recursive function. A definition named `f_xxx` above `f` and marked "Faulty" is a
variant that the properties must reject; nothing uses it.

### Trackers

One state holds either tracker (`NoTracker` where it is the other one); `MIN_POINTS` is the
`MIN_SAMPLES` of `LinearTracker`, which is not the estimator's. `Feed` gives it an offset at a
time that is later, the same or earlier than the last one (`Gaps`); `Burst` is one outlier,
`Calm` ends the noise.
Times are counted from the greatest one seen, which both trackers allow as they use
differences of times only: so behaviours of any length have finitely many states, and
settling can be checked as liveness. The line's `i64` conversions and saturations are left
out.

### Client

One action per critical section, since that is where the other context can come in.

* *Driver's context.* `Receive` is the radio: it stamps the frame. `EnterCallback` is
  `rx_cb` up to the reading of the TSF (hook, `Instant`); `UseBeacon`, `RejectBeacon`,
  `MatchPacket` and `IgnoreFrame` are the rest, by kind of frame, each beginning with
  `Prologue`, what `rx_cb` does for every frame (the smoothed delta). Time may pass, and
  the executor may run, before and after `EnterCallback`, up to `MaxLatency` in all.
* *Executor.* `exec` holds the task that is between two critical sections, with the values
  it carries; tasks are cooperative, so another one starts only when `exec` is `None`.
  `TakeEvent`, `ObserveBeacon`, `ConvertPacket`, `ObservePacket` are `consume_samples`;
  `PollAssociation` and `LockBssid` are `poll_ap_bssid`; `AskReading`, `SetExtraRate`,
  `PredictExtra`, `AskTime` and `AnswerQuery` are the two halves of every query. `Return`
  hands the answer to the caller: only there to keep the answer in the state.
* *Environment.* `Tick`, `Associate`, `Receive`. All clocks follow real time at their
  nominal rate with an offset of their own; crystal drift is left out.
* *The radio's two clocks.* Received frames are stamped by one clock (`StampBase`), modulo
  `RawMod`, which association never moves. `mac_tsf_us` (`OwnTsf`) has a base for every
  access point the station may follow (`OwnBase[follows]`; `follows` is the one it was
  associated with last): equal to `StampBase` for all if the two are one clock, as the doc
  of `mac_tsf_us` has it, or to the access point's own if it tracks its TSF, as the comment in
  `rx_cb` has it. `Gap(a)` is their difference as far as the stamp's width can tell: 0 if they
  are one clock, otherwise anything below a wrap. `rx_cb` completes a stamp with the high bits of `mac_tsf_us`, so
  the result is `mac_tsf_us` less the `Gap` (`StampTsf`). The properties are stated of the
  clock each value is really on; where the code takes one for the other (`own_tsf`,
  `own_tsf_at`), they say that the answer is off by exactly the `Gap`.
* *The hook.* It may be registered at any time, as the test firmware does, seconds after
  `install`. An anchor taken before holds 0 for the timer; `hooked` in `exec` remembers
  whether the anchor a query has read is such a one.

Left out: the counters of filtered beacons and the latency average, which nothing reads or
updates; queries that return a counter or a snapshot; `install` itself, whose result is the
initial state.

`SyncedTime` is what the caller sees: paths become ready and stay so, a question asked on a
ready path is answered, and every answer is late by at most `MaxLate` and never ahead. The
refinement (`ImplementsSyncedTime`) maps the client's statics to the set of ready paths
(`ReadyPaths`), and the task between the two halves of a query to the question under way
(`QueryUnderWay`), which is owed an answer once nothing its second half needs is missing
(`Owed`).

### Capture timer

`ticks` is the true count, of which the hardware shows `ticks % RawMod`. A software
capture is four atomic steps per context: trigger, read the latch, load
`LAST_SW_CAP_PACKED`, compare-exchange (`Publish` or `Retry`). The executor does not run
while the driver's context is in a capture. `init` gives the initial state and the
calibrated rate, computed as in the code from two captures. `latchedAt`, `packedAt` and
`polledAt` are history for the properties.

### Time server

`Boot`, `Start`, `WakeUp`, `Send` cut the loop where real time may pass; `Stop` may come at
any point. `next` and `send_unix_ns` advance by the interval whatever time it is, which is
what makes a packet's timestamp a computed one.

`SyncBroadcast` puts what `Send` sends into the air as a packet; `Receive` builds a frame
around it, with a header and a trailer, cuts the end off or not, and gives it to
`find_in_frame`. A packet can be received any number of times, in any order, or not at all.
Bytes have three values, and fields have fewer of them.

### Pulser and reporter

`pulser` is cut where time may pass: at its awaits, and between two steps that do not await,
by `MaxPreempt` (the WiFi driver preempts the executor). `from` and `by` bound when it goes
on. `Ask` chooses the tick and converts it, with an error of up to `Err` in both answers;
`Plan` and `WakeUp` are the coarse wait and the busy one; `Edge` raises the pins, `Capture`
takes the measured time, or falls back to the tick, `Release` prints. `Poll` is a
turn of the reporter, which runs only while the pulser awaits. An input's capture register holds one edge: `latch`. The rate
of the extra timer is set by the first query, and `Beacon` initialises the filter after
that.

### Firmware and station

`Station` is `connection` step by step over a radio whose events come between any two of
them. What `wait_for_event` does with an event recorded before it began is up to esp-radio:
the model leaves open whether it is forgotten, and `missed` remembers that it mattered. `connect_async` clears what was recorded and ends with
the first event. `Firmware` adds `read_line` byte by byte, with read errors, `main`'s two
waits and its heartbeats, and embassy-net as `FollowLink`, `Dhcp` and `Transmit`. The test
firmware's `main` starts the same tasks and waits, without the prompts and with a fixed
access point (`Bssid`). Parsing and formatting are left out, as are the bring-up of the hardware and the
`expect` after `install`, which stops the board if the driver refuses promiscuous mode. Without a
server's address `main` only prints from then on: "reporting", where it stays.

### Skew meter

A reader per board sends what it can parse down one channel; `Skip` is a line it cannot
(mangled, cut by a timeout of the port, or with `synced_ns=NONE`). Lines come in any order
as long as none is more than a tick late. `HandleTx` appends and trims, `HandleRx` pairs and
records, `Finish` is the deadline, or the end of both streams, with what is in the channel
then. `handled`, `pairs` and `worst` are history for the properties.

## 3. Runs

| Run | Shows |
|---|---|
| `estimator` | `RefinesWindow` (the ring implements `SampleWindow`), `AnswersWithinWindow`, `InverseConsistent`, `ResidualCovers` |
| `trackers` | `FilterBounded`, `LineSound`, and `Settles` under fairness |
| `client` | a client that stays with one access point among the beacons of another, `mac_tsf_us` on that access point's TSF and the stamps on a clock of their own: `AnchorExact`, `OneTimebase`, `AnchoredAnswersTrue`, `InverseAnswersTrue`, `DifferencesTrue`, `PacketsConserved`, `StaysReady` |
| `client_timers` | `ImplementsSyncedTime`: the paths through the filters, without latency; `PacketsAreFitted` under fairness |
| `client_roaming` | *violation* of `OneTimebase` when the station roams |
| `client_hook_race` | *violation* of `FilteredAnswersTrue` when hook and rate are set while `rx_cb` is blocked |
| `cap_timer` | `CaptureNeverBehind`, `CaptureAddsElapsed`, `EdgeExact`, `PredictionClose` over several wraps |
| `cap_race` | *violation* of `CaptureExact` by a preempted capture |
| `pulser` | `EveryTickOnce`, `Agreement`, `ReportsNearTick`, `NoEdgeLost` on two boards |
| `firmware` | `LinesAsEdited`, `ConnectsOnlyWhenDown`, and `Reconnects`, `Installs`, `HeartbeatsResume` under fairness |
| `server` | `NeverEarly`, `NeverBackwards`, `HeardAsSent` over late wake-ups, restarts, a wrap of the sequence number and an unreliable network |
| `skew_meter` | `DeltasTrue`, `ReceptionPaired`, `HistoryBounded`, `StatisticsTrue`, `VerdictTrue` |

### Bounds, and why they are enough

* *Estimator*: a ring of 5 with `MIN_SAMPLES` 2, fed every sequence made of seven observations.
  The ring is a finite part of the state, so TLC reaches every content it can have,
  full and partly full, at every head. The observations agree with each other, drift apart
  in both directions, repeat, run backwards, and put server time 0 within reach. The
  size of the ring, the slope and the observations are arbitrary in the theorems.
* *Trackers*: two offsets, gaps of one interval and of three, a repeated and a late time, one
  outlier ten times the noise, so that the innovation clamp bites; behaviours of any length.
  The fixed point has fewer bits than the code's, so its roundings are larger against the
  noise. Gains are 1/2 and 1/32: a filter that settles within few steps, with beta eight
  times the square of alpha, as in the client's filter of the access point's clock (16 and
  2048).
* *Client*: `client` has a window of two that answers from its first sample on, a channel
  of one, so it is full as soon as the consumer is late, three frames (a beacon and two
  packets, or two beacons and a packet) within three microseconds and a latency of one: a
  packet can be received before an anchor and converted after it. `mac_tsf_us` follows the
  access point (`MCTracking`) and is 2 ahead of the stamps, which wrap at 4: with the latency
  the most that `GapAssumption` allows, so that some receptions straddle a wrap of the stamp
  and some one of `mac_tsf_us`. The hook is registered at any time but while `rx_cb` is under
  way. The other runs ask nothing about `mac_tsf_us` and have a
  radio of one clock (`MCOneClock`); the theorems cover both. Two access points are heard, of which the station uses
  one (`client`) or both (`client_roaming`, with `WINDOW = MIN_SAMPLES = 2`, four frames and a
  stamp that wraps every second microsecond). Offsets between the clocks of different owners
  differ pairwise, so a reading taken for another clock's shows. `client_timers` has one access point, a window of one
  sample, frames at two moments and questions about both of them, `rx_cb` has no latency, and the hook is registered at any time but while `rx_cb`
  is under way (`HookMidway`, TRUE in `client_hook_race`): then the filters have nothing to
  smooth, and their answers must be as true as the others.
* *Capture timer*: the timer wraps every 8 ticks, and the runs last for two wraps or more
  after calibration. `MaxCapture` keeps a capture shorter than a wrap, `MaxGap` makes
  captures more frequent than wraps, `MaxPollDelay` is the reporter's period.
* *Server*: an interval of 2, time for three of them, a sequence number that wraps at 3,
  and any delay and any restart within that; two packets in the air; headers that end in the
  first byte of `MAGIC`, or hold its bytes out of order.
* *Pulser*: a period of 15 with time for three ticks. `MaxWake` exceeds `Slack`, so that the
  executor can wake the pulser after its target; `MinLead` covers twice the error and a
  preemption, the least that works (`RigAssumption` states the inequalities the rig's
  numbers satisfy with room to spare).
* *Firmware*: three prompts of up to four bytes, a buffer of two heartbeats, two access
  points of which one will do; behaviours of any length.
* *Skew meter*: three ticks, a period of three windows, so that trimming and neighbouring
  pulses are both within reach; errors of both signs, of one microsecond and of one and a half; two
  recent values, so that one leaves.

`MaxTime`, `MaxTicks`, `MaxFrames`, `MaxPackets` and `MaxTick` end the behaviours; the
properties hold up to them. Every run checks deadlock (at the bounds the association, the
edges, the restarts and the losses go on, and the pulser's `Done` marks the bound), except
`skew_meter`, whose program ends.

### Fairness

* *Client* (`FairSpec`, for `PacketsAreFitted`). `rx_cb` runs to its end once called (`WF`):
  the driver's task has priority over the executor. A task that is between two critical
  sections runs on (`WF`): nothing there awaits. `TakeEvent` is strongly fair: other tasks
  hold the executor again and again, so it is not continuously enabled, but embassy's run
  queue polls every woken task before it polls one of them twice, and `SAMPLES.receive()` is
  woken by every send. No fairness is assumed of the environment: frames, association and
  the passage of time may stop.
* *Firmware*. Every task that can go on does (`WF` on `connection`, on `main`'s steps after
  the prompts, on `FollowLink` and `Transmit`): each awaits, and embassy polls woken tasks in
  turn. Of the radio: an attempt to connect ends, and an access point that is gone is noticed
  (`WF`); one that stays in reach lets the station join if it tries again and again (`SF`),
  and DHCP answers a link that comes back again and again (`SF`). Nobody has to type, and
  access points come and go as they like: the properties say what follows if one stays.
* *Trackers*. Observations go on to be made at later times once the noise has stopped (`WF`):
  beacons are periodic.

## 4. Proofs

TLAPS checks every theorem; the assumptions are the `ASSUME`s on the constants, which TLC
evaluates in the runs. `Trackers` and `Firmware` name their specifications `TrackerSpec` and
`FirmwareSpec`: their theorems share a module with those of the component they belong to, the
estimator of the same crate and the pulser of the same boards.

* **`Estimator`**, for every ring size, slope, set of observations and fit — all the
  properties of the run `estimator`. `TypeCorrect` carries what the others need: a ring
  that is not full writes behind its observations (`n < WINDOW => head = n`) and its
  occupied slots are exactly those before `n`. `RingIsWindow` is the refinement: by the
  lemma `PlacesAreSlots` the map from places in the queue to slots is a bijection, and an
  observation either appends (`QueueGrows`) or drops the first place (`QueueShifts`).
  `AnswersCorrect` and `ResidualBounds` rest on the strengthening `Fitted` — once there are
  enough observations the fit is that of the ring, never one left from an earlier window —
  and on two lemmas of `EstimatorOpsProofs`: `MeanBetween` (the truncated mean lies between
  the least and the greatest offset) and `FewFarResiduals` (Chebyshev's inequality with
  every rounding of the code: fewer than a quarter of the window has a residual of at least
  twice the standard deviation plus two microseconds). `QueriesInverse` needs the type
  invariant alone.
* **`Trackers`, the line**, for a ring of any size, any scale of the slope and any sequence
  of observations, late and repeated ones included: `LineIsSound`. The invariant has two
  parts. `Tracker`: the ring is filled from its first slot on and the slope stays within its
  clamp. `Anchored`: as soon as two points of the ring have different times, the point the
  line passes through lies between any bounds the points have. An observation replaces a
  point, so an older centroid may end up outside; that it does not needs that `refit`
  moves the line whenever the points differ in time. It returns early only with too few
  points or when its `den` is 0, and a sum of squares is 0 only if every point is at the mean
  (`RefitAnchors`). The new centroid is between the bounds because the sums are
  (`SlotSumBounds`, about a sum taken slot by slot) and a quotient rounded towards zero stays
  between integers that enclose it (`CentroidAmongPoints`). `ShiftKeeps` is the change of
  origin, and `RoundTrip` the inverse: what `predict_inverse` rounds off is less than half a
  unit after the slope's clamp, and `predict` rounds off less than one.
* **`ClockSyncClient`**. The proof goes by the variables: `Writers` says once which actions
  write which of them (`OnlyWriters`), and each part of the invariant is then shown to be
  kept by the writers of what it speaks of. `Inv` holds for any network, clocks, ring,
  channel and any latency and `Gap` that `GapAssumption` keeps below a wrap of the stamp: a callback that has read its clocks
  read them between the reception and now (`Receiving`); every event, wherever it is — in
  the channel, with the consumer, as the anchor — carries readings of one reception, of which the
  radio's is on the stamps' clock (`EventTrue`); every sample in a window is one some access point of the network accounts
  for, and the fit is that of its window (`RingsTrue`). From it follow `TypesKept`,
  `AnchorsExact` (by the lemma `Unwrapped`: a stamp younger than a wrap is recovered; it makes
  no use of the two clocks being one), `PacketsAccounted` and `ReadinessKept`.

  What the client *answers* is only true where `Network = {a}`: the run `client_roaming` is
  the counterexample without that hypothesis. Other access points may still be heard. Then
  every stamp has been completed by the same clock (`StampsAgree`), and
  `WindowOfOneTsf` and `DifferencesKept` are direct, the latter with the stamps' clock for the
  estimator and `mac_tsf_us` for the smoothed delta. For the queries, `OneTsf` follows a
  question through its two halves: `ReadingOk` says where the first half puts the reading
  on the access point's TSF, `AnswerOk` what the second makes of it. `WindowOffset` brings
  in `MeanBetween`: the fit is late by what some packets were delayed. `AnchoredAnswers`,
  `InverseAnswers` and `FilteredAnswers` rest on it. A reading of `mac_tsf_us` is put on an
  anchor of stamps, so its answer is ahead by the `Gap`, and `own_tsf_at`'s is before
  `mac_tsf_us` by it: true only where the `Gap` is 0, and the theorems say by how much not
  where it is not. A question about the application's timer needs an anchor taken with the hook
  (`TimersTrue`: such an anchor is true whenever the hook was set); the filters are exact only
  without latency, and only unless the hook is set in the middle of a callback
  (`HookSettled`), as `client_hook_race` shows.

  `SyncedTimeKept` is the refinement, which promises true answers: its hypotheses (`Exact`)
  ask for a `Gap` of 0 if there are questions about `mac_tsf_us`, and for a hook set before the first
  frame if there are any through `synced_ns_at_extra`. Two more invariants are needed: a reading that was
  converted could be (`BasisKnown`), so that a question under way is owed an answer exactly
  if its path is ready (`Seen`). Then `Tick`, the questions, `AnswerQuery` and `Return` map
  to the steps of `SyncedTime` they look like; a beacon or a packet to `BecomeReady`
  (`ReadyGrows`, `QuestionKept`); everything else, `PredictExtra` included, to a stutter.
* **`IsqrtCorrect`**: the Newton iteration of `isqrt_u128` ends, and in the integer part of
  the root, for every natural number.
* **`IntegerTheorems`**: the library's induction principles are stated over operators, which
  the provers cannot instantiate. Here induction is a fact about *sets*: a non-empty set of
  naturals has a least element (`LeastElement`), a non-empty family of subsets of a finite
  set has a minimal one (`MinimalSubset`), both from the well-foundedness of the
  strict-subset order. `SumsStep` shows that the fold behind `SumFunction` satisfies its
  recursion, and `SumBounds` bounds a sum by its terms: the failing subsets have a minimal
  one, and taking an element off it contradicts its failing.
* **`CapTimer`**: `TypeCorrect`; `NeverBehind` and `AddsElapsed` when captures are more
  frequent than wraps (`Frequent`). The inductive invariant `Tracks` says that what is
  published has the low bits of its true count and is at least that count, that every
  capture under way carries the low bits of the count it latched, and that the published
  count is at most `MaxGap`, a capture's own at most `MaxCapture`, ago: so the next reading
  differs from it by less than a wrap. The edges rest on the calibration: `StaysClose` says
  that the rate, with the roundings of `Instant` and of the fixed point, is close enough when
  it has been measured and when the timer has run for as long as it may. How far the
  prediction may be off grows evenly with the time, so it is close enough in between
  (`NowhereNegative`, `CloseBetween`), and `PredictionBetween` encloses it: that is
  `PredictionsClose`, within half a wrap of the count and of an edge polled as late as it may
  be. Then polled edges are exact (`EdgesExact`, by the lemma `UnwrapNearest`), and
  `HighBits` puts the two together: a capture that follows an edge is not behind it, so the
  two ways of unwrapping agree, as the doc of `poll_ch0` has it. The run's constants satisfy
  `StaysClose`; those of the code (80 ticks a microsecond, 2^32, four seconds of calibration)
  do for more than three years, whatever the calibration's roundings.
* **`SyncServer`**: `TypeCorrect`, `NeverSentEarly`, `TimestampsNeverRunBackwards`. The
  strengthening says that without a wrap the next deadline is `t0` plus a whole number of
  intervals not below that of the sequence number, and that the last packet is not younger
  than `t0`.
* **`SyncPacket` and `SyncBroadcast`**, for any `MAGIC`, headers, trailers and widths of the
  fields: `ReadAsWritten` (a number less than the weight of a field's end is read from its
  bytes as it was written: what has been read after `i` bytes is the remainder by the weight
  of the `i`-th, by `OneMoreByte`), `ParsedAsWritten`, and `FoundInFrame` about a whole frame
  or one less its last byte. `PacketsHeardAsSent` adds that what is in the air fits its fields,
  which is `SyncServer`'s invariant and `TimesFit`. Its other hypothesis, `Foreign`, says that
  no header shows `MAGIC` by itself or together with the start of the packet: the code
  takes the first place that does, so without it the packet need not be found.
* **`Pulser`**, for any number of boards, any period and any bounds on errors and delays
  that satisfy `RigAssumption`: `TypeCorrect`, `PulsesAgree`, `TicksServedOnce`,
  `ReportsTellTicksApart`. The properties say nothing of where a pulser is, so the invariant
  does: `Aimed` gives, for every place the pulser may be in, its deadline in terms of its
  target, and the target in terms of its tick; `Pulsed` puts the edge near its tick;
  `InTurn` says that a pulser works for the tick after its last pulse's, or has raised a
  pulse so recently that it finds the next tick ahead of it. That is where the third
  inequality of `RigAssumption` is needed, and a `MinLead` of at least twice the error with
  a pulse that has some width: the synced time read after a pulse may be behind the tick just
  served, and `NextTickFollows` shows that the lead then skips it.
  `EdgesPolledInTime` is about two boards, as the rig is wired (`TwoBoards`), whose period has
  room for the errors and every delay of a loop (`KeepsUp`). `Pending` says how old an edge may
  be that has not been polled, by where its board's loop is, and `Polled` that it is younger
  than the gap `Paced` finds between one board's pulses, so it is polled before the next.
* **`Firmware` and `Station`**, for any letters, access points and number of prompts.
  `LinesKept`: the property says what should remain of *all* that was typed (the letters no
  backspace takes back), the code edits what is left so far. `Stacked` connects the two: after
  a letter that is kept, as many letters are kept as were typed more than there are
  backspaces; so a backspace takes back the last letter kept and no other (`LastKept`,
  `KeptWithOneMore`), which is the one `pop` removes (`EditedAsKept`). `ConnectsOnlyDown`:
  from a disconnection that `connection` has seen, or a failed attempt, to the next attempt
  nothing is associated (`StationSound`), since the radio joins only for an attempt under way,
  and an attempt begins by clearing the events of the one before; nor before `main` spawns
  the task.
* **`SkewMeter`**, for any kinds of lines, errors, window, limit and bounds — all the
  properties of its run. `Truthful` says that every event in the channel and every
  transmission kept tells the time of its tick up to an error of its kind. `DeltasKept` needs
  `Apart`: the window and two errors leave room within a period, so what is within the window
  is of one tick (100 ms against 50 ms in the rig). `Ordered` follows the transmissions of
  a board from the reader through the channel into the history: their ticks ascend, no two
  kept ones share a tick, and the first one kept was above the cutoff of the last; from it
  `HistoryStaysBounded`, for any period that is not 0. `Tallies` says of a direction's
  statistics that the number of differences times the sum of their squares covers the square
  of their sum (Cauchy–Schwarz, one difference at a time), and that the percentile is that of
  the recent ones. `StatisticsKept` follows by a count over the sorted
  sequence, and `VerdictKept` with `Overall`, which ties the maxima to the greatest difference
  of all. For `ReceptionsPaired`, `InStep` bounds how far lines of different kinds are apart in
  the channel, and `Remembered` says that of the transmissions handled the newest and that of
  the tick before are still kept; `Matched` is what makes trimming spare them and the window
  find them: errors within the window, a period within four.

The hypotheses beyond the `ASSUME`s — `Frequent`, `StaysClose`, `Apart`, `Matched`, `KeepsUp`,
`TwoBoards`, `Foreign`, `TimesFit` and what `ClientProofs` states of the network, the `Gap` and the hook —
are met by the constants of the passing runs that check the same properties.

Only model-checked:

* Liveness and the fairness it rests on, which the prover cannot handle: `Settles`,
  `PacketsAreFitted`, `Reconnects`, `Installs`, `HeartbeatsResume`.
* `FilterBounded`, which is no theorem for all constants: it depends on the gains. With 2 and
  8 for 2 and 32 TLC refutes it, and the client's other filter (512 and 2048) overshoots by far
  more than the range of what it observes. Where it holds, it is the reachable states of
  the run that show it: an inductive invariant would have to bound the rate by the offset's
  error at every gain, gap and rounding.

## 5. Where code and documentation disagree

With a run each:

1. Roaming changes `LOCKED_BSSID` and nothing else: `UDP_EST` averages offsets on two
   access points' TSFs until the old ones have left the window (`client_roaming`).
2. Setting hook and rate while `rx_cb` is between its clock readings feeds the extra filter
   a reading that was never taken; it is tracked from then on (`client_hook_race`).
3. A capture takes its reading before it loads the published one, and takes it for the later
   of the two. In the run the executor latches 7, the timer wraps (at 8), the driver preempts
   it, latches 0 and publishes 8; then the executor loads 8, at the first attempt, finds that 7
   is not below 0 and publishes 15, a reading from before the wrap in the window after it.
   Without a wrap in between, an older reading that is below the published one counts as a wrap
   that did not happen. Either way later captures are a whole wrap ahead, for good
   (`cap_race`).

Noticed on the way, without a run:

* **Is the radio's stamp on the clock of `mac_tsf_us`?** The doc of `mac_tsf_us`
  (`clock-sync-client/lib.rs` 44–48) says it is "monotonic across associations, and the same
  source the WiFi RX path stamps received packets with"; the comment in `rx_cb` (482–488) says
  that on the ESP32 "`mac_tsf_us()` tracks AP TSF (synced) while `rx_cntl.timestamp` tracks the
  local MAC free-running clock — they're in different timebases", and reports what came of
  subtracting one from the other. Only the hardware can decide; no run could call either
  sentence violated by the code, so the model takes both possibilities and the theorems hold for
  both. If the comment is right:
  - anchors, packets' samples, `BEACON_EST` and what is answered through `Instant` and the
    timers are unharmed, as they use differences of stamps only (`AnchorExact`,
    `OneTimebase`, `DifferencesTrue`);
  - `synced_ns_at_own_tsf` answers ahead of the time by the `Gap`, anything up to a wrap of 2^32 µs,
    and `own_tsf_at` a target early by as much, although the docs of both (266–275, 346–347)
    speak of readings of `mac_tsf_us` (`AnchoredAnswersTrue`, `InverseAnswersTrue`). No
    caller in the repository uses either;
  - a stamp that comes to be just ahead of `mac_tsf_us`, by less than `rx_cb` is late, is taken for one of
    the previous wrap now and not at another time, and the anchor jumps by 2^32 µs
    (`GapAssumption` excludes it; with drifting clocks it would be met sooner or later). The same
    if roaming changes what `mac_tsf_us` follows: a stamp's high bits then come from
    another clock, and an anchor is only good for the packets stamped since.
* `Quality::drift_ppb` (`clock-sync/lib.rs` 119) is documented as positive when the local
  clock runs fast; `refit` computes server time over local time, so it is positive when it
  runs slow. It comes from the extreme local readings of the window, whatever their age.
* `SAMPLES_DROPPED` ("Counter of samples dropped because the channel was full") counts
  packets only: the result of `try_send` of a beacon is discarded
  (`clock-sync-client/lib.rs` 527).
* Edges are unwrapped with `Instant`, not with the captures' state as `poll_ch0` is
  documented, and the two part after a pause of captures longer than a wrap (53 s without
  a beacon, in a firmware that does not pulse). An edge exactly a wrap after the last one
  leaves the same reading in the register and is not seen.
* `connection` may wait for a disconnection that has already happened: `Reconnects` and
  `Installs` hold unless it was forgotten between the test and the wait (`missed`).
* The doc of `pulser` says the reported time goes through `synced_ns_at_own_tsf`, that of
  `reporter` through `synced_ns_at_extra`; both go through `synced_ns_at_extra_filtered`,
  whose own doc says α=1024, β=4096 where the filter has 512 and 2048. With these gains the
  filter is far from critically damped and swings for hundreds of beacons.
* The filters take their first observation without the clamp: an outlier there is only
  worked off in clamped steps.
* A beacon received before `set_beacon_hook` leaves an anchor with `extra_us = 0`; a query
  through `synced_ns_at_extra` right after the registration uses it until the next beacon,
  and answers as if the timer had started with that beacon. The test firmware registers its hook
  four seconds or more after `install`, but asks through `synced_ns_at_extra` nowhere. Hence
  `AnchoredAnswersTrue` speaks of anchors taken with the hook (`hooked`).
* `SyncPacket::send_unix_ns` is documented as `CLOCK_REALTIME` at `sendmsg`; the server
  sends the computed `t0 + seq * interval`, and after 2^32 packets it jumps back.
* The crate describes the estimator as a weighted linear regression; it is a mean.
* `synced_ns_at_extra_filtered` divides by a rate of 0 where `synced_ns_at_extra` refuses
  it.
* `pulser` logs the target as the measured edge when the conversion fails.
* The skew meter takes a reception on the self-loop (D34) for one of the other board's
  pulse, and pairs receptions only with transmissions read before them, where its doc
  (`skew-meter/main.rs` 9–11) speaks of the nearest. It exits 0 when nothing matched, and an
  overshoot of the limit of less than a microsecond does not count; `_limit_ns` is unused.
* `read_line` pushes bytes above 0x7f as characters of their own: a name or password that is
  not ASCII is garbled.
* `CHANNEL_DEPTH`'s comment expects a consumer scheduled once per second; the calibration
  spins for four.

## 6. Not modelled

* Crystal drift, radio noise and callback jitter beyond a bounded latency: `ClockSyncClient`
  has exact clocks, so its properties are about the plumbing of time bases, not about
  accuracy under noise. The filters are exact there. What they do with noise is in `Trackers`, and the two are not
  composed.
* Integer widths of the time values: 64 and 128 bits of micro- or nanoseconds do not
  overflow in the system's life. The 32-bit quantities that do wrap are modelled.
* What lines and heartbeats look like, the parsing of arguments and of the built-in WiFi
  configuration, socket options, register layouts, the printing of counters, packaging and
  the script that drives a board: no state that a property could be about.
* esp-radio, embassy-net and the executor are modelled from how the code uses them, and
  marked as external in `PROJECT.json`.

## 7. What could come next

* A composition of server and client, the server's lateness taking the place of
  `MaxDelay`, and of `SyncedTime` with the pulser, its `MaxLate` that of `Err`.
* `FilterBounded` under a hypothesis on the gains that implies it.
