-------------------------- MODULE ClockSyncClient ---------------------------
(***************************************************************************)
(* The ESP32 client of crates/clock-sync-client/src/lib.rs, from the moment *)
(* install has returned.  Two contexts share its statics:                  *)
(*                                                                         *)
(*   - the WiFi driver's, which runs rx_cb for every frame the radio hears  *)
(*     and preempts the executor between any two critical sections;         *)
(*   - the executor, which runs one task at a time up to its next await:    *)
(*     consume_samples, poll_ap_bssid, and whatever task asks a query.      *)
(*                                                                         *)
(* Around them is the environment: real time, the clocks that follow it    *)
(* (the access points' TSFs, the radio's two clocks, Instant, the           *)
(* application's timer), and the frames on the air.  Every clock runs at    *)
(* its nominal rate here; their drift is left out.  "now" is real time in   *)
(* microseconds.                                                           *)
(*                                                                         *)
(* The source says two things of the radio's clocks.  By the doc of         *)
(* mac_tsf_us what it reads is the very clock that stamps received frames,  *)
(* "monotonic across associations"; by a comment in rx_cb mac_tsf_us        *)
(* "tracks AP TSF (synced)" while the stamp is of "the local MAC            *)
(* free-running clock", in another timebase.  Nothing in src/ decides it,   *)
(* so neither is built in: the stamps have a base of their own, and         *)
(* mac_tsf_us has one for every access point the station may follow.        *)
(***************************************************************************)
EXTENDS EstimatorOps, Sequences

CONSTANTS
  AP,             \* access points within earshot, each with a TSF of its own
  Network,        \* those the station may associate with
  ApBase,         \* ApBase[a]: the TSF of access point a at real time 0
  OwnBase,        \* OwnBase[a]: mac_tsf_us() at real time 0 if the station follows a;
                  \* one number for all, or ApBase[a], by what the source says of it
  StampBase,      \* the clock that stamps received frames at real time 0
  InstantBase,    \* Instant::now() at real time 0
  ExtraBase,      \* the application's timer at real time 0, in ticks; it has run for
                  \* seconds when its hook is set, and no longer reads 0
  ExtraPerUs,     \* ticks per microsecond of that timer (80)
  Epoch,          \* the server's clock at real time 0, in microseconds
  RawMod,         \* the radio stamps a frame with its clock modulo this (2^32)
  CHANNEL_DEPTH,  \* capacity of SAMPLES (32)
  EmaDivisor,     \* of the smoothed Instant-to-TSF delta (64)
  InstantAlpha, InstantBeta,   \* gains of AP_TSF_MINUS_INSTANT_FILTER (16, 2048)
  ExtraAlpha, ExtraBeta,       \* gains of AP_TSF_MINUS_EXTRA_FILTER (512, 2048)
  OffsetQ, RateToOffset, MaxInnovation,  \* of the filters, see AlphaBeta
  HookAtInstall,  \* whether set_beacon_hook is called before the first frame
  HookMidway,     \* whether it may be called while rx_cb is blocked
  Queries,        \* the queries the application asks
  MaxLatency,     \* bound: from the reception of a frame to the end of rx_cb
  MaxDelay,       \* bound: from the timestamp of a packet to its reception
  MaxAge,         \* bound: how far from now a query may ask
  MaxTime,        \* bound: real time
  MaxFrames       \* bound: frames on the air

\* The microseconds that rx_cb finds between mac_tsf_us and the stamp of the same instant:
\* their difference as far as the stamp's width can tell, 0 if they are one clock.
Gap(a) == (OwnBase[a] - StampBase) % RawMod

\* The queries, by the clock they are about.
Paths == {"own_tsf", "instant", "extra", "extra_filtered", "own_tsf_at", "local_us_at"}

ASSUME ClientAssumption ==
  /\ Network \subseteq AP
  /\ None \notin AP
  /\ ApBase \in [AP -> Nat]
  /\ OwnBase \in [Network -> Nat]
  /\ {StampBase, InstantBase, Epoch} \subseteq Nat
  /\ {ExtraBase, ExtraPerUs, RawMod, CHANNEL_DEPTH, EmaDivisor} \subseteq Nat \ {0}
  /\ {InstantAlpha, InstantBeta, ExtraAlpha, ExtraBeta} \subseteq Nat \ {0}
  /\ {OffsetQ, RateToOffset, MaxInnovation} \subseteq Nat \ {0}
  /\ {HookAtInstall, HookMidway} \subseteq BOOLEAN
  /\ Queries \subseteq Paths
  /\ {MaxLatency, MaxDelay, MaxAge, MaxTime, MaxFrames} \subseteq Nat
  /\ MaxDelay <= Epoch

\* A stamp and the latency of rx_cb together stay below a wrap, and mac_tsf_us has not
\* just started: a stamp a little ahead of mac_tsf_us would be taken for one of the wrap
\* before.
ASSUME GapAssumption ==
  \A a \in Network : Gap(a) + MaxLatency < RawMod /\ Gap(a) <= OwnBase[a]

AB == INSTANCE AlphaBeta

VARIABLES
  now,              \* real time
  assoc,            \* the access point the station is associated with, or None
  follows,          \* the one it was associated with last, which mac_tsf_us may follow
  rx,               \* the frame rx_cb is called for, or None
  exec,             \* the task the executor is in the middle of, or None
  locked,           \* LOCKED_BSSID
  latest,           \* LATEST_BEACON
  instantFilter,    \* AP_TSF_MINUS_INSTANT_FILTER
  extraFilter,      \* AP_TSF_MINUS_EXTRA_FILTER
  extraRate,        \* EXTRA_PER_US_Q32 in whole ticks, 0 when not configured
  hook,             \* whether BEACON_HOOK is set
  instantMinusTsf,  \* INSTANT_MINUS_TSF, None for DELTA_UNSET
  chan,             \* SAMPLES
  beaconEst,        \* BEACON_EST
  udpEst,           \* UDP_EST
  count,            \* FRAMES_SEEN, FRAMES_MATCHED, BEACONS_SEEN, BEACONS_USED,
                    \* SAMPLES_DROPPED
  tally             \* what no counter of the code records, for the properties

env    == <<now, assoc, follows>>
anchor == <<latest, instantFilter, extraFilter>>
fits   == <<beaconEst, udpEst>>
stored == <<locked, anchor, extraRate, hook, instantMinusTsf, chan, fits, count, tally>>
vars   == <<env, rx, exec, stored>>

-----------------------------------------------------------------------------
(* The clocks at real time t.                                              *)

ApTsf(a, t)   == ApBase[a] + t
OwnTsf(t)     == OwnBase[follows] + t
InstantUs(t)  == InstantBase + t
ExtraTicks(t) == ExtraBase + ExtraPerUs * t
ServerNs(t)   == NsPerUs * (Epoch + t)

\* rx_cntl.timestamp of a frame received at t.
RxTimestamp(t) == (StampBase + t) % RawMod

-----------------------------------------------------------------------------
Init ==
  /\ now = 0
  /\ follows \in Network
  /\ assoc \in {follows, None}
  /\ rx = None
  /\ exec = None
  /\ locked = None
  /\ latest = None
  /\ instantFilter = AB!new
  /\ extraFilter = AB!new
  /\ extraRate = 0
  /\ hook = HookAtInstall
  /\ instantMinusTsf = None
  /\ chan = << >>
  /\ beaconEst = new
  /\ udpEst = new
  /\ count = [seen |-> 0, matched |-> 0, beacons |-> 0, used |-> 0, dropped |-> 0]
  /\ tally = [udpTaken |-> 0, anchored |-> 0, fitted |-> 0]

-----------------------------------------------------------------------------
(* The environment.                                                        *)

\* Time passes, but rx_cb is done with a frame within MaxLatency.
Tick ==
  /\ now < MaxTime
  /\ rx # None => now < rx.at + MaxLatency
  /\ now' = now + 1
  /\ UNCHANGED <<assoc, follows, rx, exec, stored>>

\* The station associates, roams, or loses its access point.
Associate(a) ==
  /\ assoc # a
  /\ assoc' = a
  /\ follows' = IF a = None THEN follows ELSE a
  /\ UNCHANGED <<now, rx, exec, stored>>

\* The frames that may be on the air: a beacon of any access point, a packet of
\* the server sent d microseconds ago, and any other frame.
Frames ==
  [kind : {"beacon"}, bssid : AP] \cup [kind : {"sync"}, sent : now - MaxDelay .. now]
    \cup [kind : {"other"}]

\* The radio receives a frame, stamps it and calls rx_cb.
Receive(f) ==
  /\ rx = None
  /\ count.seen < MaxFrames
  /\ rx' = [stage |-> "called", frame |-> f, at |-> now]
  /\ UNCHANGED <<env, exec, stored>>

-----------------------------------------------------------------------------
(* rx_cb.  It reads the application's timer and Instant, and then the TSF,  *)
(* a driver call that may block; the rest runs at once.                     *)

\* The first lines: invoke_beacon_hook and Instant::now.
EnterCallback ==
  /\ rx # None
  /\ rx.stage = "called"
  /\ rx' = [stage   |-> "entered",
            frame   |-> rx.frame,
            at      |-> rx.at,
            extra   |-> IF hook THEN ExtraTicks(now) ELSE 0,
            instant |-> InstantUs(now)]
  /\ UNCHANGED <<env, exec, stored>>

\* Faulty: the reading's high bits are taken as they are.
UnwrapTimestamp_no_borrow(own_tsf_at_cb, raw) ==
  own_tsf_at_cb - (own_tsf_at_cb % RawMod) + raw

\* A frame's stamp in full width, with the high bits of a reading taken in the callback.
UnwrapTimestamp(own_tsf_at_cb, raw) ==
  LET high == own_tsf_at_cb - (own_tsf_at_cb % RawMod)
  IN  IF (own_tsf_at_cb % RawMod) >= raw THEN high + raw ELSE high - RawMod + raw

\* The smoothed delta between Instant and the TSF.
SmoothDelta(prev, delta) ==
  IF prev = None THEN delta ELSE prev + TruncDiv(delta - prev, EmaDivisor)

\* What rx_cb does for every frame.
Prologue ==
  /\ rx # None
  /\ rx.stage = "entered"
  /\ rx' = None
  /\ instantMinusTsf' = SmoothDelta(instantMinusTsf, rx.instant - OwnTsf(now))

\* try_send: the event is lost when the channel is full.
Full == Len(chan) >= CHANNEL_DEPTH

\* Faulty: the channel grows, or the oldest event makes room.
try_send_unbounded(event) == Append(chan, event)
try_send_evicts(event) == IF Full THEN Append(Tail(chan), event) ELSE Append(chan, event)

try_send(event) == IF Full THEN chan ELSE Append(chan, event)

\* The application's timer in microseconds.
ExtraInUs(ticks, rate) == TruncDiv(ticks, rate)

\* Faulty: mac_tsf_us stands for the stamp.
BeaconAnchor_at_callback ==
  [instant_us |-> rx.instant,
   own_tsf_us |-> OwnTsf(now),
   ap_tsf_us  |-> ApTsf(rx.frame.bssid, rx.at),
   extra_us   |-> rx.extra]

BeaconAnchor ==
  [instant_us |-> rx.instant,
   own_tsf_us |-> UnwrapTimestamp(OwnTsf(now), RxTimestamp(rx.at)),
   ap_tsf_us  |-> ApTsf(rx.frame.bssid, rx.at),
   extra_us   |-> rx.extra]

\* Faulty: any beacon will do once an access point is locked.
pass_when_locked(bssid) == locked # None

\* The beacon is of the access point the client is locked onto.
pass(bssid) == bssid = locked

\* A beacon of the locked access point becomes the anchor and feeds the filters.
UseBeacon ==
  /\ Prologue
  /\ rx.frame.kind = "beacon"
  /\ pass(rx.frame.bssid)
  /\ LET a == BeaconAnchor
         x == ExtraInUs(a.extra_us, extraRate)
     IN  /\ latest' = a
         /\ instantFilter' = AB!observe(instantFilter, InstantAlpha, InstantBeta,
                                        a.instant_us, a.ap_tsf_us - a.instant_us)
         /\ extraFilter' =
              IF extraRate = 0 THEN extraFilter
              ELSE AB!observe(extraFilter, ExtraAlpha, ExtraBeta, x, a.ap_tsf_us - x)
         /\ chan' = try_send([kind |-> "beacon", anchor |-> a])
  /\ count' = [count EXCEPT !.seen = @ + 1, !.beacons = @ + 1, !.used = @ + 1]
  /\ UNCHANGED <<env, exec, locked, extraRate, hook, fits, tally>>

\* A beacon of any other access point is only counted.
RejectBeacon ==
  /\ Prologue
  /\ rx.frame.kind = "beacon"
  /\ ~pass(rx.frame.bssid)
  /\ count' = [count EXCEPT !.seen = @ + 1, !.beacons = @ + 1]
  /\ UNCHANGED <<env, exec, locked, anchor, extraRate, hook, chan, fits, tally>>

\* A packet of the server is handed to consume_samples.
MatchPacket ==
  /\ Prologue
  /\ rx.frame.kind = "sync"
  /\ chan' = try_send([kind       |-> "udp",
                       server_ns  |-> ServerNs(rx.frame.sent),
                       own_tsf_us |-> UnwrapTimestamp(OwnTsf(now), RxTimestamp(rx.at))])
  /\ count' = [count EXCEPT !.seen = @ + 1, !.matched = @ + 1,
                            !.dropped = IF Full THEN @ + 1 ELSE @]
  /\ tally' = [tally EXCEPT !.anchored = IF latest # None /\ ~Full THEN @ + 1 ELSE @]
  /\ UNCHANGED <<env, exec, locked, anchor, extraRate, hook, fits>>

IgnoreFrame ==
  /\ Prologue
  /\ rx.frame.kind = "other"
  /\ count' = [count EXCEPT !.seen = @ + 1]
  /\ UNCHANGED <<env, exec, locked, anchor, extraRate, hook, chan, fits, tally>>

rx_cb == EnterCallback \/ UseBeacon \/ RejectBeacon \/ MatchPacket \/ IgnoreFrame

-----------------------------------------------------------------------------
(* The executor.  A task that has reached a critical section is in "exec"   *)
(* with what it holds; a task that awaits gives the executor up.           *)

Idle == exec = None

\* What a task does at its next critical section; None gives the executor up.
Proceed(task) == exec' = task

\* Faulty: the time since the anchor is left out, or a reading that is not younger than
\* the anchor is refused.
own_tsf_to_ap_tsf_at_anchor(own_tsf_us) ==
  IF latest = None THEN None ELSE latest.ap_tsf_us

own_tsf_to_ap_tsf_after_anchor(own_tsf_us) ==
  LET ap == latest.ap_tsf_us + (own_tsf_us - latest.own_tsf_us)
  IN  IF latest = None \/ own_tsf_us <= latest.own_tsf_us THEN None ELSE ap

\* own_tsf_to_ap_tsf, with the anchor the critical section reads.
own_tsf_to_ap_tsf(own_tsf_us) ==
  LET ap == latest.ap_tsf_us + (own_tsf_us - latest.own_tsf_us)
  IN  IF latest = None \/ ap < 0 THEN None ELSE ap

\* consume_samples: SAMPLES.receive() returns the oldest event.
TakeEvent ==
  /\ Idle
  /\ chan # << >>
  /\ chan' = Tail(chan)
  /\ Proceed([task |-> "consume", event |-> Head(chan)])
  /\ tally' = [tally EXCEPT !.udpTaken = IF Head(chan).kind = "udp" THEN @ + 1 ELSE @]
  /\ UNCHANGED <<env, rx, locked, anchor, extraRate, hook, instantMinusTsf, fits, count>>

\* A beacon is observed by BEACON_EST.
ObserveBeacon ==
  /\ ~Idle
  /\ exec.task = "consume"
  /\ exec.event.kind = "beacon"
  /\ LET a == exec.event.anchor
     IN  beaconEst' = observe(beaconEst, [server_ns |-> NsPerUs * a.ap_tsf_us,
                                          local_us  |-> a.own_tsf_us])
  /\ Proceed(None)
  /\ UNCHANGED <<env, rx, locked, anchor, extraRate, hook, instantMinusTsf, chan,
                 udpEst, count, tally>>

\* A packet's reception is put on the TSF of the access point through the latest
\* anchor; without one the packet is forgotten.
ConvertPacket ==
  /\ ~Idle
  /\ exec.task = "consume"
  /\ exec.event.kind = "udp"
  /\ LET ap == own_tsf_to_ap_tsf(exec.event.own_tsf_us)
     IN  Proceed(IF ap = None THEN None
                 ELSE [task   |-> "fit",
                       sample |-> [server_ns |-> exec.event.server_ns,
                                   local_us  |-> ap]])
  /\ UNCHANGED <<env, rx, stored>>

\* The packet is observed by UDP_EST.
ObservePacket ==
  /\ ~Idle
  /\ exec.task = "fit"
  /\ udpEst' = observe(udpEst, exec.sample)
  /\ Proceed(None)
  /\ tally' = [tally EXCEPT !.fitted = @ + 1]
  /\ UNCHANGED <<env, rx, locked, anchor, extraRate, hook, instantMinusTsf, chan,
                 beaconEst, count>>

consume_samples == TakeEvent \/ ObserveBeacon \/ ConvertPacket \/ ObservePacket

\* poll_ap_bssid asks the driver for the association, and locks onto the answer
\* if it differs from its last one, which is what LOCKED_BSSID holds.  It changes
\* nothing while the station is not associated.
PollAssociation ==
  /\ Idle
  /\ assoc \notin {None, locked}
  /\ Proceed([task |-> "lock", bssid |-> assoc])
  /\ UNCHANGED <<env, rx, stored>>

LockBssid ==
  /\ ~Idle
  /\ exec.task = "lock"
  /\ locked' = exec.bssid
  /\ Proceed(None)
  /\ UNCHANGED <<env, rx, anchor, extraRate, hook, instantMinusTsf, chan, fits,
                 count, tally>>

poll_ap_bssid == PollAssociation \/ LockBssid

\* The application registers its hook.
set_beacon_hook ==
  /\ Idle
  /\ rx = None \/ HookMidway
  /\ ~hook
  /\ hook' = TRUE
  /\ UNCHANGED <<env, rx, exec, locked, anchor, extraRate, instantMinusTsf, chan,
                 fits, count, tally>>

-----------------------------------------------------------------------------
(* The queries.  Each reads two statics in two critical sections: first the *)
(* one that puts the reading on the access point's TSF, then the estimator; *)
(* the inverse queries read them the other way round.                      *)

\* Faulty: a reading from before the last beacon is refused.
Predicted_not_before(filter, x) ==
  LET offset == AB!predict(filter, x)
  IN  IF offset = None \/ x < filter.last_x_us THEN None ELSE x + offset

\* instant_to_ap_tsf, and the same conversion from the application's timer.
Predicted(filter, x) ==
  LET offset == AB!predict(filter, x)
  IN  IF offset = None \/ x + offset < 0 THEN None ELSE x + offset

\* The conversion of synced_ns_at_extra, through the latest anchor.
extra_to_ap_tsf(ticks, rate) ==
  LET ap == latest.ap_tsf_us + TruncDiv(ticks - latest.extra_us, rate)
  IN  IF latest = None \/ rate = 0 \/ ap < 0 THEN None ELSE ap

\* The first half of a query about a reading taken at real time t; one of mac_tsf_us that
\* is older than the last change of the access point is left out.
Reading(path, t) ==
  CASE path = "own_tsf"        -> own_tsf_to_ap_tsf(OwnTsf(t))
    [] path = "instant"        -> Predicted(instantFilter, InstantUs(t))
    [] path = "extra"          -> extra_to_ap_tsf(ExtraTicks(t), ExtraPerUs)
    [] path = "extra_filtered" -> Predicted(extraFilter,
                                            ExtraInUs(ExtraTicks(t), ExtraPerUs))

\* The anchor was taken with the hook: without it rx_cb puts 0 for the timer.
Hooked == latest # None /\ latest.extra_us # 0

\* "hooked" is for the properties: whether an anchor of that kind was read.
Ask(path, t) ==
  Proceed([task |-> "query", path |-> path, at |-> t, ap |-> Reading(path, t),
           hooked |-> path = "extra" /\ Hooked])

\* synced_ns_at_own_tsf, synced_ns_at and synced_ns_at_extra, up to the estimator.
\* The applications read their timer only once they have registered the hook.
AskReading(path, t) ==
  /\ Idle
  /\ path \in Queries
  /\ path = "extra" => hook
  /\ Ask(path, t)
  /\ UNCHANGED <<env, rx, stored>>

\* synced_ns_at_extra_filtered first tells rx_cb the rate of the timer.
SetExtraRate(t) ==
  /\ Idle
  /\ "extra_filtered" \in Queries
  /\ hook
  /\ extraRate' = ExtraPerUs
  /\ Proceed([task |-> "predict", at |-> t])
  /\ UNCHANGED <<env, rx, locked, anchor, hook, instantMinusTsf, chan, fits, count, tally>>

PredictExtra ==
  /\ ~Idle
  /\ exec.task = "predict"
  /\ Ask("extra_filtered", exec.at)
  /\ UNCHANGED <<env, rx, stored>>

\* own_tsf_at and local_us_at about the server's time at real time t.
AskTime(path, t) ==
  /\ Idle
  /\ path \in Queries
  /\ Proceed([task |-> "query", path |-> path, at |-> t,
              ap |-> local_us_at(udpEst, ServerNs(t)), hooked |-> FALSE])
  /\ UNCHANGED <<env, rx, stored>>

\* Faulty: the difference is taken the wrong way round.
ap_tsf_to_own_tsf_backwards(ap) ==
  LET own == latest.own_tsf_us - (ap - latest.ap_tsf_us)
  IN  IF latest = None \/ own < 0 THEN None ELSE own

\* Where the inverse queries put a TSF of the access point on their own clock.
ap_tsf_to_own_tsf(ap) ==
  LET own == latest.own_tsf_us + (ap - latest.ap_tsf_us)
  IN  IF latest = None \/ own < 0 THEN None ELSE own

ap_tsf_to_instant(ap) ==
  LET inst1 == ap - AB!predict(instantFilter, ap)
      inst2 == ap - AB!predict(instantFilter, inst1)
  IN  IF ~instantFilter.initialized \/ inst2 < 0 THEN None ELSE inst2

\* The second half.
Answer(path, ap) ==
  IF ap = None THEN None
  ELSE CASE path = "own_tsf_at"  -> ap_tsf_to_own_tsf(ap)
         [] path = "local_us_at" -> ap_tsf_to_instant(ap)
         [] OTHER                -> synced_ns_at(udpEst, ap)

AnswerQuery ==
  /\ ~Idle
  /\ exec.task = "query"
  /\ Proceed([task |-> "answered", path |-> exec.path, at |-> exec.at,
              answer |-> Answer(exec.path, exec.ap), hooked |-> exec.hooked])
  /\ UNCHANGED <<env, rx, stored>>

Return ==
  /\ ~Idle
  /\ exec.task = "answered"
  /\ Proceed(None)
  /\ UNCHANGED <<env, rx, stored>>

Near == now - Least(now, MaxAge) .. now

query ==
  \/ \E path \in {"own_tsf", "instant", "extra"}, t \in Near : AskReading(path, t)
  \/ \E t \in Near : SetExtraRate(t)
  \/ PredictExtra
  \/ \E path \in {"own_tsf_at", "local_us_at"}, t \in Near : AskTime(path, t)
  \/ AnswerQuery
  \/ Return

-----------------------------------------------------------------------------
Executor == consume_samples \/ poll_ap_bssid \/ set_beacon_hook \/ query

Next ==
  \/ Tick
  \/ \E a \in Network \cup {None} : Associate(a)
  \/ \E f \in Frames : Receive(f)
  \/ rx_cb
  \/ Executor

Spec == Init /\ [][Next]_vars

\* The driver delivers what the radio received, a task that holds the executor
\* runs on, and the executor comes back to consume_samples again and again.
Fairness ==
  /\ WF_vars(rx_cb)
  /\ WF_vars(ObserveBeacon \/ ConvertPacket \/ ObservePacket \/ LockBssid
               \/ PredictExtra \/ AnswerQuery \/ Return)
  /\ SF_vars(TakeEvent)

FairSpec == Spec /\ Fairness

-----------------------------------------------------------------------------
(* The type invariant.                                                     *)

Readings == [instant_us : Int, own_tsf_us : Int, ap_tsf_us : Int, extra_us : Int]
Sample   == [server_ns : Int, local_us : Int]
Filter   == [initialized : BOOLEAN, last_x_us : Int, offset_q : Int, rate_q : Int]
Event    == [kind : {"beacon"}, anchor : Readings]
              \cup [kind : {"udp"}, server_ns : Int, own_tsf_us : Int]

Estimators ==
  [samples : [Slots -> Sample \cup {NoSample}], head : Slots, n : 0..WINDOW,
   last_update_us : Int,
   fit : [offset_ns : Int, drift_ppb : Int, residual_us_p95 : Int]]

Frame == [kind : {"beacon"}, bssid : AP] \cup [kind : {"sync"}, sent : Int]
           \cup [kind : {"other"}]

Reception ==
  [stage : {"called"}, frame : Frame, at : Nat]
    \cup [stage : {"entered"}, frame : Frame, at : Nat, extra : Int, instant : Int]

Task ==
  [task : {"consume"}, event : Event] \cup [task : {"fit"}, sample : Sample]
    \cup [task : {"lock"}, bssid : AP] \cup [task : {"predict"}, at : Nat]
    \cup [task : {"query"}, path : Paths, at : Nat, ap : Int \cup {None},
          hooked : BOOLEAN]
    \cup [task : {"answered"}, path : Paths, at : Nat, answer : Int \cup {None},
          hooked : BOOLEAN]

ASSUME NoneAssumption == None \notin Readings \cup Reception \cup Task

TypeOK ==
  /\ now \in Nat
  /\ assoc \in Network \cup {None}
  /\ follows \in Network
  /\ rx \in Reception \cup {None}
  /\ exec \in Task \cup {None}
  /\ locked \in Network \cup {None}
  /\ latest \in Readings \cup {None}
  /\ instantFilter \in Filter
  /\ extraFilter \in Filter
  /\ extraRate \in {0, ExtraPerUs}
  /\ hook \in BOOLEAN
  /\ instantMinusTsf \in Int \cup {None}
  /\ chan \in Seq(Event)
  /\ Len(chan) <= CHANNEL_DEPTH
  /\ beaconEst \in Estimators
  /\ udpEst \in Estimators
  /\ count \in [seen : Nat, matched : Nat, beacons : Nat, used : Nat, dropped : Nat]
  /\ tally \in [udpTaken : Nat, anchored : Nat, fitted : Nat]

-----------------------------------------------------------------------------
(* What the client promises.                                               *)

\* The stamps' clock at t in full width, as rx_cb completes it while the station follows b:
\* mac_tsf_us less what rx_cb finds between the two.
StampTsf(b, t) == OwnBase[b] - Gap(b) + t

\* a and t: the access point and the reception that a set of readings is of; b: the access
\* point the station followed when it was stamped.
AnchorOf(r, a, b, t) == r.own_tsf_us = StampTsf(b, t) /\ r.ap_tsf_us = ApTsf(a, t)

\* The latest anchor and every beacon under way pair the TSF of one access point
\* of the network with the stamps' clock at the very same reception, whatever
\* rx_cb's latency, however often the stamp has wrapped and however far mac_tsf_us, which
\* lends its high bits, is from the stamps.
AnchorExact ==
  /\ latest # None => \E a, b \in Network, t \in 0..now : AnchorOf(latest, a, b, t)
  /\ \A i \in 1..Len(chan) : chan[i].kind = "beacon" =>
       \E a, b \in Network, t \in 0..now : AnchorOf(chan[i].anchor, a, b, t)

\* A packet's sample as an access point a sees it: the server's timestamp is at
\* most MaxDelay older than the reception.
SampleOf(s, a) ==
  OffsetOf(s) + NsPerUs * (ApBase[a] - Epoch) \in -(NsPerUs * MaxDelay) .. 0

\* "Beacons not matching this BSSID are rejected so we don't mix multiple APs'
\* (independent) TSF clocks": the window of UDP_EST is on one access point's TSF.
OneTimebase ==
  \E a \in Network : \A i \in Slots :
    udpEst.samples[i] # NoSample => SampleOf(udpEst.samples[i], a)

AnswerLate(t, answer) == ServerNs(t) - answer \in 0 .. NsPerUs * MaxDelay

Answered(paths) ==
  exec # None /\ exec.task = "answered" /\ exec.path \in paths /\ exec.answer # None

\* Whatever rx_cb does to the anchor between the two critical sections of a query, an
\* answer about a reading of mac_tsf_us is late by no more than the packets were delayed,
\* less the Gap by which the reading is ahead of the stamps that make the anchor: it is
\* true where they are one clock, and in the future by all of the Gap where they are not.
\* An answer about a reading of the application's timer is late by what rx_cb was late
\* more, as the anchor's timer is read only when rx_cb runs, provided that the anchor the
\* query read was taken with the hook ("Both the anchor extra_us and the event extra_us
\* come from the same timer").
AnchoredAnswersTrue ==
  /\ Answered({"own_tsf"}) => AnswerLate(exec.at + Gap(follows), exec.answer)
  /\ Answered({"extra"}) /\ exec.hooked =>
       ServerNs(exec.at) - exec.answer \in 0 .. NsPerUs * (MaxDelay + MaxLatency)

\* The same of the paths through the filters, which have nothing to smooth when
\* rx_cb runs without latency.
FilteredAnswersTrue ==
  Answered({"instant", "extra_filtered"}) => AnswerLate(exec.at, exec.answer)

\* The inverse queries put a server time late by no more than the packets' delay, and
\* own_tsf_at, whose answer is on the stamps' clock, before that time on the clock of
\* mac_tsf_us by the Gap between the two.
InverseAnswersTrue ==
  /\ Answered({"own_tsf_at"}) =>
       exec.answer - (OwnTsf(exec.at) - Gap(follows)) \in 0..MaxDelay
  /\ Answered({"local_us_at"}) /\ MaxLatency = 0 =>
       exec.answer - InstantUs(exec.at) \in 0..MaxDelay

BeaconFitExact ==
  beaconEst.n >= MIN_SAMPLES =>
    /\ beaconEst.fit.residual_us_p95 = 0
    /\ \E a, b \in Network :
         beaconEst.fit.offset_ns = NsPerUs * (ApBase[a] - StampTsf(b, 0))

DeltaWithinLatency ==
  instantMinusTsf # None =>
    \E a, b \in Network :
      instantMinusTsf \in InstantBase - OwnBase[a] - MaxLatency .. InstantBase - OwnBase[b]

\* The clocks' differences that are tracked beside the anchor are true, each of the clock
\* it is measured with, whatever was lost on the way: the diagnostic estimator sees the
\* access point's TSF run exactly as the stamps, Gap and all, and the smoothed delta never
\* leaves the range of the deltas rx_cb can measure, what Instant and mac_tsf_us differ by
\* less the time between its two readings, whichever access points it has followed.
DifferencesTrue == BeaconFitExact /\ DeltaWithinLatency

\* Every packet is accounted for: consumed, waiting in the channel, or counted as
\* dropped.
PacketsConserved ==
  count.matched = tally.udpTaken + count.dropped
                    + Cardinality({i \in 1..Len(chan) : chan[i].kind = "udp"})

\* Once the client can answer a query through the anchor it always can.
Ready == latest # None /\ udpEst.n >= MIN_SAMPLES

StaysReady == [][Ready => Ready']_vars

\* The paths on which the client has what a query needs.
ReadyPaths ==
  IF udpEst.n < MIN_SAMPLES THEN {}
  ELSE {p \in Queries : /\ p \in {"own_tsf", "own_tsf_at", "extra"} => latest # None
                        /\ p \in {"instant", "local_us_at"} => instantFilter.initialized
                        /\ p = "extra_filtered" => extraFilter.initialized}

\* A query whose reading was converted only lacks what its second half needs.
Owed ==
  IF exec.task = "predict" THEN "extra_filtered" \in ReadyPaths
  ELSE /\ exec.ap # None
       /\ exec.path = "local_us_at" => instantFilter.initialized
       /\ exec.path = "own_tsf_at" => latest # None
       /\ udpEst.n >= MIN_SAMPLES

Lateness(path, t, answer) ==
  IF answer = None THEN None
  ELSE CASE path = "local_us_at" -> NsPerUs * (answer - InstantUs(t))
         [] path = "own_tsf_at"  -> NsPerUs * (answer - OwnTsf(t))
         [] OTHER                -> ServerNs(t) - answer

\* The question under way as the application sees it.
QueryUnderWay ==
  IF exec = None \/ exec.task \notin {"predict", "query", "answered"} THEN None
  ELSE IF exec.task = "answered"
  THEN [path |-> exec.path, at |-> exec.at,
        late |-> Lateness(exec.path, exec.at, exec.answer)]
  ELSE [path |-> IF exec.task = "predict" THEN "extra_filtered" ELSE exec.path,
        at   |-> exec.at, owed |-> Owed]

Promise == INSTANCE SyncedTime WITH
  Paths   <- Queries,
  MaxLate <- NsPerUs * MaxDelay,
  ready   <- ReadyPaths,
  query   <- QueryUnderWay

\* The client keeps what SyncedTime promises when rx_cb runs without latency: on no path
\* does it cease to be ready or refuse a question it was ready for, although rx_cb changes
\* anchor and filters between the halves of a query.
ImplementsSyncedTime == Promise!Spec

\* Packets that entered the channel after the first anchor do not stay behind: as the frames
\* end with MaxFrames, all of them end up in the estimator, and with MIN_SAMPLES of them the
\* client becomes ready.
PacketsAreFitted == <>[](tally.fitted >= tally.anchored)

=============================================================================
