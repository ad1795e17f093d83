---------------------------- MODULE ClientProofs -----------------------------
(***************************************************************************)
(* What the client keeps for every number of access points and frames,     *)
(* every base of the clocks, every ring and channel, every latency of rx_cb *)
(* and every Gap between mac_tsf_us and the stamps that together stay below *)
(* a wrap of the stamp: the types, the anchor, the accounting of packets;   *)
(* with one access point in the network the answers of the queries, by how  *)
(* much the Gap moves them included; and, when rx_cb runs without latency,  *)
(* all of SyncedTime.                                                      *)
(***************************************************************************)
EXTENDS ClockSyncClient, EstimatorOpsProofs, SequenceTheorems

-----------------------------------------------------------------------------
(* The clocks' arithmetic.                                                 *)

LEMMA Scaled ==
  ASSUME NEW k \in Nat, NEW x \in Int, NEW y \in Int, x <= y
  PROVE  k * x <= k * y
<1>1. PICK d \in Nat : y = x + d
  BY y - x \in Nat, y = x + (y - x)
<1>2. k * (x + d) = k * x + k * d /\ k * d \in Nat /\ k * x \in Int
  OBVIOUS
<1> QED
  BY <1>1, <1>2

\* What is late by d of at most n microseconds is late by as much in nanoseconds.
LEMMA LateInNs ==
  ASSUME NEW n \in Nat, NEW d \in 0..n
  PROVE  NsPerUs * d \in 0 .. NsPerUs * n
<1> NsPerUs \in Nat
  BY EstimatorAssumption
<1>1. NsPerUs * 0 <= NsPerUs * d /\ NsPerUs * d <= NsPerUs * n
  BY Scaled
<1> QED
  BY <1>1

\* rx_cb completes a stamp with the high bits of a reading that is ahead by less than a wrap.
LEMMA Unwrapped ==
  ASSUME NEW c \in Int, NEW x \in Int, x <= c, c - x < RawMod
  PROVE  UnwrapTimestamp(c, x % RawMod) = x
<1> DEFINE m == RawMod
           p == c % m
           r == x % m
           u == IF p >= r THEN c - p + r ELSE c - p - m + r
<1>1. m \in Nat \ {0}
  BY ClientAssumption
<1>2. UnwrapTimestamp(c, r) = u
  BY DEF UnwrapTimestamp
<1>3. PICK q \in Int : c = m * q + p
  <2>1. c \div m \in Int /\ c = m * (c \div m) + p
    BY <1>1
  <2> QED
    BY <2>1
<1>4. p \in 0 .. m - 1 /\ r \in 0 .. m - 1
  BY <1>1
<1>5. m * q \in Int /\ m * (q - 1) = m * q - m
  BY <1>1
<1> HIDE DEF m, p
<1>6. u \in Int /\ u <= c /\ c - u < m
  BY <1>1, <1>3, <1>4
<1>7. u % m = r
  <2> DEFINE k == IF p >= r THEN q ELSE q - 1
             rest == r
  <2>1. k \in Int /\ u = m * k + rest
    BY <1>3, <1>4, <1>5
  <2> HIDE DEF k, u, rest
  <2>2. u % m = rest
    BY <1>1, <1>4, <1>6, <2>1, DivModUnique DEF rest
  <2> QED
    BY <2>2 DEF rest
<1>8. c - x < m
  BY DEF m
<1> HIDE DEF u
<1>9. u = x
  <2>1. u % m = x % m
    BY <1>7
  <2>2. u - x < m /\ x - u < m
    BY <1>1, <1>6, <1>8
  <2> QED
    BY <1>1, <1>6, <2>1, <2>2, OneInAWrap
<1> QED
  BY <1>2, <1>9 DEF m

\* A quotient of a multiple is exact, and a remainder is cut off.
LEMMA TruncExact ==
  ASSUME NEW k \in Nat \ {0}, NEW d \in Int
  PROVE  TruncDiv(k * d, k) = d
<1>1. k * d \in Int /\ d * k = k * d
  OBVIOUS
<1>2. d <= TruncDiv(k * d, k) /\ TruncDiv(k * d, k) <= d /\ TruncDiv(k * d, k) \in Int
  BY <1>1, TruncDivBetween
<1> QED
  BY <1>2

LEMMA QuotientPlus ==
  ASSUME NEW k \in Nat \ {0}, NEW c \in Int, NEW d \in Int
  PROVE  (c + k * d) \div k = c \div k + d
<1> DEFINE q == c \div k
           r == c % k
           z == c + k * d
<1>1. q \in Int /\ r \in 0 .. k - 1 /\ c = k * q + r /\ k * q \in Int /\ k * d \in Int
  OBVIOUS
<1>2. k * (q + d) = k * q + k * d
  BY <1>1
<1> HIDE DEF q, r
<1>3. z = k * (q + d) + r /\ z \in Int /\ q + d \in Int
  BY <1>1, <1>2
<1> HIDE DEF z
<1>4. z \div k = q + d
  BY <1>1, <1>3, DivModUnique
<1> QED
  BY <1>4 DEF z, q

\* The quotient of a natural is that of "/".
LEMMA TruncOfNat ==
  ASSUME NEW k \in Nat \ {0}, NEW c \in Nat
  PROVE  TruncDiv(c, k) = c \div k
BY DEF TruncDiv, Magnitude

-----------------------------------------------------------------------------
(* The filters.                                                            *)

LEMMA FilterPredicts ==
  ASSUME NEW f \in Filter, NEW x \in Int
  PROVE  /\ AB!Extrapolated(f, x) \in Int
         /\ AB!predict(f, x) \in Int \cup {None}
         /\ AB!predict(f, x) = None <=> ~ f.initialized
<1> DEFINE a == f.rate_q * (x - f.last_x_us)
           e == AB!Extrapolated(f, x)
<1>1. a \in Int /\ f.offset_q \in Int
  BY DEF Filter
<1>2. RateToOffset \in Nat \ {0} /\ OffsetQ \in Nat \ {0} /\ None \notin Int
  BY ClientAssumption, EstimatorAssumption
<1>3. e = f.offset_q + a \div RateToOffset
  BY DEF AB!Extrapolated
<1> HIDE DEF a, e
<1>4. e \in Int
  BY <1>1, <1>2, <1>3
<1>5. e \div OffsetQ \in Int
  BY <1>2, <1>4
<1> QED
  BY <1>2, <1>4, <1>5 DEF AB!predict, e

LEMMA FilterQuotient ==
  ASSUME NEW a \in Int, NEW b \in Int, b # 0
  PROVE  AB!TruncDiv(a, b) \in Int /\ AB!TruncDiv(0, b) = 0
<1>1. AB!TruncDiv(a, b) = TruncDiv(a, b)
  BY DEF AB!TruncDiv, AB!Magnitude, TruncDiv, Magnitude
<1>2. AB!Magnitude(b) \in Nat \ {0} /\ AB!Magnitude(0) = 0
  BY DEF AB!Magnitude
<1>3. 0 \div AB!Magnitude(b) = 0
  BY <1>2
<1> QED
  BY <1>1, <1>2, <1>3, TruncDivType DEF AB!TruncDiv

\* An observation leaves a filter, and a first one sets it.
LEMMA FilterKept ==
  ASSUME NEW f \in Filter, NEW alpha \in Nat \ {0}, NEW beta \in Nat \ {0},
         NEW x \in Int, NEW y \in Int
  PROVE  /\ AB!observe(f, alpha, beta, x, y) \in Filter
         /\ AB!observe(f, alpha, beta, x, y).initialized
<1> DEFINE g == AB!observe(f, alpha, beta, x, y)
           dx == x - f.last_x_us
           i == AB!Innovation(f, x, y)
           rate == AB!TruncDiv(i * RateToOffset, dx)
           e == AB!Extrapolated(f, x)
<1>1. f.initialized \in BOOLEAN /\ f.last_x_us \in Int /\ f.rate_q \in Int
      /\ OffsetQ \in Nat /\ RateToOffset \in Nat /\ MaxInnovation \in Nat
  BY ClientAssumption DEF Filter
<1>2. e \in Int
  BY FilterPredicts
<1>3. i \in Int
  <2>1. y * OffsetQ - e \in Int /\ MaxInnovation * OffsetQ \in Int
        /\ -MaxInnovation * OffsetQ \in Int
    <3> HIDE DEF e
    <3> QED
      BY <1>1, <1>2
  <2>2. i = AB!Clamp(y * OffsetQ - e, -MaxInnovation * OffsetQ, MaxInnovation * OffsetQ)
    BY DEF AB!Innovation
  <2> HIDE DEF i, e
  <2> QED
    BY <2>1, <2>2 DEF AB!Clamp
<1>4. CASE ~ f.initialized
  <2>1. g = [initialized |-> TRUE, last_x_us |-> x, offset_q |-> y * OffsetQ, rate_q |-> 0]
    BY <1>4 DEF AB!observe
  <2> QED
    BY <1>1, <2>1 DEF Filter
<1>5. CASE f.initialized /\ dx <= 0
  <2>1. g = f
    BY <1>5 DEF AB!observe
  <2> QED
    BY <1>5, <2>1
<1>6. CASE f.initialized /\ dx > 0
  <2>1. g = [initialized |-> TRUE, last_x_us |-> x,
             offset_q |-> e + AB!TruncDiv(i, alpha),
             rate_q |-> f.rate_q + AB!TruncDiv(rate, beta)]
    BY <1>1, <1>6 DEF AB!observe
  <2> HIDE DEF i, e
  <2>2. i * RateToOffset \in Int /\ dx \in Int /\ dx # 0
    BY <1>1, <1>3, <1>6
  <2>3. rate \in Int
    <3> HIDE DEF dx
    <3> QED
      BY <2>2, FilterQuotient
  <2> HIDE DEF rate, g
  <2>4. AB!TruncDiv(i, alpha) \in Int /\ AB!TruncDiv(rate, beta) \in Int
    BY <1>3, <2>3, FilterQuotient
  <2>5. e + AB!TruncDiv(i, alpha) \in Int /\ f.rate_q + AB!TruncDiv(rate, beta) \in Int
    BY <1>1, <1>2, <2>4
  <2> QED
    BY <2>1, <2>5 DEF Filter, g
<1> QED
  BY <1>1, <1>4, <1>5, <1>6

\* A filter that has only seen the same offset between two clocks, which run at the same
\* rate here.
Follows(f, offset) ==
  f.initialized => f.offset_q = OffsetQ * offset /\ f.rate_q = 0

LEMMA FollowsPredicts ==
  ASSUME NEW f \in Filter, NEW offset \in Int, Follows(f, offset), f.initialized, NEW x \in Int
  PROVE  AB!Extrapolated(f, x) = OffsetQ * offset /\ AB!predict(f, x) = offset
<1> DEFINE dx == x - f.last_x_us
           z == f.rate_q * dx
           e == AB!Extrapolated(f, x)
<1>1. RateToOffset \in Nat \ {0} /\ OffsetQ \in Nat \ {0}
  BY ClientAssumption
<1>2. z = 0
  BY DEF Follows, Filter
<1>3. e = f.offset_q + z \div RateToOffset
  BY DEF AB!Extrapolated
<1> HIDE DEF z, e
<1>4. e = OffsetQ * offset
  BY <1>1, <1>2, <1>3 DEF Follows
<1>5. (OffsetQ * offset) \div OffsetQ = offset
  BY <1>1, 0 \div OffsetQ = 0, QuotientPlus
<1> QED
  BY <1>4, <1>5 DEF AB!predict, e

LEMMA FollowsKept ==
  ASSUME NEW f \in Filter, NEW offset \in Int, Follows(f, offset),
         NEW alpha \in Nat \ {0}, NEW beta \in Nat \ {0}, NEW x \in Int
  PROVE  Follows(AB!observe(f, alpha, beta, x, offset), offset)
<1> DEFINE g == AB!observe(f, alpha, beta, x, offset)
           dx == x - f.last_x_us
           i == AB!Innovation(f, x, offset)
           rate == AB!TruncDiv(i * RateToOffset, dx)
           e == AB!Extrapolated(f, x)
<1>1. f.initialized \in BOOLEAN /\ f.last_x_us \in Int /\ OffsetQ \in Nat /\ MaxInnovation \in Nat
      /\ RateToOffset \in Nat
  BY ClientAssumption DEF Filter
<1>2. CASE ~ f.initialized
  BY <1>1, <1>2 DEF AB!observe, Follows
<1>3. CASE f.initialized /\ dx <= 0
  BY <1>3 DEF AB!observe
<1>4. CASE f.initialized /\ dx > 0
  <2>1. g = [initialized |-> TRUE, last_x_us |-> x,
             offset_q |-> e + AB!TruncDiv(i, alpha),
             rate_q |-> f.rate_q + AB!TruncDiv(rate, beta)]
    BY <1>1, <1>4 DEF AB!observe
  <2>2. e = OffsetQ * offset
    BY <1>4, FollowsPredicts
  <2>3. i = AB!Clamp(offset * OffsetQ - e, -MaxInnovation * OffsetQ, MaxInnovation * OffsetQ)
    BY DEF AB!Innovation
  <2> HIDE DEF i, e, g
  <2>4. offset * OffsetQ - e = 0
    BY <1>1, <2>2
  <2>5. 0 <= MaxInnovation * OffsetQ /\ -MaxInnovation * OffsetQ <= 0
    <3>1. -MaxInnovation * OffsetQ = -(MaxInnovation * OffsetQ)
      BY <1>1
    <3> QED
      BY <1>1, <3>1
  <2>6. i = 0
    BY <2>3, <2>4, <2>5 DEF AB!Clamp
  <2>7. rate = 0
    <3>1. i * RateToOffset = 0 /\ dx \in Int /\ dx # 0
      BY <1>1, <1>4, <2>6
    <3> HIDE DEF dx
    <3> QED
      BY <3>1, FilterQuotient
  <2> HIDE DEF rate
  <2>8. AB!TruncDiv(i, alpha) = 0 /\ AB!TruncDiv(rate, beta) = 0
    BY <2>6, <2>7, FilterQuotient
  <2> QED
    BY <1>1, <1>4, <2>1, <2>2, <2>8 DEF Follows, g
<1> QED
  BY <1>1, <1>2, <1>3, <1>4

-----------------------------------------------------------------------------
(* The steps by the variables they write.                                  *)

\* The four ends of rx_cb.
EndCallback == UseBeacon \/ RejectBeacon \/ MatchPacket \/ IgnoreFrame

\* The steps of a query that write nothing but what the task holds.
HalfQuery ==
  \/ \E path \in {"own_tsf", "instant", "extra"}, t \in Near : AskReading(path, t)
  \/ PredictExtra
  \/ \E path \in {"own_tsf_at", "local_us_at"}, t \in Near : AskTime(path, t)
  \/ AnswerQuery
  \/ Return

OnlyWriters ==
  /\ Tick \/ UNCHANGED now
  /\ (\E a \in Network \cup {None} : Associate(a)) \/ UNCHANGED <<assoc, follows>>
  /\ (\E f \in Frames : Receive(f)) \/ EnterCallback \/ EndCallback \/ UNCHANGED rx
  /\ consume_samples \/ poll_ap_bssid \/ (\E t \in Near : SetExtraRate(t)) \/ HalfQuery
       \/ UNCHANGED exec
  /\ LockBssid \/ UNCHANGED locked
  /\ UseBeacon \/ UNCHANGED anchor
  /\ (\E t \in Near : SetExtraRate(t)) \/ UNCHANGED extraRate
  /\ set_beacon_hook \/ UNCHANGED hook
  /\ EndCallback \/ UNCHANGED <<instantMinusTsf, count>>
  /\ UseBeacon \/ MatchPacket \/ TakeEvent \/ UNCHANGED chan
  /\ ObserveBeacon \/ UNCHANGED beaconEst
  /\ ObservePacket \/ UNCHANGED udpEst
  /\ MatchPacket \/ TakeEvent \/ ObservePacket \/ UNCHANGED tally

LEMMA Writers ==
  ASSUME [Next]_vars
  PROVE  OnlyWriters
<1> USE DEF OnlyWriters, env, anchor, fits, stored
<1>1. CASE UNCHANGED vars
  BY <1>1 DEF vars
<1>2. CASE Tick
  BY <1>2 DEF Tick
<1>3. ASSUME NEW a \in Network \cup {None}, Associate(a) PROVE OnlyWriters
  BY <1>3 DEF Associate
<1>4. ASSUME NEW f \in Frames, Receive(f) PROVE OnlyWriters
  BY <1>4 DEF Receive
<1>5. CASE rx_cb
  <2>1. CASE EnterCallback
    BY <2>1 DEF EnterCallback
  <2>2. CASE UseBeacon
    BY <2>2 DEF UseBeacon, EndCallback
  <2>3. CASE RejectBeacon
    BY <2>3 DEF RejectBeacon, EndCallback
  <2>4. CASE MatchPacket
    BY <2>4 DEF MatchPacket, EndCallback
  <2>5. CASE IgnoreFrame
    BY <2>5 DEF IgnoreFrame, EndCallback
  <2> QED
    BY <1>5, <2>1, <2>2, <2>3, <2>4, <2>5 DEF rx_cb
<1>6. CASE consume_samples
  <2>1. CASE TakeEvent
    BY <1>6, <2>1 DEF TakeEvent
  <2>2. CASE ObserveBeacon
    BY <1>6, <2>2 DEF ObserveBeacon
  <2>3. CASE ConvertPacket
    BY <1>6, <2>3 DEF ConvertPacket
  <2>4. CASE ObservePacket
    BY <1>6, <2>4 DEF ObservePacket
  <2> QED
    BY <1>6, <2>1, <2>2, <2>3, <2>4 DEF consume_samples
<1>7. CASE poll_ap_bssid
  BY <1>7 DEF poll_ap_bssid, PollAssociation, LockBssid
<1>8. CASE set_beacon_hook
  BY <1>8 DEF set_beacon_hook
<1>9. ASSUME NEW t \in Near, SetExtraRate(t) PROVE OnlyWriters
  BY <1>9 DEF SetExtraRate
<1>10. CASE HalfQuery
  BY <1>10 DEF HalfQuery, AskReading, PredictExtra, AskTime, AnswerQuery, Return
<1>11. CASE query
  BY <1>9, <1>10, <1>11 DEF query, HalfQuery
<1> QED
  BY <1>1, <1>2, <1>3, <1>4, <1>5, <1>6, <1>7, <1>8, <1>11 DEF Next, Executor

-----------------------------------------------------------------------------
(* What the tagged records hold.                                           *)

LEMMA EventKinds ==
  ASSUME NEW ev \in Event
  PROVE  /\ ev.kind \in {"beacon", "udp"}
         /\ ev.kind = "beacon" => ev.anchor \in Readings
         /\ ev.kind = "udp" => ev.server_ns \in Int /\ ev.own_tsf_us \in Int
BY DEF Event

LEMMA FrameKinds ==
  ASSUME NEW f \in Frame
  PROVE  /\ f.kind \in {"beacon", "sync", "other"}
         /\ f.kind = "beacon" => f.bssid \in AP
         /\ f.kind = "sync" => f.sent \in Int
BY DEF Frame

LEMMA ReceptionStages ==
  ASSUME NEW r \in Reception
  PROVE  /\ r # None
         /\ r.stage \in {"called", "entered"} /\ r.frame \in Frame /\ r.at \in Nat
         /\ r.stage = "entered" => r.extra \in Int /\ r.instant \in Int
BY NoneAssumption DEF Reception

LEMMA TaskKinds ==
  ASSUME NEW task \in Task
  PROVE  /\ task # None
         /\ task.task \in {"consume", "fit", "lock", "predict", "query", "answered"}
         /\ task.task = "consume" => task.event \in Event
         /\ task.task = "fit" => task.sample \in Sample
         /\ task.task = "lock" => task.bssid \in AP
         /\ task.task \in {"predict", "query", "answered"} => task.at \in Nat
         /\ task.task = "query" => task.ap \in Int \cup {None}
         /\ task.task = "answered" => task.answer \in Int \cup {None}
         /\ task.task \in {"query", "answered"} => task.hooked \in BOOLEAN
BY NoneAssumption DEF Task

LEMMA ReadingsFields ==
  ASSUME NEW r \in Readings
  PROVE  /\ r # None
         /\ r.instant_us \in Int /\ r.own_tsf_us \in Int /\ r.ap_tsf_us \in Int /\ r.extra_us \in Int
BY NoneAssumption DEF Readings

-----------------------------------------------------------------------------
(* The channel.                                                            *)

\* try_send never lets the channel outgrow its capacity, and what is in it was in it
\* before or is the event sent.
LEMMA SendKept ==
  ASSUME chan \in Seq(Event), Len(chan) <= CHANNEL_DEPTH, NEW ev \in Event
  PROVE  /\ try_send(ev) \in Seq(Event)
         /\ Len(try_send(ev)) <= CHANNEL_DEPTH
         /\ Len(try_send(ev)) = IF Full THEN Len(chan) ELSE Len(chan) + 1
         /\ \A i \in 1 .. Len(try_send(ev)) :
              try_send(ev)[i] = IF i <= Len(chan) THEN chan[i] ELSE ev
<1>1. Len(chan) \in Nat /\ CHANNEL_DEPTH \in Nat
  BY ClientAssumption
<1>2. CASE Full
  BY <1>1, <1>2 DEF try_send
<1>3. CASE ~ Full
  <2>1. try_send(ev) = Append(chan, ev) /\ Len(chan) < CHANNEL_DEPTH
    BY <1>1, <1>3 DEF try_send, Full
  <2>2. /\ Append(chan, ev) \in Seq(Event)
        /\ Len(Append(chan, ev)) = Len(chan) + 1
        /\ \A i \in 1 .. Len(chan) : Append(chan, ev)[i] = chan[i]
        /\ Append(chan, ev)[Len(chan) + 1] = ev
    BY AppendProperties
  <2> QED
    BY <1>1, <1>3, <2>1, <2>2
<1> QED
  BY <1>2, <1>3

\* Receiving takes the oldest event off.
LEMMA TakeKept ==
  ASSUME chan \in Seq(Event), chan # << >>
  PROVE  /\ Head(chan) \in Event /\ Head(chan) = chan[1]
         /\ Len(chan) \in Nat \ {0}
         /\ Tail(chan) \in Seq(Event) /\ Len(Tail(chan)) = Len(chan) - 1
         /\ \A i \in 1 .. Len(Tail(chan)) : Tail(chan)[i] = chan[i + 1]
BY HeadTailProperties, EmptySeq, LenProperties, ElementOfSeq

-----------------------------------------------------------------------------
(* The inductive invariant, for any network.                               *)

\* The frame rx_cb is called for, and what it has read.
Receiving ==
  rx # None =>
    /\ now \in rx.at .. rx.at + MaxLatency
    /\ rx.frame.kind = "sync" => rx.frame.sent \in rx.at - MaxDelay .. rx.at
    /\ rx.stage = "entered" =>
         \E t \in rx.at .. now : rx.instant = InstantUs(t) /\ rx.extra \in {0, ExtraTicks(t)}

\* Readings of one access point of the network and one stamp at one time up to n.
OfOneReception(r, n) == \E a, b \in Network, t \in 0..n : AnchorOf(r, a, b, t)

\* A packet's timestamp and the stamp of its reception.
PacketTrue(ev, n) ==
  \E b \in Network, t \in 0..n :
    ev.own_tsf_us = StampTsf(b, t) /\ AnswerLate(t, ev.server_ns)

EventTrue(ev, n) ==
  /\ ev.kind = "beacon" => OfOneReception(ev.anchor, n)
  /\ ev.kind = "udp" => PacketTrue(ev, n)

\* The stamps are completed alike whichever access point mac_tsf_us follows, so that those
\* of two frames differ by the time between them.
StampsAgree == \A a, b \in Network : StampTsf(a, 0) = StampTsf(b, 0)

SampleTrue(s) == \E a \in Network : SampleOf(s, a)

\* The access point's TSF and the stamp of one reception differ by what the clocks do.
DiagnosticTrue(s) ==
  \E a, b \in Network : OffsetOf(s) = NsPerUs * (ApBase[a] - StampTsf(b, 0))

\* The task that holds the executor.
TaskTrue ==
  exec # None =>
    /\ exec.task = "consume" => EventTrue(exec.event, now)
    /\ exec.task = "fit" /\ StampsAgree => SampleTrue(exec.sample)
    /\ exec.task = "lock" => exec.bssid \in Network
    /\ exec.task \in {"predict", "query", "answered"} => exec.at <= now
    /\ exec.task = "predict" => "extra_filtered" \in Queries
    /\ exec.task \in {"query", "answered"} => exec.path \in Queries

ChannelTrue ==
  /\ latest # None => OfOneReception(latest, now)
  /\ \A i \in 1..Len(chan) : EventTrue(chan[i], now)

RingsTrue ==
  /\ Ring(beaconEst) /\ FitOfRing(beaconEst)
  /\ Ring(udpEst) /\ FitOfRing(udpEst)
  /\ \A i \in Slots :
       /\ beaconEst.samples[i] # NoSample => DiagnosticTrue(beaconEst.samples[i])
       /\ StampsAgree /\ udpEst.samples[i] # NoSample => SampleTrue(udpEst.samples[i])

Inv ==
  /\ TypeOK
  /\ Receiving
  /\ TaskTrue
  /\ ChannelTrue
  /\ RingsTrue
  /\ DeltaWithinLatency

LEMMA ClockTypes ==
  ASSUME NEW t \in Int
  PROVE  /\ InstantUs(t) \in Int /\ ExtraTicks(t) \in Int /\ ServerNs(t) \in Int
         /\ \A a \in AP : ApTsf(a, t) \in Int
BY ClientAssumption, EstimatorAssumption DEF InstantUs, ExtraTicks, ServerNs, ApTsf

\* mac_tsf_us is ahead of the stamps by the Gap, and the stamps are the low bits of their
\* clock.
LEMMA StampClock ==
  ASSUME NEW b \in Network, NEW t \in Nat
  PROVE  /\ Gap(b) \in Nat /\ Gap(b) + MaxLatency < RawMod
         /\ StampTsf(b, t) \in Nat /\ StampTsf(b, t) = StampTsf(b, 0) + t
         /\ StampTsf(b, t) + Gap(b) = OwnBase[b] + t
         /\ StampTsf(b, t) % RawMod = RxTimestamp(t)
<1> DEFINE m == RawMod
           gap == Gap(b)
           own == OwnBase[b]
           stamp == StampBase
           q == (own - stamp) \div m
           x == own - gap + t
           r == (stamp + t) % m
           k == (stamp + t) \div m
<1>1. m \in Nat \ {0} /\ own \in Nat /\ stamp \in Nat
  BY ClientAssumption
<1>2. gap \in 0 .. m - 1 /\ q \in Int /\ own - stamp = m * q + gap
  <2> DEFINE d == own - stamp
  <2>1. d \in Int /\ gap = d % m
    BY <1>1 DEF Gap
  <2>2. q = d \div m
    OBVIOUS
  <2> HIDE DEF d, gap, m, q
  <2>3. m \in Nat \ {0}
    BY <1>1
  <2>4. gap \in 0 .. m - 1 /\ q \in Int /\ d = m * q + gap
    BY <2>1, <2>2, <2>3
  <2> QED
    BY <2>4 DEF d
<1>3. gap + MaxLatency < RawMod /\ gap <= own
  BY GapAssumption
<1>4. r \in 0 .. m - 1 /\ k \in Int /\ stamp + t = m * k + r
  BY <1>1
<1>5. StampTsf(b, t) = x /\ StampTsf(b, 0) = own - gap + 0 /\ RxTimestamp(t) = r
  BY DEF StampTsf, RxTimestamp
<1> HIDE DEF gap, own, stamp, q, m, r, k
<1>6. x \in Nat /\ own - gap + 0 + t = x /\ x + gap = own + t
  BY <1>1, <1>2, <1>3
<1> DEFINE j == q + k
<1>7. j \in Int /\ x = m * j + r
  <2>1. m * (q + k) = m * q + m * k /\ m * q \in Int /\ m * k \in Int
    BY <1>1, <1>2, <1>4
  <2> QED
    BY <1>1, <1>2, <1>4, <2>1
<1> HIDE DEF x, j
<1>8. x % m = r
  <2>1. m \in Nat \ {0} /\ r \in 0 .. m - 1
    BY <1>1, <1>4
  <2>2. x \in Int
    BY <1>6
  <2> QED
    BY <1>7, <2>1, <2>2, DivModUnique
<1> QED
  BY <1>2, <1>3, <1>5, <1>6, <1>8 DEF m, gap, own

LEMMA OwnClock ==
  ASSUME TypeOK, NEW t \in Nat
  PROVE  follows \in Network /\ OwnTsf(t) \in Int /\ OwnTsf(t) = StampTsf(follows, t) + Gap(follows)
<1>1. follows \in Network
  BY DEF TypeOK
<1>2. StampTsf(follows, t) \in Nat /\ Gap(follows) \in Nat
      /\ StampTsf(follows, t) + Gap(follows) = OwnBase[follows] + t
  BY <1>1, StampClock
<1> QED
  BY <1>1, <1>2 DEF OwnTsf

\* A reading of mac_tsf_us is what the stamp will be when the Gap has passed.
LEMMA ReadingOfOwnTsf ==
  ASSUME TypeOK, NEW t \in Nat
  PROVE  /\ follows \in Network /\ Gap(follows) \in Nat /\ t + Gap(follows) \in Nat
         /\ OwnTsf(t) = StampTsf(follows, t + Gap(follows))
<1>1. /\ follows \in Network /\ Gap(follows) \in Nat
      /\ OwnTsf(t) = StampTsf(follows, t) + Gap(follows)
  BY OwnClock, StampClock
<1>2. /\ StampTsf(follows, 0) \in Nat
      /\ StampTsf(follows, t) = StampTsf(follows, 0) + t
      /\ StampTsf(follows, t + Gap(follows)) = StampTsf(follows, 0) + (t + Gap(follows))
  BY <1>1, StampClock
<1> QED
  BY <1>1, <1>2

LEMMA RingEstimator ==
  ASSUME NEW e, Ring(e)
  PROVE  e \in Estimators
BY DEF Ring, Estimators, Sample, Observation, Fits

LEMMA InitInv == Init => Inv
<1> SUFFICES ASSUME Init PROVE Inv
  OBVIOUS
<1> USE ClientAssumption, EstimatorAssumption DEF Init
<1>1. Ring(beaconEst) /\ FitOfRing(beaconEst) /\ Ring(udpEst) /\ FitOfRing(udpEst)
  BY RingOfNew
<1>2. AB!new \in Filter
  BY DEF AB!new, Filter
<1>3. TypeOK
  <2>1. beaconEst \in Estimators /\ udpEst \in Estimators
    BY <1>1, RingEstimator
  <2>2. chan \in Seq(Event) /\ Len(chan) <= CHANNEL_DEPTH
    BY EmptySeq
  <2>3. assoc \in Network \cup {None} /\ follows \in Network /\ extraRate \in {0, ExtraPerUs}
    OBVIOUS
  <2>4. /\ now \in Nat /\ hook \in BOOLEAN
        /\ count \in [seen : Nat, matched : Nat, beacons : Nat, used : Nat, dropped : Nat]
        /\ tally \in [udpTaken : Nat, anchored : Nat, fitted : Nat]
    OBVIOUS
  <2> QED
    BY <1>2, <2>1, <2>2, <2>3, <2>4 DEF TypeOK
<1>4. Receiving /\ TaskTrue /\ DeltaWithinLatency
  BY DEF Receiving, TaskTrue, DeltaWithinLatency
<1>5. ChannelTrue
  BY EmptySeq DEF ChannelTrue
<1>6. RingsTrue
  BY <1>1 DEF RingsTrue, new
<1> QED
  BY <1>3, <1>4, <1>5, <1>6 DEF Inv

\* What a callback that has read its clocks knows.
LEMMA CallbackReads ==
  ASSUME TypeOK, Receiving, rx # None, rx.stage = "entered"
  PROVE  /\ rx \in Reception /\ now \in Nat
         /\ rx.at \in 0..now /\ now - rx.at <= MaxLatency
         /\ follows \in Network
         /\ UnwrapTimestamp(OwnTsf(now), RxTimestamp(rx.at)) = StampTsf(follows, rx.at)
<1> DEFINE c == OwnTsf(now)
           x == StampTsf(follows, rx.at)
           gap == Gap(follows)
<1>1. rx \in Reception /\ now \in Nat /\ rx.at \in Nat /\ now \in rx.at .. rx.at + MaxLatency
  BY ReceptionStages DEF TypeOK, Receiving
<1>2. follows \in Network /\ MaxLatency \in Nat /\ RawMod \in Nat
  BY ClientAssumption DEF TypeOK
<1>3. c = OwnBase[follows] + now
  BY DEF OwnTsf
<1>4. /\ gap \in Nat /\ gap + MaxLatency < RawMod
      /\ x \in Nat /\ x + gap = OwnBase[follows] + rx.at
      /\ x % RawMod = RxTimestamp(rx.at)
  BY <1>1, <1>2, StampClock
<1>5. OwnBase[follows] \in Nat
  BY <1>2, ClientAssumption
<1> HIDE DEF c, x, gap
<1>6. c \in Int /\ x \in Int /\ x <= c /\ c - x < RawMod
  BY <1>1, <1>2, <1>3, <1>4, <1>5
<1>7. UnwrapTimestamp(c, RxTimestamp(rx.at)) = x
  BY <1>4, <1>6, Unwrapped
<1> QED
  BY <1>1, <1>2, <1>7 DEF c, x

LEMMA AnchorRead ==
  ASSUME TypeOK, Receiving, rx # None, rx.stage = "entered", rx.frame.kind = "beacon"
  PROVE  /\ BeaconAnchor \in Readings
         /\ rx.frame.bssid \in AP
         /\ BeaconAnchor.own_tsf_us = StampTsf(follows, rx.at)
         /\ BeaconAnchor.ap_tsf_us = ApTsf(rx.frame.bssid, rx.at)
         /\ BeaconAnchor.instant_us = rx.instant
         /\ BeaconAnchor.extra_us = rx.extra
<1>1. rx \in Reception /\ rx.at \in Int /\ rx.frame.bssid \in AP /\ rx.extra \in Int /\ rx.instant \in Int
  BY CallbackReads, ReceptionStages, FrameKinds
<1>2. ApTsf(rx.frame.bssid, rx.at) \in Int /\ StampTsf(follows, rx.at) \in Int
  BY <1>1, CallbackReads, ClockTypes, StampClock
<1> QED
  BY <1>1, <1>2, CallbackReads DEF BeaconAnchor, Readings

\* Real time only advances, so what was true of a reception stays true.
LEMMA TimePasses ==
  ASSUME TypeOK, OnlyWriters
  PROVE  now \in Nat /\ now' \in Nat /\ now <= now'
BY DEF TypeOK, OnlyWriters, Tick

LEMMA StaysTrue ==
  ASSUME NEW n \in Nat, NEW m \in Nat, n <= m
  PROVE  /\ \A r : OfOneReception(r, n) => OfOneReception(r, m)
         /\ \A ev : EventTrue(ev, n) => EventTrue(ev, m)
<1>1. 0..n \subseteq 0..m
  OBVIOUS
<1> QED
  BY <1>1 DEF EventTrue, PacketTrue, OfOneReception

LEMMA ReceivingKept ==
  ASSUME Inv, OnlyWriters
  PROVE  Receiving'
<1> USE DEF Inv
<1>1. now \in Nat /\ now' \in Nat /\ now <= now'
  BY TimePasses
<1>2. MaxLatency \in Nat /\ MaxDelay \in Nat
  BY ClientAssumption
<1>3. CASE rx' = None
  BY <1>3 DEF Receiving
<1>4. ASSUME NEW f \in Frames, Receive(f) PROVE Receiving'
  <2>1. rx' = [stage |-> "called", frame |-> f, at |-> now] /\ now' = now
    BY <1>4 DEF Receive, env
  <2>2. f.kind = "sync" => f.sent \in now - MaxDelay .. now
    BY DEF Frames
  <2> QED
    BY <1>1, <1>2, <2>1, <2>2 DEF Receiving
<1>5. CASE EnterCallback
  <2>1. /\ rx # None /\ now' = now
        /\ rx'.frame = rx.frame /\ rx'.at = rx.at /\ rx'.instant = InstantUs(now)
        /\ rx'.extra \in {0, ExtraTicks(now)}
    BY <1>5 DEF EnterCallback, env
  <2>2. now \in rx.at .. now /\ now \in rx.at .. rx.at + MaxLatency
    <3>1. rx.at \in Nat
      BY <2>1, ReceptionStages DEF TypeOK
    <3> QED
      BY <1>1, <2>1, <3>1 DEF Receiving
  <2> QED
    BY <2>1, <2>2 DEF Receiving, InstantUs, ExtraTicks
<1>6. CASE UNCHANGED rx /\ rx # None
  <2>1. rx.at \in Nat
    BY <1>6, ReceptionStages DEF TypeOK
  <2>2. now' \in rx.at .. rx.at + MaxLatency
    BY <1>1, <1>2, <1>6, <2>1 DEF OnlyWriters, Tick, Receiving
  <2>3. \A t \in rx.at .. now : t \in rx.at .. now'
    BY <1>1, <2>1
  <2> QED
    BY <1>6, <2>2, <2>3 DEF Receiving, InstantUs, ExtraTicks
<1>7. CASE EndCallback
  BY <1>3, <1>7 DEF EndCallback, UseBeacon, RejectBeacon, MatchPacket, IgnoreFrame, Prologue
<1> QED
  BY <1>3, <1>4, <1>5, <1>6, <1>7 DEF OnlyWriters

\* What the radio's frames say of the packet that was received.
LEMMA PacketRead ==
  ASSUME Inv, MatchPacket
  PROVE  LET ev == [kind       |-> "udp",
                    server_ns  |-> ServerNs(rx.frame.sent),
                    own_tsf_us |-> UnwrapTimestamp(OwnTsf(now), RxTimestamp(rx.at))]
         IN  ev \in Event /\ EventTrue(ev, now)
<1> DEFINE ev == [kind       |-> "udp",
                  server_ns  |-> ServerNs(rx.frame.sent),
                  own_tsf_us |-> UnwrapTimestamp(OwnTsf(now), RxTimestamp(rx.at))]
           d == rx.at - rx.frame.sent
<1> USE DEF Inv
<1>1. rx # None /\ rx.stage = "entered" /\ rx.frame.kind = "sync"
  BY DEF MatchPacket, Prologue
<1>2. rx.at \in 0..now /\ follows \in Network /\ ev.own_tsf_us = StampTsf(follows, rx.at)
      /\ rx \in Reception
  BY <1>1, CallbackReads
<1>3. rx.frame.sent \in Int /\ rx.at \in Nat /\ MaxDelay \in Nat /\ now \in Nat
  BY <1>1, <1>2, FrameKinds, ReceptionStages, ClientAssumption DEF TypeOK
<1>4. d \in 0..MaxDelay
  BY <1>1, <1>3 DEF Receiving
<1>5. NsPerUs * d \in 0 .. NsPerUs * MaxDelay
  <2> HIDE DEF d
  <2> QED
    BY <1>3, <1>4, LateInNs
<1>6. ServerNs(rx.at) - ServerNs(rx.frame.sent) = NsPerUs * d
  BY <1>3, ClientAssumption, EstimatorAssumption DEF ServerNs
<1>7. PacketTrue(ev, now)
  BY <1>2, <1>5, <1>6 DEF PacketTrue, AnswerLate
<1>8. ev \in Event
  <2>1. ServerNs(rx.frame.sent) \in Int /\ StampTsf(follows, rx.at) \in Int
    BY <1>2, <1>3, ClockTypes, StampClock
  <2> QED
    BY <1>2, <2>1 DEF Event
<1> QED
  BY <1>7, <1>8 DEF EventTrue

\* What rx_cb sends and what becomes the anchor is of one reception.
LEMMA ChannelKept ==
  ASSUME Inv, OnlyWriters
  PROVE  ChannelTrue' /\ chan' \in Seq(Event) /\ Len(chan') <= CHANNEL_DEPTH
         /\ latest' \in Readings \cup {None}
<1> USE DEF Inv
<1>1. chan \in Seq(Event) /\ Len(chan) <= CHANNEL_DEPTH /\ Len(chan) \in Nat
  BY LenProperties DEF TypeOK
<1>2. \A i \in 1..Len(chan) : EventTrue(chan[i], now')
  BY TimePasses, StaysTrue DEF ChannelTrue
<1>3. ASSUME UNCHANGED latest PROVE (latest' # None => OfOneReception(latest', now'))
                                    /\ latest' \in Readings \cup {None}
  BY <1>3, TimePasses, StaysTrue DEF TypeOK, ChannelTrue
<1>4. ASSUME NEW ev \in Event, EventTrue(ev, now), chan' = try_send(ev)
      PROVE  /\ chan' \in Seq(Event) /\ Len(chan') <= CHANNEL_DEPTH
             /\ \A i \in 1..Len(chan') : EventTrue(chan'[i], now')
  <2>1. /\ chan' \in Seq(Event) /\ Len(chan') <= CHANNEL_DEPTH
        /\ \A i \in 1..Len(chan') : chan'[i] = IF i <= Len(chan) THEN chan[i] ELSE ev
    BY <1>1, <1>4, SendKept
  <2>2. EventTrue(ev, now')
    BY <1>4, TimePasses, StaysTrue
  <2> QED
    BY <1>1, <1>2, <2>1, <2>2
<1>5. CASE UseBeacon
  <2> DEFINE a == BeaconAnchor
             ev == [kind |-> "beacon", anchor |-> a]
  <2>1. rx # None /\ rx.stage = "entered" /\ rx.frame.kind = "beacon"
        /\ rx.frame.bssid = locked /\ latest' = a /\ chan' = try_send(ev)
    BY <1>5 DEF UseBeacon, Prologue, pass
  <2>2. a \in Readings /\ a.own_tsf_us = StampTsf(follows, rx.at)
        /\ a.ap_tsf_us = ApTsf(locked, rx.at)
        /\ rx.at \in 0..now /\ rx.frame.bssid \in AP /\ follows \in Network
    BY <2>1, AnchorRead, CallbackReads
  <2>3. locked \in Network
    BY <2>1, <2>2, ClientAssumption DEF TypeOK
  <2> HIDE DEF a
  <2>4. OfOneReception(a, now)
    BY <2>2, <2>3 DEF OfOneReception, AnchorOf
  <2>5. ev \in Event /\ EventTrue(ev, now)
    BY <2>2, <2>4 DEF Event, EventTrue
  <2>6. OfOneReception(a, now')
    BY <2>4, TimePasses, StaysTrue
  <2> QED
    BY <1>4, <2>1, <2>2, <2>5, <2>6 DEF ChannelTrue
<1>6. CASE MatchPacket
  <2> DEFINE ev == [kind       |-> "udp",
                    server_ns  |-> ServerNs(rx.frame.sent),
                    own_tsf_us |-> UnwrapTimestamp(OwnTsf(now), RxTimestamp(rx.at))]
  <2>1. ev \in Event /\ EventTrue(ev, now)
    BY <1>6, PacketRead
  <2>2. chan' = try_send(ev) /\ UNCHANGED latest
    BY <1>6 DEF MatchPacket, anchor
  <2> HIDE DEF ev
  <2> QED
    BY <1>3, <1>4, <2>1, <2>2 DEF ChannelTrue
<1>7. CASE TakeEvent
  <2>1. chan # << >> /\ chan' = Tail(chan) /\ UNCHANGED latest
    BY <1>7 DEF TakeEvent, anchor
  <2>2. /\ Tail(chan) \in Seq(Event) /\ Len(Tail(chan)) = Len(chan) - 1
        /\ \A i \in 1 .. Len(Tail(chan)) : Tail(chan)[i] = chan[i + 1]
    BY <1>1, <2>1, TakeKept
  <2>3. CHANNEL_DEPTH \in Nat
    BY ClientAssumption
  <2>4. \A i \in 1 .. Len(Tail(chan)) : EventTrue(Tail(chan)[i], now')
    BY <1>1, <1>2, <2>2
  <2> QED
    BY <1>1, <1>3, <2>1, <2>2, <2>3, <2>4 DEF ChannelTrue
<1>8. CASE UNCHANGED chan /\ UNCHANGED anchor
  BY <1>1, <1>2, <1>3, <1>8 DEF ChannelTrue, anchor
<1> QED
  BY <1>5, <1>6, <1>7, <1>8 DEF OnlyWriters

\* Through the latest anchor, whichever it is, a stamp becomes a TSF of an access point of
\* the network, and if the stamps agree that of the same time; only without an anchor it has
\* no answer then.
LEMMA Converted ==
  ASSUME Inv, NEW b \in Network, NEW t \in Nat
  PROVE  LET ap == own_tsf_to_ap_tsf(StampTsf(b, t))
         IN  /\ ap \in Int \cup {None}
             /\ StampsAgree => /\ ap = None <=> latest = None
                               /\ ap # None => \E a \in Network : ap = ApTsf(a, t)
<1> DEFINE x == StampTsf(b, t)
           ap == latest.ap_tsf_us + (x - latest.own_tsf_us)
<1>1. CASE latest = None
  BY <1>1 DEF own_tsf_to_ap_tsf
<1>2. CASE latest # None
  <2>1. latest \in Readings /\ OfOneReception(latest, now)
    BY <1>2 DEF Inv, TypeOK, ChannelTrue
  <2>2. PICK a \in Network, c \in Network, u \in 0..now : AnchorOf(latest, a, c, u)
    BY <2>1 DEF OfOneReception
  <2>3. ApBase[a] \in Nat /\ u \in Nat
    BY ClientAssumption
  <2>4. /\ StampTsf(b, 0) \in Nat /\ StampTsf(c, 0) \in Nat /\ x = StampTsf(b, 0) + t
        /\ latest.own_tsf_us = StampTsf(c, 0) + u /\ latest.ap_tsf_us = ApBase[a] + u
    <3>1. latest.own_tsf_us = StampTsf(c, u) /\ latest.ap_tsf_us = ApBase[a] + u
      BY <2>2 DEF AnchorOf, ApTsf
    <3>2. StampTsf(b, 0) \in Nat /\ StampTsf(c, 0) \in Nat /\ x = StampTsf(b, 0) + t
          /\ StampTsf(c, u) = StampTsf(c, 0) + u
      BY <2>3, StampClock
    <3> QED
      BY <3>1, <3>2
  <2> HIDE DEF x
  <2>5. ap \in Int
    BY <2>3, <2>4
  <2>6. own_tsf_to_ap_tsf(x) = IF latest = None \/ ap < 0 THEN None ELSE ap
    BY DEF own_tsf_to_ap_tsf
  <2>7. ASSUME StampsAgree PROVE ap = ApTsf(a, t) /\ ap \in Nat
    BY <2>3, <2>4, <2>7 DEF StampsAgree, ApTsf
  <2> HIDE DEF ap
  <2>8. own_tsf_to_ap_tsf(x) \in Int \cup {None}
    BY <2>5, <2>6
  <2>9. ASSUME StampsAgree PROVE own_tsf_to_ap_tsf(x) = ap /\ ap # None /\ ap = ApTsf(a, t)
    BY <1>2, <2>6, <2>7, <2>9, EstimatorAssumption
  <2> QED
    BY <1>2, <2>8, <2>9 DEF x
<1> QED
  BY <1>1, <1>2

\* A packet and its reception on that TSF make a sample of the window.
LEMMA SampleMade ==
  ASSUME NEW a \in AP, NEW t \in Nat, NEW ns \in Int, AnswerLate(t, ns)
  PROVE  SampleOf([server_ns |-> ns, local_us |-> ApTsf(a, t)], a)
<1> DEFINE late == ServerNs(t) - ns
           k == NsPerUs
           base == ApBase[a]
<1>1. k \in Nat /\ base \in Nat /\ Epoch \in Nat /\ MaxDelay \in Nat
  BY ClientAssumption, EstimatorAssumption
<1>2. late \in 0 .. k * MaxDelay
  BY DEF AnswerLate
<1>3. ns = k * (Epoch + t) - late
  BY <1>1, <1>2 DEF ServerNs
<1> HIDE DEF k, base, late
<1>4. ns - k * (base + t) + k * (base - Epoch) = -late
  <2>1. k * (Epoch + t) = k * Epoch + k * t /\ k * (base + t) = k * base + k * t
        /\ k * (base - Epoch) = k * base - k * Epoch
    BY <1>1
  <2>2. k * Epoch \in Int /\ k * t \in Int /\ k * base \in Int
    BY <1>1
  <2> QED
    BY <1>1, <1>2, <1>3, <2>1, <2>2
<1>5. -late \in -(k * MaxDelay) .. 0
  <2>1. k * MaxDelay \in Nat
    BY <1>1
  <2> QED
    BY <1>2, <2>1
<1> QED
  BY <1>4, <1>5 DEF SampleOf, OffsetOf, ApTsf, k, base

LEMMA EstimatorAnswers ==
  ASSUME NEW e, Ring(e), NEW x \in Int
  PROVE  synced_ns_at(e, x) \in Int \cup {None} /\ local_us_at(e, x) \in Int \cup {None}
<1> DEFINE predicted == e.fit.offset_ns + NsPerUs * x
           num == x - e.fit.offset_ns
<1>1. NsPerUs \in Nat \ {0} /\ e.fit.offset_ns \in Int
  BY EstimatorAssumption DEF Ring, Fits
<1>2. predicted \in Int /\ num \in Int
  BY <1>1
<1> HIDE DEF num
<1>3. num \div NsPerUs \in Int
  BY <1>1, <1>2
<1> QED
  BY <1>2, <1>3 DEF synced_ns_at, local_us_at, num

LEMMA ReadingType ==
  ASSUME Inv, NEW t \in Nat, NEW path \in {"own_tsf", "instant", "extra", "extra_filtered"}
  PROVE  Reading(path, t) \in Int \cup {None}
<1> USE DEF Inv, TypeOK
<1>1. ExtraPerUs \in Int /\ ExtraPerUs # 0 /\ InstantUs(t) \in Int /\ ExtraTicks(t) \in Int
  <2>1. ExtraPerUs \in Int /\ ExtraPerUs # 0
    BY ClientAssumption
  <2>2. t \in Int
    OBVIOUS
  <2>3. InstantUs(t) \in Int /\ ExtraTicks(t) \in Int
    BY <2>2, ClockTypes
  <2> QED
    BY <2>1, <2>3
<1>2. ASSUME NEW f \in Filter, NEW x \in Int PROVE Predicted(f, x) \in Int \cup {None}
  <2>1. AB!predict(f, x) \in Int \cup {None}
    BY FilterPredicts
  <2> QED
    BY <2>1 DEF Predicted
<1>3. own_tsf_to_ap_tsf(OwnTsf(t)) \in Int \cup {None}
  BY ReadingOfOwnTsf, Converted
<1>4. extra_to_ap_tsf(ExtraTicks(t), ExtraPerUs) \in Int \cup {None}
  <2>1. CASE latest = None
    BY <2>1 DEF extra_to_ap_tsf
  <2>2. CASE latest # None
    <3> DEFINE d == ExtraTicks(t) - latest.extra_us
    <3>1. latest.ap_tsf_us \in Int /\ d \in Int
      BY <1>1, <2>2, ReadingsFields
    <3> HIDE DEF d
    <3>2. TruncDiv(d, ExtraPerUs) \in Int
      BY <1>1, <3>1, TruncDivType
    <3> QED
      BY <3>1, <3>2 DEF extra_to_ap_tsf, d
  <2> QED
    BY <2>1, <2>2
<1>5. ExtraInUs(ExtraTicks(t), ExtraPerUs) \in Int
  BY <1>1, TruncDivType DEF ExtraInUs
<1> QED
  BY <1>1, <1>2, <1>3, <1>4, <1>5 DEF Reading

LEMMA AnswerType ==
  ASSUME Inv, NEW path, NEW ap \in Int \cup {None}
  PROVE  Answer(path, ap) \in Int \cup {None}
<1> USE DEF Inv, TypeOK
<1>1. CASE ap = None
  BY <1>1 DEF Answer
<1>2. CASE ap \in Int
  <2>1. ap # None
    BY <1>2, EstimatorAssumption
  <2>2. ap_tsf_to_own_tsf(ap) \in Int \cup {None}
    <3>1. CASE latest = None
      BY <3>1 DEF ap_tsf_to_own_tsf
    <3>2. CASE latest # None
      <4> DEFINE own == latest.own_tsf_us + (ap - latest.ap_tsf_us)
      <4>1. latest.own_tsf_us \in Int /\ latest.ap_tsf_us \in Int
        BY <3>2, ReadingsFields
      <4>2. own \in Int
        <5> HIDE DEF Inv, TypeOK
        <5> QED
          BY <1>2, <4>1
      <4>3. ap_tsf_to_own_tsf(ap) = IF latest = None \/ own < 0 THEN None ELSE own
        BY DEF ap_tsf_to_own_tsf
      <4> HIDE DEF own
      <4> QED
        BY <4>2, <4>3
    <3> QED
      BY <3>1, <3>2
  <2>3. ap_tsf_to_instant(ap) \in Int \cup {None}
    <3> DEFINE inst1 == ap - AB!predict(instantFilter, ap)
               inst2 == ap - AB!predict(instantFilter, inst1)
    <3>1. CASE ~ instantFilter.initialized
      BY <3>1 DEF ap_tsf_to_instant
    <3>2. CASE instantFilter.initialized
      <4>1. \A x \in Int : AB!predict(instantFilter, x) \in Int
        BY <3>2, FilterPredicts
      <4>2. inst1 \in Int
        BY <1>2, <4>1
      <4>3. inst2 \in Int
        <5> HIDE DEF inst1
        <5>1. AB!predict(instantFilter, inst1) \in Int
          BY <4>1, <4>2
        <5> QED
          BY <1>2, <5>1
      <4> QED
        BY <3>2, <4>3 DEF ap_tsf_to_instant
    <3> QED
      BY <3>1, <3>2
  <2>4. synced_ns_at(udpEst, ap) \in Int \cup {None}
    BY <1>2, EstimatorAnswers DEF RingsTrue
  <2> QED
    BY <2>1, <2>2, <2>3, <2>4 DEF Answer
<1> QED
  BY <1>1, <1>2

LEMMA TaskKept ==
  ASSUME Inv, OnlyWriters
  PROVE  TaskTrue' /\ exec' \in Task \cup {None}
<1> USE DEF Inv
<1>1. now \in Nat /\ now' \in Nat /\ now <= now' /\ MaxAge \in Nat
  BY TimePasses, ClientAssumption
<1>2. exec # None => exec \in Task
  BY DEF TypeOK
<1>3. CASE exec' = None
  BY <1>3 DEF TaskTrue
<1>4. CASE UNCHANGED exec /\ exec # None
  BY <1>1, <1>2, <1>4, TaskKinds, StaysTrue DEF TaskTrue
<1>5. CASE consume_samples
  <2>1. CASE TakeEvent
    <3>1. exec' = [task |-> "consume", event |-> Head(chan)] /\ chan # << >> /\ now' = now
      BY <2>1 DEF TakeEvent, Proceed, env
    <3>2. Head(chan) \in Event /\ Head(chan) = chan[1] /\ 1 \in 1..Len(chan)
      BY <3>1, TakeKept DEF TypeOK
    <3>3. EventTrue(Head(chan), now)
      BY <3>2 DEF ChannelTrue
    <3> QED
      BY <3>1, <3>2, <3>3 DEF TaskTrue, Task
  <2>2. CASE ConvertPacket
    <3> DEFINE ev == exec.event
               ap == own_tsf_to_ap_tsf(ev.own_tsf_us)
               s == [server_ns |-> ev.server_ns, local_us |-> ap]
    <3>1. /\ exec # None /\ exec.task = "consume" /\ ev.kind = "udp" /\ now' = now
          /\ exec' = IF ap = None THEN None ELSE [task |-> "fit", sample |-> s]
      BY <2>2 DEF ConvertPacket, Proceed, Idle, env
    <3>2. ev \in Event /\ ev.server_ns \in Int /\ PacketTrue(ev, now)
      BY <1>2, <3>1, TaskKinds, EventKinds DEF TaskTrue, EventTrue
    <3>3. PICK b \in Network, t \in 0..now :
            ev.own_tsf_us = StampTsf(b, t) /\ AnswerLate(t, ev.server_ns)
      BY <3>2 DEF PacketTrue
    <3> HIDE DEF ev
    <3>4. t \in Nat
      BY <1>1
    <3>5. ASSUME ap # None PROVE s \in Sample
      <4>1. ap \in Int
        BY <3>3, <3>4, <3>5, Converted
      <4> HIDE DEF ap
      <4> QED
        BY <3>2, <4>1 DEF Sample
    <3>6. ASSUME ap # None, StampsAgree PROVE SampleTrue(s)
      <4>1. PICK a \in Network : ap = ApTsf(a, t)
        BY <3>3, <3>4, <3>6, Converted
      <4>2. a \in AP
        BY ClientAssumption
      <4>3. SampleOf(s, a)
        BY <3>2, <3>3, <3>4, <4>1, <4>2, SampleMade
      <4> QED
        BY <4>3 DEF SampleTrue
    <3> HIDE DEF s
    <3> QED
      BY <1>3, <3>1, <3>5, <3>6 DEF TaskTrue, Task
  <2>3. CASE ObserveBeacon \/ ObservePacket
    BY <1>3, <2>3 DEF ObserveBeacon, ObservePacket, Proceed
  <2> QED
    BY <1>5, <2>1, <2>2, <2>3 DEF consume_samples
<1>6. CASE poll_ap_bssid
  <2>1. CASE PollAssociation
    <3>1. exec' = [task |-> "lock", bssid |-> assoc] /\ assoc \in Network /\ assoc \in AP
      BY <2>1, ClientAssumption DEF PollAssociation, Proceed, TypeOK
    <3> QED
      BY <3>1 DEF TaskTrue, Task
  <2>2. CASE LockBssid
    BY <1>3, <2>2 DEF LockBssid, Proceed
  <2> QED
    BY <1>6, <2>1, <2>2 DEF poll_ap_bssid
<1>7. \A t \in Near : t \in Nat /\ t <= now
  BY <1>1 DEF Near, Least
<1>8. ASSUME NEW t \in Near, SetExtraRate(t) PROVE TaskTrue' /\ exec' \in Task \cup {None}
  <2>1. exec' = [task |-> "predict", at |-> t] /\ now' = now /\ "extra_filtered" \in Queries
    BY <1>8 DEF SetExtraRate, Proceed, env
  <2> QED
    BY <1>7, <2>1 DEF TaskTrue, Task
<1>9. ASSUME NEW path \in {"own_tsf", "instant", "extra", "extra_filtered"} \cap Queries,
             NEW t \in 0..now, Ask(path, t), now' = now
      PROVE  TaskTrue' /\ exec' \in Task \cup {None}
  <2>1. Reading(path, t) \in Int \cup {None} /\ t \in Nat /\ path \in Paths
    BY <1>1, ReadingType DEF Paths
  <2>2. PICK h \in BOOLEAN :
          exec' = [task |-> "query", path |-> path, at |-> t, ap |-> Reading(path, t),
                   hooked |-> h]
    BY <1>9 DEF Ask, Proceed, Hooked
  <2> QED
    BY <1>9, <2>1, <2>2 DEF TaskTrue, Task
<1>10. CASE HalfQuery
  <2>1. ASSUME NEW path \in {"own_tsf", "instant", "extra"}, NEW t \in Near, AskReading(path, t)
        PROVE  TaskTrue' /\ exec' \in Task \cup {None}
    BY <1>1, <1>7, <1>9, <2>1 DEF AskReading, env
  <2>2. CASE PredictExtra
    <3>1. exec # None /\ exec.task = "predict" /\ Ask("extra_filtered", exec.at) /\ now' = now
      BY <2>2 DEF PredictExtra, Idle, env
    <3>2. exec.at \in 0..now /\ "extra_filtered" \in Queries
      BY <1>1, <1>2, <3>1, TaskKinds DEF TaskTrue
    <3> QED
      BY <1>9, <3>1, <3>2
  <2>3. ASSUME NEW path \in {"own_tsf_at", "local_us_at"}, NEW t \in Near, AskTime(path, t)
        PROVE  TaskTrue' /\ exec' \in Task \cup {None}
    <3> DEFINE ap == local_us_at(udpEst, ServerNs(t))
    <3>1. /\ exec' = [task |-> "query", path |-> path, at |-> t, ap |-> ap, hooked |-> FALSE]
          /\ now' = now /\ path \in Queries
      BY <2>3 DEF AskTime, Proceed, env
    <3>2. t \in Nat /\ ap \in Int \cup {None} /\ path \in Paths
      BY <1>7, ClockTypes, EstimatorAnswers DEF RingsTrue, Paths
    <3> HIDE DEF ap
    <3> QED
      BY <1>7, <3>1, <3>2 DEF TaskTrue, Task
  <2>4. CASE AnswerQuery
    <3> DEFINE answer == Answer(exec.path, exec.ap)
    <3>1. /\ exec # None /\ exec.task = "query" /\ now' = now
          /\ exec' = [task |-> "answered", path |-> exec.path, at |-> exec.at,
                      answer |-> answer, hooked |-> exec.hooked]
      BY <2>4 DEF AnswerQuery, Proceed, Idle, env
    <3>2. /\ answer \in Int \cup {None} /\ exec.at \in Nat /\ exec.hooked \in BOOLEAN
          /\ exec.at <= now /\ exec.path \in Queries
      BY <1>2, <3>1, TaskKinds, AnswerType DEF TaskTrue
    <3>3. exec.path \in Paths
      BY <3>2, ClientAssumption
    <3> HIDE DEF answer
    <3> QED
      BY <3>1, <3>2, <3>3 DEF TaskTrue, Task
  <2>5. CASE Return
    BY <1>3, <2>5 DEF Return, Proceed
  <2> QED
    BY <1>10, <2>1, <2>2, <2>3, <2>4, <2>5 DEF HalfQuery
<1> QED
  BY <1>3, <1>4, <1>5, <1>6, <1>8, <1>10 DEF OnlyWriters

LEMMA RingsKept ==
  ASSUME Inv, OnlyWriters
  PROVE  RingsTrue'
<1> USE DEF Inv
<1>1. Ring(beaconEst) /\ Ring(udpEst)
  BY DEF RingsTrue
<1>2. exec # None => exec \in Task
  BY DEF TypeOK
<1>3. UNCHANGED beaconEst \/ ObserveBeacon
  BY DEF OnlyWriters
<1>4. UNCHANGED udpEst \/ ObservePacket
  BY DEF OnlyWriters
<1>5. /\ Ring(beaconEst)' /\ FitOfRing(beaconEst)'
      /\ \A i \in Slots : beaconEst'.samples[i] # NoSample => DiagnosticTrue(beaconEst'.samples[i])
  <2>1. CASE UNCHANGED beaconEst
    BY <2>1 DEF RingsTrue, Ring, FitOfRing
  <2>2. CASE ObserveBeacon
    <3> DEFINE r == exec.event.anchor
               s == [server_ns |-> NsPerUs * r.ap_tsf_us, local_us |-> r.own_tsf_us]
    <3>1. exec # None /\ exec.task = "consume" /\ exec.event.kind = "beacon"
          /\ beaconEst' = observe(beaconEst, s)
      BY <2>2 DEF ObserveBeacon, Idle
    <3>2. r \in Readings /\ OfOneReception(r, now)
      BY <1>2, <3>1, TaskKinds, EventKinds DEF TaskTrue, EventTrue
    <3>3. PICK a \in Network, b \in Network, t \in 0..now : AnchorOf(r, a, b, t)
      BY <3>2 DEF OfOneReception
    <3>4. NsPerUs \in Nat /\ ApBase[a] \in Nat /\ t \in Nat
      BY ClientAssumption, EstimatorAssumption
    <3>5. r.ap_tsf_us = ApBase[a] + t /\ r.own_tsf_us = StampTsf(b, 0) + t
          /\ StampTsf(b, 0) \in Nat
      BY <3>3, <3>4, StampClock DEF AnchorOf, ApTsf
    <3> HIDE DEF r
    <3>6. s \in Observation /\ OffsetOf(s) = NsPerUs * (ApBase[a] - StampTsf(b, 0))
      BY <3>4, <3>5 DEF Observation, OffsetOf
    <3> HIDE DEF s
    <3>7. DiagnosticTrue(s)
      BY <3>6 DEF DiagnosticTrue
    <3>8. \A i \in Slots : beaconEst'.samples[i] \in {s, beaconEst.samples[i]}
      BY <1>1, <3>1, <3>6, RingGrows
    <3>9. Ring(beaconEst)' /\ FitOfRing(beaconEst)'
      <4>1. Ring(observe(beaconEst, s)) /\ FitOfRing(observe(beaconEst, s))
        BY <1>1, <3>6, RingKept, FitKept
      <4> QED
        BY <3>1, <4>1 DEF Ring, FitOfRing
    <3> QED
      BY <3>7, <3>8, <3>9 DEF RingsTrue
  <2> QED
    BY <1>3, <2>1, <2>2
<1>6. /\ Ring(udpEst)' /\ FitOfRing(udpEst)'
      /\ \A i \in Slots :
           StampsAgree /\ udpEst'.samples[i] # NoSample => SampleTrue(udpEst'.samples[i])
  <2>1. CASE UNCHANGED udpEst
    BY <2>1 DEF RingsTrue, Ring, FitOfRing
  <2>2. CASE ObservePacket
    <3> DEFINE s == exec.sample
    <3>1. exec # None /\ exec.task = "fit" /\ udpEst' = observe(udpEst, s)
      BY <2>2 DEF ObservePacket, Idle
    <3>2. s \in Observation /\ (StampsAgree => SampleTrue(s))
      BY <1>2, <3>1, TaskKinds DEF TaskTrue, Sample, Observation
    <3> HIDE DEF s
    <3>3. \A i \in Slots : udpEst'.samples[i] \in {s, udpEst.samples[i]}
      BY <1>1, <3>1, <3>2, RingGrows
    <3>4. Ring(udpEst)' /\ FitOfRing(udpEst)'
      <4>1. Ring(observe(udpEst, s)) /\ FitOfRing(observe(udpEst, s))
        BY <1>1, <3>2, RingKept, FitKept
      <4> QED
        BY <3>1, <4>1 DEF Ring, FitOfRing
    <3> QED
      BY <3>2, <3>3, <3>4 DEF RingsTrue
  <2> QED
    BY <1>4, <2>1, <2>2
<1> QED
  BY <1>5, <1>6 DEF RingsTrue

\* The smoothed delta moves by a part of the way to the one rx_cb has measured, so it stays
\* where all of them are.
LEMMA DeltaKept ==
  ASSUME Inv, OnlyWriters
  PROVE  DeltaWithinLatency' /\ instantMinusTsf' \in Int \cup {None}
<1> USE DEF Inv
<1>1. CASE UNCHANGED instantMinusTsf
  BY <1>1 DEF DeltaWithinLatency, TypeOK
<1>2. CASE EndCallback
  <2> DEFINE delta == rx.instant - OwnTsf(now)
             top == InstantBase - OwnBase[follows]
             prev == instantMinusTsf
             step == TruncDiv(delta - prev, EmaDivisor)
  <2>1. rx # None /\ rx.stage = "entered" /\ instantMinusTsf' = SmoothDelta(prev, delta)
    BY <1>2 DEF EndCallback, UseBeacon, RejectBeacon, MatchPacket, IgnoreFrame, Prologue
  <2>2. /\ rx.at \in 0..now /\ now - rx.at <= MaxLatency /\ now \in Nat
        /\ follows \in Network
    BY <2>1, CallbackReads
  <2>3. PICK t \in rx.at .. now : rx.instant = InstantUs(t)
    BY <2>1 DEF Receiving
  <2>4. /\ MaxLatency \in Nat /\ EmaDivisor \in Nat \ {0} /\ None \notin Int
        /\ \A a \in Network : InstantBase - OwnBase[a] \in Int
    BY ClientAssumption, EstimatorAssumption
  <2>5. delta \in Int /\ top \in Int /\ delta \in top - MaxLatency .. top
    <3>1. InstantBase \in Int /\ OwnBase[follows] \in Int
      BY <2>2, ClientAssumption
    <3>2. delta = InstantBase + t - (OwnBase[follows] + now)
      <4>1. rx.instant = InstantBase + t /\ OwnTsf(now) = OwnBase[follows] + now
        BY <2>3 DEF InstantUs, OwnTsf
      <4>2. delta = rx.instant - OwnTsf(now)
        OBVIOUS
      <4>3. t \in Int /\ now \in Int
        BY <2>2
      <4> HIDE DEF delta
      <4> QED
        BY <3>1, <4>1, <4>2, <4>3
    <3> HIDE DEF delta
    <3> QED
      BY <2>2, <2>3, <2>4, <3>1, <3>2
  <2> HIDE DEF delta
  <2>6. CASE prev = None
    <3>1. instantMinusTsf' = delta
      BY <2>1, <2>6 DEF SmoothDelta
    <3> QED
      BY <2>2, <2>4, <2>5, <3>1 DEF DeltaWithinLatency
  <2>7. CASE prev # None
    <3>1. PICK low \in Network, high \in Network :
            prev \in InstantBase - OwnBase[low] - MaxLatency .. InstantBase - OwnBase[high]
      BY <2>7 DEF DeltaWithinLatency
    <3> DEFINE least == InstantBase - OwnBase[low]
               most == InstantBase - OwnBase[high]
    <3>0. least \in Int /\ most \in Int /\ prev \in Int /\ prev \in least - MaxLatency .. most
      BY <2>4, <2>7, <3>1 DEF TypeOK
    <3> HIDE DEF least, most
    <3>2. delta - prev \in Int
      <4>1. delta \in Int
        BY <2>5
      <4>2. prev \in Int
        BY <3>0
      <4> HIDE DEF prev
      <4> QED
        BY <4>1, <4>2
    <3>3. step \in Int /\ (delta - prev >= 0 => 0 <= step /\ step <= delta - prev)
          /\ (delta - prev <= 0 => step <= 0 /\ delta - prev <= step)
      <4> DEFINE a == delta - prev
      <4>1. a \in Int /\ (a >= 0 => a <= a * EmaDivisor /\ 0 * EmaDivisor <= a)
            /\ (a <= 0 => a * EmaDivisor <= a /\ a <= 0 * EmaDivisor)
        <5>1. PICK n \in Nat : EmaDivisor = n + 1
          <6>1. EmaDivisor - 1 \in Nat /\ EmaDivisor = (EmaDivisor - 1) + 1
            BY <2>4
          <6> QED
            BY <6>1
        <5> HIDE DEF a
        <5>2. a * (n + 1) = n * a + a /\ 0 * EmaDivisor = 0
          BY <2>4, <3>2 DEF a
        <5>3. (a >= 0 => n * a >= n * 0) /\ (a <= 0 => n * a <= n * 0) /\ n * 0 = 0
          BY <3>2, Scaled DEF a
        <5> QED
          BY <3>2, <5>1, <5>2, <5>3 DEF a
      <4> HIDE DEF a
      <4>2. TruncDiv(a, EmaDivisor) \in Int
            /\ (a >= 0 => 0 <= TruncDiv(a, EmaDivisor) /\ TruncDiv(a, EmaDivisor) <= a)
            /\ (a <= 0 => TruncDiv(a, EmaDivisor) <= 0 /\ a <= TruncDiv(a, EmaDivisor))
        BY <2>4, <4>1, TruncDivBetween
      <4> QED
        BY <4>2 DEF a
    <3>4. instantMinusTsf' = prev + step
      BY <2>1, <2>7 DEF SmoothDelta
    <3> HIDE DEF step
    <3> HIDE DEF prev, top
    <3>5. \/ instantMinusTsf' \in least - MaxLatency .. top
          \/ instantMinusTsf' \in top - MaxLatency .. most
      BY <2>4, <2>5, <3>0, <3>3, <3>4
    <3> QED
      BY <2>2, <2>4, <3>5 DEF DeltaWithinLatency, top, least, most
  <2> QED
    BY <2>6, <2>7
<1> QED
  BY <1>1, <1>2 DEF OnlyWriters

-----------------------------------------------------------------------------
(* The counts.                                                             *)

\* The packets waiting in the channel c.
Packets(c) == {i \in 1..Len(c) : c[i].kind = "udp"}

LEMMA PacketsFinite ==
  ASSUME NEW c \in Seq(Event)
  PROVE  IsFiniteSet(Packets(c)) /\ Cardinality(Packets(c)) \in Nat
<1>1. Len(c) \in Int
  BY LenProperties
<1>2. IsFiniteSet(1..Len(c))
  BY <1>1, 1 \in Int, FS_Interval
<1> QED
  BY <1>2, FS_Subset, FS_CardinalityType DEF Packets

LEMMA PacketSent ==
  ASSUME TypeOK, NEW ev \in Event
  PROVE  Cardinality(Packets(try_send(ev))) =
           IF ev.kind = "udp" /\ ~ Full THEN Cardinality(Packets(chan)) + 1
           ELSE Cardinality(Packets(chan))
<1> DEFINE c == try_send(ev)
<1>1. chan \in Seq(Event) /\ Len(chan) <= CHANNEL_DEPTH /\ Len(chan) \in Nat
  BY LenProperties DEF TypeOK
<1>2. /\ Len(c) = IF Full THEN Len(chan) ELSE Len(chan) + 1
      /\ \A i \in 1..Len(c) : c[i] = IF i <= Len(chan) THEN chan[i] ELSE ev
  BY <1>1, SendKept
<1> HIDE DEF c
<1>3. Packets(c) = IF ev.kind = "udp" /\ ~ Full THEN Packets(chan) \cup {Len(chan) + 1}
                   ELSE Packets(chan)
  BY <1>1, <1>2 DEF Packets
<1>4. Len(chan) + 1 \notin Packets(chan)
  BY <1>1 DEF Packets
<1> QED
  BY <1>1, <1>3, <1>4, PacketsFinite, FS_AddElement DEF c

\* Without its oldest event a channel holds the same packets one place further on.
LEMMA PacketTaken ==
  ASSUME NEW c \in Seq(Event), c # << >>
  PROVE  Cardinality(Packets(c)) = Cardinality(Packets(Tail(c)))
                                     + (IF Head(c).kind = "udp" THEN 1 ELSE 0)
<1> DEFINE S == Packets(Tail(c))
           T == Packets(c) \ {1}
           shift == [i \in S |-> i + 1]
<1>1. /\ Head(c) = c[1] /\ Len(c) \in Nat \ {0}
      /\ Tail(c) \in Seq(Event) /\ Len(Tail(c)) = Len(c) - 1
      /\ \A i \in 1 .. Len(Tail(c)) : Tail(c)[i] = c[i + 1]
  BY HeadTailProperties, EmptySeq, LenProperties
<1>2. \A i \in S : i \in Nat /\ i + 1 \in T
  BY <1>1 DEF Packets
<1>3. \A j \in T : j \in Nat /\ j - 1 \in S
  BY <1>1 DEF Packets
<1>4. IsFiniteSet(S) /\ IsFiniteSet(Packets(c)) /\ Cardinality(Packets(c)) \in Nat
  BY <1>1, PacketsFinite
<1>5. 1 \in Packets(c) <=> Head(c).kind = "udp"
  BY <1>1 DEF Packets
<1> HIDE DEF S
<1>6. Cardinality(T) = IF 1 \in Packets(c) THEN Cardinality(Packets(c)) - 1
                       ELSE Cardinality(Packets(c))
  BY <1>4, FS_RemoveElement
<1> HIDE DEF T
<1>7. shift \in Bijection(S, T)
  <2>1. shift \in [S -> T] /\ \A i, j \in S : shift[i] = shift[j] => i = j
    BY <1>2
  <2>2. \A j \in T : j - 1 \in S /\ shift[j - 1] = j
    BY <1>3
  <2>3. \A j \in T : \E i \in S : shift[i] = j
    BY <2>2
  <2> HIDE DEF shift
  <2>4. shift \in Injection(S, T) /\ shift \in Surjection(S, T)
    <3>1. shift \in Injection(S, T)
      BY <2>1 DEF Injection, IsInjective
    <3>2. shift \in Surjection(S, T)
      BY <2>1, <2>3 DEF Surjection
    <3> QED
      BY <3>1, <3>2
  <2> QED
    BY <2>4 DEF Bijection
<1>8. Cardinality(T) = Cardinality(S)
  BY <1>4, <1>7, FS_Bijection DEF ExistsBijection
<1> QED
  BY <1>4, <1>5, <1>6, <1>8 DEF S

LEMMA CountsKept ==
  ASSUME Inv, PacketsConserved, OnlyWriters
  PROVE  /\ count' \in [seen : Nat, matched : Nat, beacons : Nat, used : Nat, dropped : Nat]
         /\ tally' \in [udpTaken : Nat, anchored : Nat, fitted : Nat]
         /\ PacketsConserved'
<1> USE DEF Inv
<1>1. /\ count \in [seen : Nat, matched : Nat, beacons : Nat, used : Nat, dropped : Nat]
      /\ tally \in [udpTaken : Nat, anchored : Nat, fitted : Nat]
      /\ chan \in Seq(Event)
  BY DEF TypeOK
<1>2. count.matched = tally.udpTaken + count.dropped + Cardinality(Packets(chan))
  BY DEF PacketsConserved, Packets
<1> DEFINE waiting == Cardinality(Packets(chan))
<1>3. waiting \in Nat
  BY <1>1, PacketsFinite
<1>4. /\ count.seen \in Nat /\ count.matched \in Nat /\ count.beacons \in Nat
      /\ count.used \in Nat /\ count.dropped \in Nat
      /\ tally.udpTaken \in Nat /\ tally.anchored \in Nat /\ tally.fitted \in Nat
      /\ count.matched = tally.udpTaken + count.dropped + waiting
  BY <1>1, <1>2
<1>14. SUFFICES
        /\ count' \in [seen : Nat, matched : Nat, beacons : Nat, used : Nat, dropped : Nat]
        /\ tally' \in [udpTaken : Nat, anchored : Nat, fitted : Nat]
        /\ count'.matched = tally'.udpTaken + count'.dropped + waiting'
  BY DEF PacketsConserved, Packets
<1>5. CASE UseBeacon
  <2> DEFINE ev == [kind |-> "beacon", anchor |-> BeaconAnchor]
  <2>1. /\ count' = [count EXCEPT !.seen = @ + 1, !.beacons = @ + 1, !.used = @ + 1]
        /\ chan' = try_send(ev) /\ tally' = tally
    BY <1>5 DEF UseBeacon
  <2>2. ev \in Event /\ ev.kind = "beacon"
    BY <1>5, AnchorRead DEF UseBeacon, Prologue, Event
  <2> HIDE DEF ev
  <2>3. waiting' = waiting
    BY <2>1, <2>2, PacketSent
  <2>4. count' = [seen |-> count.seen + 1, matched |-> count.matched,
                 beacons |-> count.beacons + 1, used |-> count.used + 1,
                 dropped |-> count.dropped]
    BY <1>1, <2>1
  <2> HIDE DEF waiting
  <2> QED
    BY <1>1, <1>4, <2>1, <2>3, <2>4
<1>6. CASE MatchPacket
  <2> DEFINE ev == [kind       |-> "udp",
                    server_ns  |-> ServerNs(rx.frame.sent),
                    own_tsf_us |-> UnwrapTimestamp(OwnTsf(now), RxTimestamp(rx.at))]
  <2>1. /\ count' = [count EXCEPT !.seen = @ + 1, !.matched = @ + 1,
                                 !.dropped = IF Full THEN @ + 1 ELSE @]
        /\ chan' = try_send(ev)
        /\ tally' = [tally EXCEPT !.anchored = IF latest # None /\ ~Full THEN @ + 1 ELSE @]
    BY <1>6 DEF MatchPacket
  <2>2. ev \in Event /\ ev.kind = "udp"
    BY <1>6, PacketRead
  <2> HIDE DEF ev
  <2>3. waiting' = IF Full THEN waiting ELSE waiting + 1
    BY <2>1, <2>2, PacketSent
  <2>4. count' = [seen |-> count.seen + 1, matched |-> count.matched + 1,
                 beacons |-> count.beacons, used |-> count.used,
                 dropped |-> IF Full THEN count.dropped + 1 ELSE count.dropped]
    BY <1>1, <2>1
  <2>5. tally' = [udpTaken |-> tally.udpTaken, fitted |-> tally.fitted,
                  anchored |-> IF latest # None /\ ~Full THEN tally.anchored + 1
                               ELSE tally.anchored]
    BY <1>1, <2>1
  <2> HIDE DEF waiting
  <2>6. count' \in [seen : Nat, matched : Nat, beacons : Nat, used : Nat, dropped : Nat]
    BY <1>4, <2>4
  <2>7. tally' \in [udpTaken : Nat, anchored : Nat, fitted : Nat]
    BY <1>4, <2>5
  <2>8. count'.matched = tally'.udpTaken + count'.dropped + waiting'
    BY <1>3, <1>4, <2>3, <2>4, <2>5
  <2> QED
    BY <2>6, <2>7, <2>8
<1>7. CASE RejectBeacon \/ IgnoreFrame
  <2>1. CASE RejectBeacon
    <3>1. count' = [seen |-> count.seen + 1, matched |-> count.matched,
                   beacons |-> count.beacons + 1, used |-> count.used,
                   dropped |-> count.dropped]
      BY <1>1, <2>1 DEF RejectBeacon
    <3>2. UNCHANGED <<chan, tally>>
      BY <2>1 DEF RejectBeacon
    <3> QED
      BY <1>1, <1>4, <3>1, <3>2
  <2>2. CASE IgnoreFrame
    BY <1>1, <1>4, <2>2 DEF IgnoreFrame
  <2> QED
    BY <1>7, <2>1, <2>2
<1>8. CASE TakeEvent
  <2>1. /\ chan # << >> /\ chan' = Tail(chan) /\ count' = count
        /\ tally' = [tally EXCEPT !.udpTaken = IF Head(chan).kind = "udp" THEN @ + 1 ELSE @]
    BY <1>8 DEF TakeEvent
  <2>2. waiting = waiting' + (IF Head(chan).kind = "udp" THEN 1 ELSE 0)
    BY <1>1, <2>1, PacketTaken
  <2>3. waiting' \in Nat
    BY <1>1, <2>1, TakeKept, PacketsFinite
  <2>4. tally' = [anchored |-> tally.anchored, fitted |-> tally.fitted,
                  udpTaken |-> IF Head(chan).kind = "udp" THEN tally.udpTaken + 1
                               ELSE tally.udpTaken]
    BY <1>1, <2>1
  <2> HIDE DEF waiting
  <2>5. tally' \in [udpTaken : Nat, anchored : Nat, fitted : Nat]
    BY <1>4, <2>4
  <2>6. /\ tally'.udpTaken = tally.udpTaken + (IF Head(chan).kind = "udp" THEN 1 ELSE 0)
        /\ tally.udpTaken \in Nat /\ count.dropped \in Nat
    BY <1>4, <2>4
  <2>7. count'.matched = tally'.udpTaken + count'.dropped + waiting'
    <3> DEFINE taken == IF Head(chan).kind = "udp" THEN 1 ELSE 0
    <3>1. taken \in Nat
      OBVIOUS
    <3>2. tally'.udpTaken = tally.udpTaken + taken /\ waiting = waiting' + taken
      BY <2>2, <2>6
    <3>3. count'.matched = count.matched /\ count'.dropped = count.dropped
      BY <2>1
    <3> HIDE DEF taken
    <3> QED
      BY <1>3, <1>4, <2>3, <2>6, <3>1, <3>2, <3>3
  <2> QED
    BY <1>1, <2>1, <2>5, <2>7
<1>9. CASE ObservePacket
  BY <1>1, <1>4, <1>9 DEF ObservePacket
<1>10. CASE UNCHANGED <<count, chan, tally>>
  BY <1>1, <1>4, <1>10
<1> QED
  BY <1>5, <1>6, <1>7, <1>8, <1>9, <1>10 DEF OnlyWriters, EndCallback

-----------------------------------------------------------------------------
(* The invariant holds in every network.                                   *)

LEMMA FiltersTyped ==
  ASSUME Inv, OnlyWriters
  PROVE  instantFilter' \in Filter /\ extraFilter' \in Filter
<1> USE DEF Inv
<1>1. instantFilter \in Filter /\ extraFilter \in Filter /\ extraRate \in {0, ExtraPerUs}
  BY DEF TypeOK
<1>2. CASE UNCHANGED anchor
  BY <1>1, <1>2 DEF anchor
<1>3. CASE UseBeacon
  <2> DEFINE a == BeaconAnchor
             x == ExtraInUs(a.extra_us, extraRate)
  <2>1. rx # None /\ rx.stage = "entered" /\ rx.frame.kind = "beacon"
    BY <1>3 DEF UseBeacon, Prologue
  <2>2. a.instant_us \in Int /\ a.ap_tsf_us \in Int /\ a.extra_us \in Int
    BY <2>1, AnchorRead, ReadingsFields
  <2>3. /\ instantFilter' = AB!observe(instantFilter, InstantAlpha, InstantBeta,
                                      a.instant_us, a.ap_tsf_us - a.instant_us)
        /\ extraFilter' = IF extraRate = 0 THEN extraFilter
                          ELSE AB!observe(extraFilter, ExtraAlpha, ExtraBeta, x, a.ap_tsf_us - x)
    BY <1>3 DEF UseBeacon
  <2>4. {InstantAlpha, InstantBeta, ExtraAlpha, ExtraBeta, ExtraPerUs} \subseteq Nat \ {0}
    BY ClientAssumption
  <2> HIDE DEF a
  <2>5. extraRate # 0 => x \in Int
    BY <1>1, <2>2, <2>4, TruncDivType DEF ExtraInUs
  <2> HIDE DEF x
  <2>6. instantFilter' \in Filter
    <3>1. a.ap_tsf_us - a.instant_us \in Int
      BY <2>2
    <3> QED
      BY <1>1, <2>2, <2>3, <2>4, <3>1, FilterKept
  <2>7. extraFilter' \in Filter
    <3>1. extraRate # 0 => a.ap_tsf_us - x \in Int
      BY <2>2, <2>5
    <3> QED
      BY <1>1, <2>3, <2>4, <2>5, <3>1, FilterKept
  <2> QED
    BY <2>6, <2>7
<1> QED
  BY <1>2, <1>3 DEF OnlyWriters

LEMMA ReceptionTyped ==
  ASSUME Inv, OnlyWriters
  PROVE  rx' \in Reception \cup {None}
<1> USE DEF Inv
<1>1. now \in Nat
  BY TimePasses
<1>2. ASSUME NEW f \in Frames, Receive(f) PROVE rx' \in Reception
  <2>1. f \in Frame
    <3>1. now - MaxDelay .. now \subseteq Int
      BY <1>1, ClientAssumption
    <3> QED
      BY <3>1 DEF Frames, Frame
  <2> QED
    BY <1>1, <1>2, <2>1 DEF Receive, Reception
<1>3. CASE EnterCallback
  <2>1. rx # None /\ rx \in Reception
    BY <1>3 DEF EnterCallback, TypeOK
  <2>2. ExtraTicks(now) \in Int /\ InstantUs(now) \in Int
    BY <1>1, ClockTypes
  <2>3. rx.frame \in Frame /\ rx.at \in Nat
    BY <2>1, ReceptionStages
  <2> QED
    BY <1>3, <2>2, <2>3 DEF EnterCallback, Reception
<1>4. CASE EndCallback
  BY <1>4 DEF EndCallback, UseBeacon, RejectBeacon, MatchPacket, IgnoreFrame, Prologue
<1>5. CASE UNCHANGED rx
  BY <1>5 DEF TypeOK
<1> QED
  BY <1>2, <1>3, <1>4, <1>5 DEF OnlyWriters

LEMMA InvKept ==
  ASSUME Inv, PacketsConserved, [Next]_vars
  PROVE  Inv' /\ PacketsConserved'
<1> USE DEF Inv
<1>1. OnlyWriters
  BY Writers
<1>2. now' \in Nat /\ rx' \in Reception \cup {None}
  BY <1>1, TimePasses, ReceptionTyped
<1>3. assoc' \in Network \cup {None} /\ follows' \in Network
  BY <1>1 DEF OnlyWriters, Associate, TypeOK
<1>4. locked' \in Network \cup {None}
  <2>1. CASE LockBssid
    BY <2>1 DEF LockBssid, Idle, TaskTrue
  <2>2. CASE UNCHANGED locked
    BY <2>2 DEF TypeOK
  <2> QED
    BY <1>1, <2>1, <2>2 DEF OnlyWriters
<1>5. extraRate' \in {0, ExtraPerUs} /\ hook' \in BOOLEAN
  BY <1>1 DEF OnlyWriters, SetExtraRate, set_beacon_hook, TypeOK
<1>6. Receiving'
  BY <1>1, ReceivingKept
<1>7. TaskTrue' /\ exec' \in Task \cup {None}
  BY <1>1, TaskKept
<1>8. ChannelTrue' /\ chan' \in Seq(Event) /\ Len(chan') <= CHANNEL_DEPTH
      /\ latest' \in Readings \cup {None}
  BY <1>1, ChannelKept
<1>9. RingsTrue' /\ beaconEst' \in Estimators /\ udpEst' \in Estimators
  <2>1. RingsTrue'
    BY <1>1, RingsKept
  <2>2. Ring(beaconEst)' /\ Ring(udpEst)'
    BY <2>1 DEF RingsTrue
  <2>3. Ring(beaconEst') /\ Ring(udpEst')
    BY <2>2 DEF Ring
  <2> QED
    BY <2>1, <2>3, RingEstimator
<1>10. DeltaWithinLatency' /\ instantMinusTsf' \in Int \cup {None}
  BY <1>1, DeltaKept
<1>11. instantFilter' \in Filter /\ extraFilter' \in Filter
  BY <1>1, FiltersTyped
<1>12. /\ count' \in [seen : Nat, matched : Nat, beacons : Nat, used : Nat, dropped : Nat]
       /\ tally' \in [udpTaken : Nat, anchored : Nat, fitted : Nat]
       /\ PacketsConserved'
  BY <1>1, CountsKept
<1>13. TypeOK'
  BY <1>2, <1>3, <1>4, <1>5, <1>7, <1>8, <1>9, <1>10, <1>11, <1>12 DEF TypeOK
<1> QED
  BY <1>6, <1>7, <1>8, <1>9, <1>10, <1>12, <1>13

LEMMA InitCounts == Init => PacketsConserved
<1>1. ASSUME Init PROVE {i \in 1..Len(chan) : chan[i].kind = "udp"} = {}
  BY <1>1, EmptySeq DEF Init
<1> QED
  BY <1>1, FS_EmptySet DEF Init, PacketsConserved

LEMMA InvCorrect == Spec => [](Inv /\ PacketsConserved)
<1>1. Init => Inv /\ PacketsConserved
  BY InitInv, InitCounts
<1>2. Inv /\ PacketsConserved /\ [Next]_vars => (Inv /\ PacketsConserved)'
  BY InvKept
<1> QED
  BY <1>1, <1>2, PTL DEF Spec

\* The statics, the tasks and the frames keep the types they are declared with.
THEOREM TypesKept == Spec => []TypeOK
<1>1. Inv => TypeOK
  BY DEF Inv
<1> QED
  BY <1>1, InvCorrect, PTL

\* rx_cb pairs the access point's TSF with the stamps' clock at the same instant, through
\* every wrap of the stamp and every order of frames, polls and associations, whether
\* mac_tsf_us is that clock or runs ahead of it, by one Gap or by another for every access
\* point: of its reading nothing is left in the anchor but which wrap the stamp is of.
THEOREM AnchorsExact == Spec => []AnchorExact
<1>1. Inv => AnchorExact
  BY DEF Inv, ChannelTrue, AnchorExact, EventTrue, OfOneReception
<1> QED
  BY <1>1, InvCorrect, PTL

\* No packet that rx_cb matched is lost without being counted, whatever the channel's
\* depth and however the executor is delayed.
THEOREM PacketsAccounted == Spec => []PacketsConserved
  BY InvCorrect, PTL

\* Neither an observation nor a beacon, of any access point, takes away what a query needs.
LEMMA NothingLost ==
  ASSUME Inv, [Next]_vars
  PROVE  /\ latest # None => latest' # None
         /\ ~ (udpEst.n < MIN_SAMPLES) => ~ (udpEst'.n < MIN_SAMPLES)
         /\ udpEst.n \in Nat /\ udpEst'.n \in Nat
         /\ instantFilter.initialized => instantFilter'.initialized
         /\ extraFilter.initialized => extraFilter'.initialized
<1>1. OnlyWriters
  BY Writers
<1>2. latest # None => latest' # None
  <2>1. CASE UseBeacon
    <3>1. BeaconAnchor \in Readings /\ latest' = BeaconAnchor
      BY <2>1, AnchorRead DEF UseBeacon, Prologue, Inv
    <3> QED
      BY <3>1, ReadingsFields
  <2>2. CASE UNCHANGED anchor
    BY <2>2 DEF anchor
  <2> QED
    BY <1>1, <2>1, <2>2 DEF OnlyWriters
<1>3. udpEst.n \in Nat /\ MIN_SAMPLES \in Nat
  BY EstimatorAssumption DEF Inv, RingsTrue, Ring
<1>4. udpEst'.n \in Nat /\ udpEst.n <= udpEst'.n
  <2>1. CASE ObservePacket
    <3>1. exec # None /\ exec.task = "fit" /\ udpEst' = observe(udpEst, exec.sample)
      BY <2>1 DEF ObservePacket, Idle
    <3>2. exec.sample \in Observation /\ Ring(udpEst)
      BY <3>1, TaskKinds DEF Inv, TypeOK, RingsTrue, Sample, Observation
    <3>3. udpEst.n <= udpEst'.n
      BY <3>1, <3>2, RingGrows
    <3>4. Ring(udpEst')
      BY <3>1, <3>2, RingKept
    <3> QED
      BY <3>3, <3>4, EstimatorAssumption DEF Ring
  <2>2. CASE UNCHANGED udpEst
    BY <1>3, <2>2
  <2> QED
    BY <1>1, <2>1, <2>2 DEF OnlyWriters
<1>5. /\ instantFilter.initialized => instantFilter'.initialized
      /\ extraFilter.initialized => extraFilter'.initialized
  <2>1. CASE UseBeacon
    BY <2>1 DEF UseBeacon, AB!observe
  <2>2. CASE UNCHANGED anchor
    BY <2>2 DEF anchor
  <2> QED
    BY <1>1, <2>1, <2>2 DEF OnlyWriters
<1> QED
  BY <1>2, <1>3, <1>4, <1>5

\* Once the client can answer through the anchor it always can.
THEOREM ReadinessKept == Spec => StaysReady
<1>1. Inv /\ [Next]_vars => [Ready => Ready']_vars
  <2>1. MIN_SAMPLES \in Nat
    BY EstimatorAssumption
  <2> QED
    BY <2>1, NothingLost DEF Ready
<1> QED
  BY <1>1, InvCorrect, PTL DEF Spec, StaysReady

-----------------------------------------------------------------------------
(* A network of one access point: what the two estimators have fitted.     *)

\* "a" is the only access point of the network, so its TSF is the only timebase.
OneNetwork(a) == a \in AP /\ Network = {a}

LEMMA OneStamp == ASSUME NEW a, OneNetwork(a) PROVE StampsAgree
BY DEF OneNetwork, StampsAgree

LEMMA OneFollowed ==
  ASSUME NEW a, OneNetwork(a), TypeOK
  PROVE  follows = a /\ (OnlyWriters => follows' = a)
BY DEF OneNetwork, TypeOK, OnlyWriters, Associate

LEMMA WindowOffset ==
  ASSUME NEW a, OneNetwork(a), Inv, udpEst.n >= MIN_SAMPLES
  PROVE  \E late \in 0 .. NsPerUs * MaxDelay :
           udpEst.fit.offset_ns = NsPerUs * (Epoch - ApBase[a]) - late
<1> DEFINE samples == udpEst.samples
           mean == MeanOffset(samples)
           k == NsPerUs
           gap == k * (ApBase[a] - Epoch)
           most == k * MaxDelay
<1>1. gap \in Int /\ most \in Nat /\ k * (Epoch - ApBase[a]) = -gap
  BY ClientAssumption, EstimatorAssumption DEF OneNetwork
<1>2. Ring(udpEst) /\ FitOfRing(udpEst)
  BY DEF Inv, RingsTrue
<1>3. Occupied(samples) # {} /\ IntegerRing(samples)
  BY <1>2, RingOccupied
<1>4. ASSUME NEW i \in Occupied(samples)
      PROVE  OffsetOf(samples[i]) \in Int /\ OffsetOf(samples[i]) + gap \in -most .. 0
  <2>1. i \in Slots /\ samples[i] # NoSample
    BY DEF Occupied
  <2>2. SampleOf(samples[i], a)
    BY <2>1, OneStamp DEF Inv, RingsTrue, SampleTrue, OneNetwork
  <2>3. OffsetOf(samples[i]) \in Int
    BY <1>3, EstimatorAssumption DEF IntegerRing, OffsetOf
  <2> QED
    BY <2>2, <2>3 DEF SampleOf
<1>5. udpEst.fit.offset_ns = mean
  BY <1>2 DEF FitOfRing
<1> HIDE DEF gap, most, samples
<1>6. mean \in Int /\ -gap - most <= mean /\ mean <= -gap
  <2>1. \A i \in Occupied(samples) : -gap - most <= OffsetOf(samples[i])
                                     /\ OffsetOf(samples[i]) <= -gap
    BY <1>1, <1>4
  <2>2. -gap - most \in Int /\ -gap \in Int
    BY <1>1
  <2> QED
    BY <1>3, <2>1, <2>2, MeanBetween
<1> HIDE DEF mean
<1>7. -gap - mean \in 0 .. most /\ mean = -gap - (-gap - mean)
  BY <1>1, <1>6
<1> QED
  BY <1>1, <1>5, <1>7 DEF most

\* Of observations that all show the same offset the mean is that offset, and nothing is
\* left as a residual.
LEMMA FitOfSame ==
  ASSUME NEW samples, Occupied(samples) # {}, IntegerRing(samples), NEW offset \in Int,
         \A i \in Occupied(samples) : OffsetOf(samples[i]) = offset
  PROVE  MeanOffset(samples) = offset /\ StdUs(samples, offset) = 0
<1> DEFINE f == Squares(samples, offset)
           k == Cardinality(Occupied(samples))
<1>1. MeanOffset(samples) = offset
  <2>1. MeanOffset(samples) \in Int /\ offset <= MeanOffset(samples) /\ MeanOffset(samples) <= offset
    BY MeanBetween
  <2> QED
    BY <2>1
<1>2. IsFiniteSet(Occupied(samples)) /\ k \in Nat \ {0} /\ DOMAIN f = Occupied(samples)
  BY OccupiedFinite DEF Squares
<1>3. ASSUME NEW i \in DOMAIN f PROVE f[i] = 0
  <2>1. OffsetOf(samples[i]) - offset = 0
    BY <1>2
  <2>2. ResidualUs(samples[i], offset) = 0
    <3>1. 0 \div NsPerUs = 0
      BY EstimatorAssumption
    <3> QED
      BY <2>1, <3>1 DEF ResidualUs, Magnitude
  <2> QED
    BY <1>2, <2>2 DEF Squares
<1>4. SumFunction(f) = 0
  <2> HIDE DEF f
  <2>3. IsFiniteSet(DOMAIN f) /\ \A i \in DOMAIN f : f[i] \in Int
        /\ f[i] >= (IF i \in {} THEN 0 ELSE 0) /\ f[i] <= 0
    BY <1>2, <1>3
  <2>1. /\ SumFunction(f) \in Int
        /\ SumFunction(f) >= 0 * Cardinality(DOMAIN f \cap {})
        /\ SumFunction(f) <= 0 * Cardinality(DOMAIN f)
    BY <2>3, 0 \in Int, SumBounds
  <2>2. Cardinality(DOMAIN f \cap {}) \in Nat /\ Cardinality(DOMAIN f) \in Nat
    BY <1>2, FS_EmptySet
  <2> QED
    BY <2>1, <2>2
<1>5. isqrt_u128(0 \div k) = 0
  <2>1. 0 \div k = 0
    BY <1>2
  <2> QED
    BY <2>1 DEF isqrt_u128
<1> QED
  BY <1>1, <1>4, <1>5 DEF StdUs

LEMMA BeaconsFitted ==
  ASSUME NEW a, OneNetwork(a), Inv
  PROVE  BeaconFitExact
<1> DEFINE samples == beaconEst.samples
           offset == NsPerUs * (ApBase[a] - StampTsf(a, 0))
<1>1. SUFFICES ASSUME beaconEst.n >= MIN_SAMPLES
               PROVE  beaconEst.fit.residual_us_p95 = 0 /\ beaconEst.fit.offset_ns = offset
  BY DEF BeaconFitExact, OneNetwork
<1>2. Ring(beaconEst) /\ FitOfRing(beaconEst)
  BY DEF Inv, RingsTrue
<1>3. Occupied(samples) # {} /\ IntegerRing(samples)
  BY <1>1, <1>2, RingOccupied
<1>4. \A i \in Occupied(samples) : OffsetOf(samples[i]) = offset
  BY DEF Inv, RingsTrue, DiagnosticTrue, OneNetwork, Occupied
<1>5. offset \in Int /\ U32_MAX \in Nat
  <2>1. StampTsf(a, 0) \in Nat /\ ApBase[a] \in Nat /\ NsPerUs \in Nat
    BY StampClock, ClientAssumption, EstimatorAssumption DEF OneNetwork
  <2> QED
    BY <2>1, EstimatorAssumption
<1>6. /\ beaconEst.fit.offset_ns = MeanOffset(samples)
      /\ beaconEst.fit.residual_us_p95 = Least(2 * StdUs(samples, MeanOffset(samples)), U32_MAX)
  BY <1>1, <1>2 DEF FitOfRing
<1> HIDE DEF offset, samples
<1>7. MeanOffset(samples) = offset /\ StdUs(samples, offset) = 0
  BY <1>3, <1>4, <1>5, FitOfSame
<1> QED
  BY <1>5, <1>6, <1>7 DEF Least

\* The server's time that the window gives for a time on the access point's TSF, l before t.
LEMMA SyncedLate ==
  ASSUME NEW a, OneNetwork(a), Inv, NEW t \in Nat, NEW l \in Nat
  PROVE  LET x == synced_ns_at(udpEst, ApTsf(a, t) - l)
         IN  /\ x = None \/ ServerNs(t) - x \in NsPerUs * l .. NsPerUs * (l + MaxDelay)
             /\ udpEst.n < MIN_SAMPLES => x = None
             /\ l = 0 /\ ~ (udpEst.n < MIN_SAMPLES) => x # None
<1> DEFINE k == NsPerUs
           base == ApBase[a]
           local == ApTsf(a, t) - l
           predicted == udpEst.fit.offset_ns + k * local
           x == synced_ns_at(udpEst, local)
<1> SUFFICES /\ x = None \/ ServerNs(t) - x \in k * l .. k * (l + MaxDelay)
             /\ udpEst.n < MIN_SAMPLES => x = None
             /\ l = 0 /\ ~ (udpEst.n < MIN_SAMPLES) => x # None
  OBVIOUS
<1>1. k \in Nat \ {0} /\ base \in Nat /\ Epoch \in Nat /\ MaxDelay \in Nat /\ MaxDelay <= Epoch
      /\ None \notin Int /\ udpEst.n \in Nat /\ MIN_SAMPLES \in Nat
  BY ClientAssumption, EstimatorAssumption DEF OneNetwork, Inv, RingsTrue, Ring
<1>2. x = IF udpEst.n < MIN_SAMPLES \/ predicted < 0 THEN None ELSE predicted
  BY DEF synced_ns_at
<1> HIDE DEF x
<1>3. CASE udpEst.n < MIN_SAMPLES
  BY <1>2, <1>3
<1>4. CASE ~ (udpEst.n < MIN_SAMPLES)
  <2>1. PICK late \in 0 .. k * MaxDelay : udpEst.fit.offset_ns = k * (Epoch - base) - late
    BY <1>1, <1>4, WindowOffset
  <2>2. local = base + t - l
    BY <1>1 DEF ApTsf
  <2> HIDE DEF base, k, local
  <2>3. k * MaxDelay \in Nat /\ late \in Nat /\ late <= k * MaxDelay
    BY <1>1, <2>1
  <2>4. k * (Epoch - base) + k * local = k * (Epoch + t) - k * l
    BY <1>1, <2>2
  <2>5. k * (Epoch - base) \in Int /\ k * local \in Int /\ k * (Epoch + t) \in Int /\ k * l \in Nat
        /\ k * (l + MaxDelay) = k * l + k * MaxDelay
    BY <1>1, <2>2
  <2>6. predicted \in Int /\ k * (Epoch + t) - predicted = k * l + late
    BY <2>1, <2>3, <2>4, <2>5
  <2>7. ServerNs(t) - predicted \in k * l .. k * (l + MaxDelay)
    BY <2>3, <2>5, <2>6 DEF ServerNs, k
  <2>8. l = 0 => predicted >= 0
    <3>1. k * MaxDelay <= k * (Epoch + t)
      BY <1>1, Scaled
    <3>2. k * 0 = 0
      BY <1>1
    <3> QED
      BY <2>3, <2>5, <2>6, <3>1, <3>2
  <2> HIDE DEF predicted
  <2> QED
    BY <1>1, <1>2, <1>4, <2>6, <2>7, <2>8 DEF k
<1> QED
  BY <1>3, <1>4

\* The time on the access point's TSF that the window gives for a server's time.
LEMMA LocalLate ==
  ASSUME NEW a, OneNetwork(a), Inv, NEW t \in Nat
  PROVE  LET y == local_us_at(udpEst, ServerNs(t))
         IN  /\ y = None <=> udpEst.n < MIN_SAMPLES
             /\ y = None \/ y - ApTsf(a, t) \in 0..MaxDelay
<1> DEFINE k == NsPerUs
           base == ApBase[a]
           num == ServerNs(t) - udpEst.fit.offset_ns
           y == local_us_at(udpEst, ServerNs(t))
<1> SUFFICES /\ y = None <=> udpEst.n < MIN_SAMPLES
             /\ y = None \/ y - ApTsf(a, t) \in 0..MaxDelay
  OBVIOUS
<1>1. k \in Nat \ {0} /\ base \in Nat /\ Epoch \in Nat /\ MaxDelay \in Nat
      /\ None \notin Int /\ udpEst.n \in Nat /\ MIN_SAMPLES \in Nat
  BY ClientAssumption, EstimatorAssumption DEF OneNetwork, Inv, RingsTrue, Ring
<1>2. y = IF udpEst.n < MIN_SAMPLES \/ num < 0 THEN None ELSE num \div k
  BY DEF local_us_at
<1> HIDE DEF y
<1>3. CASE udpEst.n < MIN_SAMPLES
  BY <1>2, <1>3
<1>4. CASE ~ (udpEst.n < MIN_SAMPLES)
  <2>1. PICK late \in 0 .. k * MaxDelay : udpEst.fit.offset_ns = k * (Epoch - base) - late
    BY <1>1, <1>4, WindowOffset
  <2> HIDE DEF base
  <2>2. num = late + k * (base + t)
    <3>1. k * (Epoch + t) - k * (Epoch - base) = k * (base + t) /\ k * (Epoch - base) \in Int
          /\ k * (Epoch + t) \in Int /\ k * (base + t) \in Int /\ k * MaxDelay \in Int
      BY <1>1
    <3> QED
      BY <2>1, <3>1 DEF ServerNs
  <2> HIDE DEF num, k
  <2>3. late \in Nat /\ late <= k * MaxDelay /\ k * MaxDelay \in Nat
    BY <1>1, <2>1
  <2>4. num \div k = late \div k + (base + t)
    BY <1>1, <2>2, <2>3, QuotientPlus
  <2>5. late \div k \in 0 .. MaxDelay
    <3>1. 0 * k <= late /\ late <= MaxDelay * k
      BY <1>1, <2>3
    <3>2. TruncDiv(late, k) \in Int /\ 0 <= TruncDiv(late, k) /\ TruncDiv(late, k) <= MaxDelay
      BY <1>1, <2>3, <3>1, TruncDivBetween
    <3> QED
      BY <1>1, <2>3, <3>2, TruncOfNat
  <2>6. num >= 0
    BY <1>1, <2>2, <2>3
  <2>7. y = num \div k
    BY <1>1, <1>2, <1>4, <2>2, <2>3, <2>6
  <2>8. num \div k \in Int /\ num \div k - (base + t) \in 0..MaxDelay
    <3> DEFINE q == late \div k
    <3> HIDE DEF q
    <3>1. q \in 0..MaxDelay /\ num \div k = q + (base + t)
      BY <2>4, <2>5 DEF q
    <3> QED
      BY <1>1, <3>1
  <2> QED
    BY <1>1, <1>4, <2>7, <2>8 DEF ApTsf, base
<1> QED
  BY <1>3, <1>4

-----------------------------------------------------------------------------
(* The clocks that rx_cb reads late, and the application's hook.           *)

\* Whether every callback that has read its clocks has also read the application's timer
\* once the hook is set.
HookSettled == HookAtInstall \/ ~ HookMidway

\* An anchor taken before the hook holds 0 for the timer.
TimersTrue ==
  /\ HookAtInstall => hook
  /\ extraRate # 0 => hook
  /\ HookSettled /\ hook /\ rx # None /\ rx.stage = "entered" =>
       rx.extra = ExtraTicks(rx.instant - InstantBase)
  /\ latest # None =>
       /\ \E b \in Network :
            latest.instant_us - InstantBase - (latest.own_tsf_us - StampTsf(b, 0))
              \in 0..MaxLatency
       /\ latest.extra_us \in {0, ExtraTicks(latest.instant_us - InstantBase)}
       /\ HookAtInstall => latest.extra_us = ExtraTicks(latest.instant_us - InstantBase)

\* The filters have seen one offset only when rx_cb runs without latency.
FiltersTrue(a) ==
  MaxLatency = 0 =>
    /\ Follows(instantFilter, ApBase[a] - InstantBase)
    /\ HookSettled => Follows(extraFilter, ApBase[a] - ExtraBase \div ExtraPerUs)

LEMMA TimersKept ==
  ASSUME Inv, TimersTrue, [Next]_vars
  PROVE  TimersTrue'
<1> USE DEF Inv
<1>1. OnlyWriters
  BY Writers
<1>2. HookAtInstall \in BOOLEAN /\ HookMidway \in BOOLEAN /\ InstantBase \in Int
      /\ MaxLatency \in Nat
  BY ClientAssumption
<1>3. (HookAtInstall => hook') /\ (hook => hook')
  BY <1>1 DEF OnlyWriters, set_beacon_hook, TimersTrue
<1>4. extraRate' # 0 => hook'
  BY <1>1, <1>3 DEF OnlyWriters, SetExtraRate, TimersTrue
<1>5. HookSettled /\ hook' /\ rx' # None /\ rx'.stage = "entered" =>
        rx'.extra = ExtraTicks(rx'.instant - InstantBase)
  <2> SUFFICES ASSUME HookSettled, hook', rx' # None, rx'.stage = "entered"
               PROVE  rx'.extra = ExtraTicks(rx'.instant - InstantBase)
    OBVIOUS
  <2>1. CASE EnterCallback
    <3>1. hook = hook' /\ rx'.extra = (IF hook THEN ExtraTicks(now) ELSE 0)
          /\ rx'.instant = InstantUs(now)
      BY <2>1 DEF EnterCallback, stored
    <3>2. InstantUs(now) - InstantBase = now
      BY <1>2 DEF InstantUs, TypeOK
    <3> QED
      BY <3>1, <3>2
  <2>2. CASE UNCHANGED rx
    <3>1. CASE hook
      BY <2>2, <3>1 DEF TimersTrue, ExtraTicks
    <3>2. CASE ~ hook
      <4>1. set_beacon_hook
        BY <1>1, <3>2 DEF OnlyWriters
      <4>2. HookMidway
        BY <2>2, <4>1 DEF set_beacon_hook
      <4> QED
        BY <3>2, <4>2 DEF HookSettled, TimersTrue
    <3> QED
      BY <3>1, <3>2
  <2>3. ASSUME NEW f \in Frames, Receive(f) PROVE FALSE
    BY <2>3 DEF Receive
  <2>4. CASE EndCallback
    BY <2>4 DEF EndCallback, UseBeacon, RejectBeacon, MatchPacket, IgnoreFrame, Prologue
  <2> QED
    BY <1>1, <2>1, <2>2, <2>3, <2>4 DEF OnlyWriters
<1>6. latest' # None =>
        /\ \E b \in Network :
             latest'.instant_us - InstantBase - (latest'.own_tsf_us - StampTsf(b, 0))
               \in 0..MaxLatency
        /\ latest'.extra_us \in {0, ExtraTicks(latest'.instant_us - InstantBase)}
        /\ HookAtInstall => latest'.extra_us = ExtraTicks(latest'.instant_us - InstantBase)
  <2>1. CASE UNCHANGED anchor
    BY <2>1 DEF anchor, TimersTrue, ExtraTicks
  <2>2. CASE UseBeacon
    <3>1. /\ rx # None /\ rx.stage = "entered" /\ rx.frame.kind = "beacon"
          /\ latest' = BeaconAnchor
      BY <2>2 DEF UseBeacon, Prologue
    <3>2. /\ latest'.own_tsf_us = StampTsf(follows, rx.at) /\ latest'.instant_us = rx.instant
          /\ latest'.extra_us = rx.extra /\ rx.at \in 0..now /\ now - rx.at <= MaxLatency
          /\ now \in Nat /\ follows \in Network
      BY <3>1, AnchorRead, CallbackReads
    <3>3. PICK t \in rx.at .. now : rx.instant = InstantUs(t) /\ rx.extra \in {0, ExtraTicks(t)}
      BY <3>1 DEF Receiving
    <3>4. StampTsf(follows, 0) \in Nat /\ StampTsf(follows, rx.at) = StampTsf(follows, 0) + rx.at
      BY <3>2, StampClock
    <3>5. latest'.instant_us = InstantBase + t /\ latest'.instant_us - InstantBase = t
      BY <1>2, <3>2, <3>3 DEF InstantUs
    <3>6. latest'.instant_us - InstantBase - (latest'.own_tsf_us - StampTsf(follows, 0))
            \in 0..MaxLatency
      BY <1>2, <3>2, <3>3, <3>4, <3>5
    <3>7. HookAtInstall => rx.extra = ExtraTicks(rx.instant - InstantBase)
      BY <3>1 DEF TimersTrue, HookSettled
    <3> QED
      BY <3>2, <3>3, <3>5, <3>6, <3>7
  <2> QED
    BY <1>1, <2>1, <2>2 DEF OnlyWriters
<1> QED
  BY <1>3, <1>4, <1>5, <1>6 DEF TimersTrue, ExtraTicks

\* The application's timer in microseconds.
LEMMA ExtraMicros ==
  ASSUME NEW t \in Nat
  PROVE  /\ ExtraInUs(ExtraTicks(t), ExtraPerUs) = ExtraBase \div ExtraPerUs + t
         /\ ExtraBase \div ExtraPerUs \in Nat
<1> DEFINE ticks == ExtraBase + ExtraPerUs * t
<1>1. ExtraBase \in Nat /\ ExtraPerUs \in Nat \ {0}
  BY ClientAssumption
<1>2. ticks \in Nat
  BY <1>1
<1>3. ticks \div ExtraPerUs = ExtraBase \div ExtraPerUs + t
  BY <1>1, QuotientPlus
<1>4. ExtraBase \div ExtraPerUs \in Nat
  BY <1>1
<1>5. ExtraInUs(ExtraTicks(t), ExtraPerUs) = TruncDiv(ticks, ExtraPerUs)
  BY DEF ExtraInUs, ExtraTicks
<1> HIDE DEF ticks
<1> QED
  BY <1>1, <1>2, <1>3, <1>4, <1>5, TruncOfNat

LEMMA FiltersFollow ==
  ASSUME NEW a, OneNetwork(a), Inv, TimersTrue, FiltersTrue(a), OnlyWriters
  PROVE  FiltersTrue(a)'
<1> USE DEF Inv
<1> DEFINE known == ExtraBase \div ExtraPerUs
<1>1. SUFFICES ASSUME MaxLatency = 0
               PROVE  /\ Follows(instantFilter', ApBase[a] - InstantBase)
                      /\ HookSettled => Follows(extraFilter', ApBase[a] - known)
  BY DEF FiltersTrue, Follows
<1>2. /\ Follows(instantFilter, ApBase[a] - InstantBase)
      /\ HookSettled => Follows(extraFilter, ApBase[a] - known)
  BY <1>1 DEF FiltersTrue
<1>3. CASE UNCHANGED anchor
  BY <1>2, <1>3 DEF anchor
<1>4. CASE UseBeacon
  <2> DEFINE r == BeaconAnchor
             x == ExtraInUs(r.extra_us, extraRate)
  <2>1. /\ rx # None /\ rx.stage = "entered" /\ rx.frame.kind = "beacon" /\ rx.frame.bssid = locked
        /\ instantFilter' = AB!observe(instantFilter, InstantAlpha, InstantBeta,
                                      r.instant_us, r.ap_tsf_us - r.instant_us)
        /\ extraFilter' = IF extraRate = 0 THEN extraFilter
                          ELSE AB!observe(extraFilter, ExtraAlpha, ExtraBeta, x, r.ap_tsf_us - x)
    BY <1>4 DEF UseBeacon, Prologue, pass
  <2>2. /\ r.ap_tsf_us = ApTsf(locked, rx.at) /\ r.instant_us = rx.instant /\ r.extra_us = rx.extra
        /\ rx.frame.bssid \in AP /\ rx.at \in 0..now /\ now - rx.at <= MaxLatency /\ now \in Nat
    BY <2>1, AnchorRead, CallbackReads
  <2>3. locked = a
    BY <2>1, <2>2, ClientAssumption DEF OneNetwork, TypeOK
  <2>4. rx.at \in Nat /\ InstantBase \in Int /\ ApBase[a] \in Int
    BY <2>2, ClientAssumption DEF OneNetwork
  <2>5. rx.instant = InstantBase + rx.at
    <3>1. PICK t \in rx.at .. now : rx.instant = InstantUs(t)
      BY <2>1 DEF Receiving
    <3>2. t = rx.at
      BY <1>1, <2>2, <3>1
    <3> QED
      BY <3>1, <3>2 DEF InstantUs
  <2>6. r.ap_tsf_us - r.instant_us = ApBase[a] - InstantBase
    BY <2>2, <2>3, <2>4, <2>5 DEF ApTsf
  <2>7. {InstantAlpha, InstantBeta, ExtraAlpha, ExtraBeta} \subseteq Nat \ {0}
    BY ClientAssumption
  <2>8. instantFilter \in Filter /\ extraFilter \in Filter /\ extraRate \in {0, ExtraPerUs}
    BY DEF TypeOK
  <2>9. Follows(instantFilter', ApBase[a] - InstantBase)
    <3>1. r.instant_us \in Int /\ ApBase[a] - InstantBase \in Int
      BY <2>2, <2>4, <2>5
    <3> HIDE DEF r
    <3> QED
      BY <1>2, <2>1, <2>6, <2>7, <2>8, <3>1, FollowsKept
  <2>10. ASSUME HookSettled PROVE Follows(extraFilter', ApBase[a] - known)
    <3>1. CASE extraRate = 0
      BY <1>2, <2>1, <2>10, <3>1
    <3>2. CASE extraRate # 0
      <4>1. rx.extra = ExtraTicks(rx.at) /\ extraRate = ExtraPerUs
        <5>1. rx.instant - InstantBase = rx.at
          BY <2>4, <2>5
        <5> QED
          BY <2>1, <2>8, <2>10, <3>2, <5>1 DEF TimersTrue
      <4>2. x = known + rx.at /\ known \in Nat
        BY <2>2, <2>4, <4>1, ExtraMicros
      <4> HIDE DEF known, x
      <4>3. r.ap_tsf_us - x = ApBase[a] - known /\ x \in Int /\ ApBase[a] - known \in Int
        BY <2>2, <2>3, <2>4, <4>2 DEF ApTsf
      <4> HIDE DEF r
      <4> QED
        BY <1>2, <2>1, <2>7, <2>8, <2>10, <3>2, <4>3, FollowsKept
    <3> QED
      BY <3>1, <3>2
  <2> QED
    BY <2>9, <2>10
<1> QED
  BY <1>3, <1>4 DEF OnlyWriters

-----------------------------------------------------------------------------
(* The halves of a query in a network of one access point.                 *)

\* Where the first half of a query about the time t puts it on the access point's TSF: a
\* reading of mac_tsf_us as much after t as that is ahead of the stamps, one of the timer
\* through an anchor with the hook before it.
ReadingOk(a, path, t, ap, hooked) ==
  ap # None =>
    /\ path = "own_tsf" => ap = ApTsf(a, t + Gap(a))
    /\ path = "extra" /\ (hooked \/ HookAtInstall) => ApTsf(a, t) - ap \in 0..MaxLatency
    /\ path \in {"instant", "extra_filtered"} /\ MaxLatency = 0 /\ HookSettled =>
         ap = ApTsf(a, t)
    /\ path \in {"own_tsf_at", "local_us_at"} => ap - ApTsf(a, t) \in 0..MaxDelay

AnswerOk(a, path, t, answer, hooked) ==
  answer # None =>
    /\ path = "own_tsf" => AnswerLate(t + Gap(a), answer)
    /\ path = "extra" /\ (hooked \/ HookAtInstall) =>
         ServerNs(t) - answer \in 0 .. NsPerUs * (MaxDelay + MaxLatency)
    /\ path \in {"instant", "extra_filtered"} /\ MaxLatency = 0 /\ HookSettled =>
         AnswerLate(t, answer)
    /\ path = "own_tsf_at" => answer - StampTsf(a, t) \in 0..MaxDelay
    /\ path = "local_us_at" /\ MaxLatency = 0 => answer - InstantUs(t) \in 0..MaxDelay

QueryTrue(a) ==
  exec # None =>
    /\ exec.task = "query" => ReadingOk(a, exec.path, exec.at, exec.ap, exec.hooked)
    /\ exec.task = "answered" => AnswerOk(a, exec.path, exec.at, exec.answer, exec.hooked)

\* A filter that follows the offset of a clock to the access point's TSF converts its
\* readings exactly, and refuses them only until it is initialized.
LEMMA PredictedTrue ==
  ASSUME NEW a, OneNetwork(a), NEW f \in Filter, NEW base \in Int, NEW t \in Nat,
         Follows(f, ApBase[a] - base)
  PROVE  Predicted(f, base + t) = IF f.initialized THEN ApTsf(a, t) ELSE None
<1> DEFINE x == base + t
           offset == ApBase[a] - base
<1>1. ApBase[a] \in Nat /\ None \notin Int
  BY ClientAssumption, EstimatorAssumption DEF OneNetwork
<1>2. x \in Int /\ offset \in Int /\ x + offset = ApTsf(a, t) /\ ~ (ApTsf(a, t) < 0)
  BY <1>1 DEF ApTsf
<1> HIDE DEF x, offset
<1>3. CASE f.initialized
  <2>1. AB!predict(f, x) = offset
    BY <1>2, <1>3, FollowsPredicts DEF offset
  <2>2. AB!predict(f, x) # None
    BY <1>1, <1>2, <2>1
  <2> QED
    BY <1>2, <1>3, <2>1, <2>2 DEF Predicted, x
<1>4. CASE ~ f.initialized
  BY <1>4 DEF Predicted, AB!predict
<1> QED
  BY <1>3, <1>4

\* A hooked anchor's own reading of the application's timer is at most MaxLatency late, so a
\* reading that is converted through it comes out at most as much early.
LEMMA ExtraTrue ==
  ASSUME NEW a, OneNetwork(a), Inv, TimersTrue, Hooked \/ HookAtInstall, NEW t \in Nat
  PROVE  LET ap == Reading("extra", t)
         IN  /\ ap # None => latest # None /\ ApTsf(a, t) - ap \in 0..MaxLatency
             /\ latest # None /\ MaxLatency = 0 => ap # None
<1> DEFINE ap == latest.ap_tsf_us + TruncDiv(ExtraTicks(t) - latest.extra_us, ExtraPerUs)
           x == Reading("extra", t)
<1>1. x = IF latest = None \/ ap < 0 THEN None ELSE ap
  BY ClientAssumption DEF Reading, extra_to_ap_tsf
<1> SUFFICES /\ x # None => latest # None /\ ApTsf(a, t) - x \in 0..MaxLatency
             /\ latest # None /\ MaxLatency = 0 => x # None
  OBVIOUS
<1> HIDE DEF x
<1>2. CASE latest = None
  BY <1>1, <1>2
<1>3. CASE latest # None
  <2>1. latest \in Readings
    BY <1>3 DEF Inv, TypeOK
  <2>2. PICK b \in Network, c \in Network, s \in 0..now : AnchorOf(latest, b, c, s)
    BY <1>3 DEF Inv, ChannelTrue, OfOneReception
  <2>3. b = a /\ c = a /\ ApBase[a] \in Nat /\ InstantBase \in Int
        /\ ExtraPerUs \in Nat \ {0} /\ ExtraBase \in Int /\ MaxLatency \in Nat /\ None \notin Int /\ s \in Nat
    BY ClientAssumption, EstimatorAssumption DEF OneNetwork
  <2> DEFINE u == latest.instant_us - InstantBase
             d == t - u
  <2>4. latest.ap_tsf_us = ApBase[a] + s /\ latest.own_tsf_us = StampTsf(a, 0) + s
        /\ StampTsf(a, 0) \in Nat
    BY <2>2, <2>3, StampClock DEF AnchorOf, ApTsf
  <2>5. u \in Int /\ u - s \in 0..MaxLatency /\ latest.extra_us = ExtraTicks(u)
    <3>1. u - (latest.own_tsf_us - StampTsf(a, 0)) \in 0..MaxLatency
      BY <1>3 DEF TimersTrue, OneNetwork
    <3>2. latest.extra_us = ExtraTicks(u)
      BY <1>3 DEF TimersTrue, Hooked
    <3>3. u \in Int
      BY <2>1, <2>3, ReadingsFields
    <3> HIDE DEF u
    <3> QED
      BY <2>3, <2>4, <3>1, <3>2, <3>3
  <2> HIDE DEF u
  <2>6. d \in Int /\ ExtraTicks(t) - latest.extra_us = ExtraPerUs * d
    <3>1. ExtraPerUs * t - ExtraPerUs * u = ExtraPerUs * d /\ ExtraPerUs * t \in Int
          /\ ExtraPerUs * u \in Int
      BY <2>3, <2>5
    <3> QED
      BY <2>3, <2>5, <3>1 DEF ExtraTicks
  <2>7. TruncDiv(ExtraTicks(t) - latest.extra_us, ExtraPerUs) = d
    <3> HIDE DEF d
    <3> QED
      BY <2>3, <2>6, TruncExact
  <2>8. ap = ApBase[a] + s + (t - u)
    BY <2>4, <2>7
  <2> HIDE DEF ap
  <2>9. ap \in Int /\ ApTsf(a, t) - ap \in 0..MaxLatency /\ (MaxLatency = 0 => ~ (ap < 0))
    BY <2>3, <2>5, <2>8 DEF ApTsf
  <2> QED
    BY <1>1, <1>3, <2>3, <2>9
<1> QED
  BY <1>2, <1>3

LEMMA ReadingTrue ==
  ASSUME NEW a, OneNetwork(a), Inv, TimersTrue, FiltersTrue(a), NEW t \in Nat,
         NEW path \in {"own_tsf", "instant", "extra", "extra_filtered"}
  PROVE  /\ ReadingOk(a, path, t, Reading(path, t), Hooked)
         /\ path = "own_tsf" /\ latest # None => Reading(path, t) # None
<1>1. CASE path = "own_tsf"
  <2> DEFINE x == own_tsf_to_ap_tsf(OwnTsf(t))
  <2>1. Reading(path, t) = x
    BY <1>1 DEF Reading
  <2>2. OwnTsf(t) = StampTsf(a, t + Gap(a)) /\ t + Gap(a) \in Nat /\ a \in Network
    BY ReadingOfOwnTsf DEF OneNetwork, Inv, TypeOK
  <2>3. /\ x = None <=> latest = None
        /\ x # None => x = ApTsf(a, t + Gap(a))
    BY <2>2, Converted, OneStamp DEF OneNetwork
  <2> QED
    BY <1>1, <2>1, <2>3 DEF ReadingOk
<1>2. CASE path = "instant"
  <2>1. Reading(path, t) = Predicted(instantFilter, InstantBase + t)
    BY <1>2 DEF Reading, InstantUs
  <2>2. MaxLatency = 0 /\ Reading(path, t) # None => Reading(path, t) = ApTsf(a, t)
    <3>1. instantFilter \in Filter /\ InstantBase \in Int
      BY ClientAssumption DEF Inv, TypeOK
    <3> QED
      BY <2>1, <3>1, PredictedTrue DEF FiltersTrue
  <2> QED
    BY <1>2, <2>2 DEF ReadingOk
<1>3. CASE path = "extra"
  BY <1>3, ExtraTrue DEF ReadingOk
<1>4. CASE path = "extra_filtered"
  <2> DEFINE known == ExtraBase \div ExtraPerUs
  <2>1. Reading(path, t) = Predicted(extraFilter, known + t) /\ known \in Int
    BY <1>4, ExtraMicros DEF Reading
  <2> HIDE DEF known
  <2>2. MaxLatency = 0 /\ HookSettled /\ Reading(path, t) # None => Reading(path, t) = ApTsf(a, t)
    <3>1. extraFilter \in Filter
      BY DEF Inv, TypeOK
    <3> QED
      BY <2>1, <3>1, PredictedTrue DEF FiltersTrue, known
  <2> QED
    BY <1>4, <2>2 DEF ReadingOk
<1> QED
  BY <1>1, <1>2, <1>3, <1>4

\* The second halves of the inverse queries.
LEMMA InverseTrue ==
  ASSUME NEW a, OneNetwork(a), Inv, FiltersTrue(a), NEW t \in Nat,
         NEW ap \in Int, ap - ApTsf(a, t) \in 0..MaxDelay
  PROVE  /\ ap_tsf_to_own_tsf(ap) = None <=> latest = None
         /\ latest # None => ap_tsf_to_own_tsf(ap) - StampTsf(a, t) \in 0..MaxDelay
         /\ ~ instantFilter.initialized => ap_tsf_to_instant(ap) = None
         /\ MaxLatency = 0 /\ instantFilter.initialized =>
              /\ ap_tsf_to_instant(ap) # None
              /\ ap_tsf_to_instant(ap) - InstantUs(t) \in 0..MaxDelay
<1>1. ApBase[a] \in Nat /\ InstantBase \in Nat /\ MaxDelay \in Nat /\ None \notin Int
  BY ClientAssumption, EstimatorAssumption DEF OneNetwork
<1>2. ASSUME latest = None PROVE ap_tsf_to_own_tsf(ap) = None
  BY <1>2 DEF ap_tsf_to_own_tsf
<1>3. ASSUME latest # None
      PROVE  ap_tsf_to_own_tsf(ap) # None /\ ap_tsf_to_own_tsf(ap) - StampTsf(a, t) \in 0..MaxDelay
  <2> DEFINE own == latest.own_tsf_us + (ap - latest.ap_tsf_us)
  <2>1. PICK b \in Network, c \in Network, s \in 0..now : AnchorOf(latest, b, c, s)
    BY <1>3 DEF Inv, ChannelTrue, OfOneReception
  <2>2. b = a /\ c = a /\ s \in Nat /\ a \in Network
    BY DEF OneNetwork
  <2>3. /\ latest.ap_tsf_us = ApBase[a] + s /\ latest.own_tsf_us = StampTsf(a, 0) + s
        /\ StampTsf(a, 0) \in Nat /\ StampTsf(a, t) = StampTsf(a, 0) + t
    BY <2>1, <2>2, StampClock DEF AnchorOf, ApTsf
  <2>4. ap_tsf_to_own_tsf(ap) = IF latest = None \/ own < 0 THEN None ELSE own
    BY DEF ap_tsf_to_own_tsf
  <2>5. own \in Nat /\ own - StampTsf(a, t) \in 0..MaxDelay
    <3>1. own = StampTsf(a, 0) + (ap - ApBase[a])
      BY <1>1, <2>2, <2>3
    <3> HIDE DEF own
    <3> QED
      BY <1>1, <2>3, <3>1 DEF ApTsf
  <2> HIDE DEF own
  <2> QED
    BY <1>1, <1>3, <2>4, <2>5
<1>4. CASE MaxLatency = 0 /\ instantFilter.initialized
  <2> DEFINE offset == ApBase[a] - InstantBase
             inst1 == ap - AB!predict(instantFilter, ap)
             inst2 == ap - AB!predict(instantFilter, inst1)
  <2>1. instantFilter \in Filter /\ Follows(instantFilter, offset) /\ offset \in Int
    <3>1. instantFilter \in Filter
      BY DEF Inv, TypeOK
    <3>2. Follows(instantFilter, offset)
      BY <1>4 DEF FiltersTrue
    <3> QED
      BY <1>1, <3>1, <3>2
  <2>2. \A x \in Int : AB!predict(instantFilter, x) = offset
    BY <1>4, <2>1, FollowsPredicts
  <2>3. inst1 = ap - offset
    BY <2>2
  <2>4. inst1 \in Int
    BY <2>1, <2>3
  <2>5. inst2 = ap - offset
    <3> HIDE DEF inst1
    <3> QED
      BY <2>2, <2>4
  <2>6. ap_tsf_to_instant(ap) = IF ~ instantFilter.initialized \/ inst2 < 0 THEN None ELSE inst2
    BY DEF ap_tsf_to_instant
  <2> HIDE DEF inst1, inst2
  <2>7. inst2 \in Nat /\ inst2 - InstantUs(t) \in 0..MaxDelay
    BY <1>1, <2>5 DEF InstantUs, ApTsf
  <2>8. ap_tsf_to_instant(ap) = inst2 /\ inst2 # None
    BY <1>1, <1>4, <2>6, <2>7
  <2> QED
    BY <1>2, <1>3, <1>4, <2>7, <2>8
<1>5. CASE ~ instantFilter.initialized
  BY <1>2, <1>3, <1>5 DEF ap_tsf_to_instant
<1> QED
  BY <1>2, <1>3, <1>4, <1>5

LEMMA AnswerTrue ==
  ASSUME NEW a, OneNetwork(a), Inv, FiltersTrue(a), NEW t \in Nat, NEW path \in Paths,
         NEW ap \in Int \cup {None}, NEW hooked \in BOOLEAN,
         ReadingOk(a, path, t, ap, hooked)
  PROVE  AnswerOk(a, path, t, Answer(path, ap), hooked)
<1>1. CASE ap = None
  BY <1>1 DEF Answer, AnswerOk
<1>2. CASE ap # None
  <2>1. ApBase[a] \in Nat /\ MaxDelay \in Nat /\ MaxLatency \in Nat /\ NsPerUs \in Nat
        /\ ap \in Int /\ ApTsf(a, t) \in Int
    BY <1>2, ClientAssumption, EstimatorAssumption DEF OneNetwork, ApTsf
  <2>0. Gap(a) \in Nat /\ t + Gap(a) \in Nat
    BY StampClock DEF OneNetwork
  <2>2. ASSUME NEW l \in 0..MaxLatency, NEW u \in Nat, ap = ApTsf(a, u) - l,
               path \in {"own_tsf", "extra", "instant", "extra_filtered"},
               Answer(path, ap) # None
        PROVE  ServerNs(u) - Answer(path, ap) \in 0 .. NsPerUs * (l + MaxDelay)
    <3>1. Answer(path, ap) = synced_ns_at(udpEst, ApTsf(a, u) - l)
      BY <1>2, <2>2 DEF Answer
    <3>2. ServerNs(u) - Answer(path, ap) \in NsPerUs * l .. NsPerUs * (l + MaxDelay)
      BY <2>1, <2>2, <3>1, SyncedLate
    <3>3. NsPerUs * l \in Nat
      BY <2>1
    <3> QED
      BY <3>2, <3>3
  <2>3. ASSUME NEW u \in Nat, ap = ApTsf(a, u), Answer(path, ap) # None,
               path \in {"own_tsf", "extra", "instant", "extra_filtered"}
        PROVE  AnswerLate(u, Answer(path, ap))
    <3>1. ap = ApTsf(a, u) - 0 /\ 0 \in 0..MaxLatency /\ 0 + MaxDelay = MaxDelay
      BY <2>1, <2>3
    <3>2. ServerNs(u) - Answer(path, ap) \in 0 .. NsPerUs * (0 + MaxDelay)
      BY <2>2, <2>3, <3>1
    <3> QED
      BY <3>1, <3>2 DEF AnswerLate
  <2>4. CASE path \in {"own_tsf", "instant", "extra_filtered"}
    BY <1>2, <2>0, <2>3, <2>4 DEF ReadingOk, AnswerOk
  <2>5. CASE path = "extra"
    <3> DEFINE l == ApTsf(a, t) - ap
    <3>1. SUFFICES ASSUME hooked \/ HookAtInstall, Answer(path, ap) # None
                   PROVE  ServerNs(t) - Answer(path, ap) \in 0 .. NsPerUs * (MaxDelay + MaxLatency)
      BY <2>5 DEF AnswerOk
    <3>2. l \in 0..MaxLatency /\ ap = ApTsf(a, t) - l
      BY <1>2, <2>1, <2>5, <3>1 DEF ReadingOk
    <3> HIDE DEF l
    <3>3. ServerNs(t) - Answer(path, ap) \in 0 .. NsPerUs * (l + MaxDelay)
      BY <2>2, <2>5, <3>1, <3>2
    <3>4. NsPerUs * (l + MaxDelay) <= NsPerUs * (MaxDelay + MaxLatency)
          /\ NsPerUs * (l + MaxDelay) \in Int /\ NsPerUs * (MaxDelay + MaxLatency) \in Int
      BY <2>1, <3>2, Scaled
    <3> QED
      BY <3>3, <3>4
  <2>6. CASE path = "own_tsf_at"
    <3>1. Answer(path, ap) = ap_tsf_to_own_tsf(ap) /\ ap - ApTsf(a, t) \in 0..MaxDelay
      BY <1>2, <2>6 DEF Answer, ReadingOk
    <3>2. Answer(path, ap) # None => Answer(path, ap) - StampTsf(a, t) \in 0..MaxDelay
      BY <2>1, <3>1, InverseTrue
    <3> QED
      BY <2>6, <3>2 DEF AnswerOk
  <2>7. CASE path = "local_us_at"
    <3>1. Answer(path, ap) = ap_tsf_to_instant(ap) /\ ap - ApTsf(a, t) \in 0..MaxDelay
      BY <1>2, <2>7 DEF Answer, ReadingOk
    <3>2. MaxLatency = 0 /\ Answer(path, ap) # None => Answer(path, ap) - InstantUs(t) \in 0..MaxDelay
      BY <2>1, <3>1, InverseTrue
    <3> QED
      BY <2>7, <3>2 DEF AnswerOk
  <2> QED
    BY <2>4, <2>5, <2>6, <2>7 DEF Paths
<1> QED
  BY <1>1, <1>2

LEMMA QueryKept ==
  ASSUME NEW a, OneNetwork(a), Inv, TimersTrue, FiltersTrue(a), QueryTrue(a), [Next]_vars
  PROVE  QueryTrue(a)'
<1> USE DEF Inv
<1>1. OnlyWriters /\ now \in Nat
  BY Writers, TimePasses
<1>2. exec # None => exec \in Task
  BY DEF TypeOK
<1>3. CASE exec' = None
  BY <1>3 DEF QueryTrue
<1>4. CASE UNCHANGED exec
  BY <1>4 DEF QueryTrue
<1>5. CASE consume_samples \/ poll_ap_bssid
  BY <1>3, <1>5 DEF consume_samples, TakeEvent, ObserveBeacon, ConvertPacket, ObservePacket,
    poll_ap_bssid, PollAssociation, LockBssid, Proceed, QueryTrue
<1>6. ASSUME NEW t \in Near, SetExtraRate(t) PROVE QueryTrue(a)'
  BY <1>6 DEF SetExtraRate, Proceed, QueryTrue
<1>7. \A t \in Near : t \in Nat
  BY <1>1, ClientAssumption DEF Near, Least
<1>8. ASSUME NEW path \in {"own_tsf", "instant", "extra", "extra_filtered"}, NEW t \in Nat,
             Ask(path, t)
      PROVE  QueryTrue(a)'
  <2> DEFINE ap == Reading(path, t)
             h == path = "extra" /\ Hooked
  <2>1. exec' = [task |-> "query", path |-> path, at |-> t, ap |-> ap, hooked |-> h]
    BY <1>8 DEF Ask, Proceed
  <2>2. ReadingOk(a, path, t, ap, Hooked)
    BY ReadingTrue
  <2>3. ReadingOk(a, path, t, ap, h)
    BY <2>2 DEF ReadingOk
  <2> HIDE DEF ap, h
  <2> QED
    BY <2>1, <2>3 DEF QueryTrue, ReadingOk
<1>9. CASE HalfQuery
  <2>1. CASE PredictExtra
    <3>1. exec # None /\ exec.task = "predict" /\ Ask("extra_filtered", exec.at)
      BY <2>1 DEF PredictExtra, Idle
    <3>2. exec.at \in Nat
      BY <1>2, <3>1, TaskKinds
    <3> QED
      BY <1>8, <3>1, <3>2
  <2>2. ASSUME NEW path \in {"own_tsf_at", "local_us_at"}, NEW t \in Near, AskTime(path, t)
        PROVE  QueryTrue(a)'
    <3> DEFINE ap == local_us_at(udpEst, ServerNs(t))
    <3>1. exec' = [task |-> "query", path |-> path, at |-> t, ap |-> ap, hooked |-> FALSE]
      BY <2>2 DEF AskTime, Proceed
    <3>2. ap = None \/ ap - ApTsf(a, t) \in 0..MaxDelay
      BY <1>7, LocalLate
    <3> HIDE DEF ap
    <3> QED
      BY <3>1, <3>2 DEF QueryTrue, ReadingOk
  <2>3. CASE AnswerQuery
    <3>1. /\ exec # None /\ exec.task = "query"
          /\ exec' = [task |-> "answered", path |-> exec.path, at |-> exec.at,
                      answer |-> Answer(exec.path, exec.ap), hooked |-> exec.hooked]
      BY <2>3 DEF AnswerQuery, Proceed, Idle
    <3>2. exec.at \in Nat /\ exec.ap \in Int \cup {None} /\ exec.path \in Paths
          /\ exec.hooked \in BOOLEAN
      BY <1>2, <3>1, TaskKinds, ClientAssumption DEF TaskTrue
    <3>3. ReadingOk(a, exec.path, exec.at, exec.ap, exec.hooked)
      BY <3>1 DEF QueryTrue
    <3>4. AnswerOk(a, exec.path, exec.at, Answer(exec.path, exec.ap), exec.hooked)
      BY <3>2, <3>3, AnswerTrue
    <3> QED
      BY <3>1, <3>4 DEF QueryTrue, AnswerOk
  <2>4. CASE Return
    BY <1>3, <2>4 DEF Return, Proceed
  <2> QED
    BY <1>7, <1>8, <1>9, <2>1, <2>2, <2>3, <2>4 DEF HalfQuery, AskReading
<1> QED
  BY <1>1, <1>3, <1>4, <1>5, <1>6, <1>9 DEF OnlyWriters

\* What is inductive of a network of one access point, beside what holds in any.
OneTsf(a) == TimersTrue /\ FiltersTrue(a) /\ QueryTrue(a)

LEMMA InitOneTsf == ASSUME NEW a PROVE Init => OneTsf(a)
BY DEF Init, OneTsf, TimersTrue, FiltersTrue, QueryTrue, Follows, AB!new

LEMMA OneTsfCorrect ==
  ASSUME NEW a, OneNetwork(a)
  PROVE  Spec => [](Inv /\ OneTsf(a))
<1>1. Init => OneTsf(a)
  BY InitOneTsf
<1>2. Inv /\ OneTsf(a) /\ [Next]_vars => OneTsf(a)'
  BY Writers, TimersKept, FiltersFollow, QueryKept DEF OneTsf
<1> QED
  BY <1>1, <1>2, InvCorrect, PTL DEF Spec

\* With one access point in the network the window of UDP_EST is on one timebase, although
\* beacons of the others are heard as well.
THEOREM WindowOfOneTsf ==
  ASSUME NEW a, OneNetwork(a)
  PROVE  Spec => []OneTimebase
<1>1. Inv => OneTimebase
  BY OneStamp DEF Inv, RingsTrue, SampleTrue, OneTimebase, OneNetwork
<1> QED
  BY <1>1, InvCorrect, PTL

\* The diagnostic estimator shows how far the access point's TSF is ahead of the stamps, and
\* the smoothed delta how far Instant is ahead of mac_tsf_us: the differences of two pairs of
\* clocks, of which neither says anything of the Gap between stamp and mac_tsf_us.
THEOREM DifferencesKept ==
  ASSUME NEW a, OneNetwork(a)
  PROVE  Spec => []DifferencesTrue
<1>1. Inv => DifferencesTrue
  BY BeaconsFitted DEF Inv, DifferencesTrue
<1> QED
  BY <1>1, InvCorrect, PTL

\* Whichever anchor the first half of a query reads and whatever rx_cb does before the
\* second, an answer about a reading of mac_tsf_us is ahead of its time by exactly the Gap
\* between mac_tsf_us and the stamps, and an answer about the application's timer is right
\* if the anchor that was read has been taken with the hook, whenever that was set.
THEOREM AnchoredAnswers ==
  ASSUME NEW a, OneNetwork(a)
  PROVE  Spec => []AnchoredAnswersTrue
<1>1. Inv /\ OneTsf(a) => AnchoredAnswersTrue
  BY OneFollowed DEF Inv, OneTsf, QueryTrue, AnswerOk, AnchoredAnswersTrue, Answered
<1> QED
  BY <1>1, OneTsfCorrect, PTL

\* The queries that ask for a reading: own_tsf_at gives what the stamps' clock shows at that
\* time, which is the Gap before what mac_tsf_us shows, and local_us_at Instant.
THEOREM InverseAnswers ==
  ASSUME NEW a, OneNetwork(a)
  PROVE  Spec => []InverseAnswersTrue
<1>1. ASSUME Inv, OneTsf(a) PROVE InverseAnswersTrue
  <2>1. SUFFICES ASSUME exec # None, exec.task = "answered", exec.answer # None
                 PROVE  /\ exec.path = "own_tsf_at" =>
                             exec.answer - (OwnTsf(exec.at) - Gap(follows)) \in 0..MaxDelay
                        /\ exec.path = "local_us_at" /\ MaxLatency = 0 =>
                             exec.answer - InstantUs(exec.at) \in 0..MaxDelay
    BY DEF InverseAnswersTrue, Answered
  <2>2. AnswerOk(a, exec.path, exec.at, exec.answer, exec.hooked)
    BY <1>1, <2>1 DEF OneTsf, QueryTrue
  <2>3. exec.at \in Nat
    BY <1>1, <2>1, TaskKinds DEF Inv, TypeOK
  <2>4. OwnTsf(exec.at) - Gap(follows) = StampTsf(a, exec.at)
    <3>1. follows = a /\ a \in Network
      BY <1>1, OneFollowed DEF Inv, OneNetwork
    <3>2. StampTsf(a, exec.at) \in Nat /\ Gap(a) \in Nat
          /\ OwnTsf(exec.at) = StampTsf(a, exec.at) + Gap(a)
      BY <1>1, <2>3, <3>1, OwnClock, StampClock DEF Inv
    <3> QED
      BY <3>1, <3>2
  <2> QED
    BY <2>1, <2>2, <2>4 DEF AnswerOk
<1> QED
  BY <1>1, OneTsfCorrect, PTL

\* Without latency, and unless the hook is registered while a callback is blocked, the
\* filters answer as exactly as the anchor.
THEOREM FilteredAnswers ==
  ASSUME NEW a, OneNetwork(a), MaxLatency = 0, HookSettled
  PROVE  Spec => []FilteredAnswersTrue
<1>1. OneTsf(a) => FilteredAnswersTrue
  BY DEF OneTsf, QueryTrue, AnswerOk, FilteredAnswersTrue, Answered
<1> QED
  BY <1>1, OneTsfCorrect, PTL

-----------------------------------------------------------------------------
(* The client implements SyncedTime.                                       *)

\* What a conversion on a path needs besides the estimator.
HasBasis(path) ==
  /\ path \in {"own_tsf", "own_tsf_at", "extra"} => latest # None
  /\ path \in {"instant", "local_us_at"} => instantFilter.initialized
  /\ path = "extra_filtered" => extraFilter.initialized

InversePaths == {"own_tsf_at", "local_us_at"}

\* A reading that was converted could be converted.
BasisKnown ==
  exec # None /\ exec.task = "query" /\ exec.ap # None /\ exec.path \notin InversePaths =>
    HasBasis(exec.path)

\* The conditions under which no path is worse than its promise; the paths of mac_tsf_us
\* keep it only where that is the stamps' clock.
Exact(a) ==
  /\ OneNetwork(a)
  /\ MaxLatency = 0
  /\ Gap(a) = 0 \/ Queries \cap {"own_tsf", "own_tsf_at"} = {}
  /\ HookAtInstall \/ (~ HookMidway /\ "extra" \notin Queries)

\* The first half of a query refuses exactly when what it needs is missing.
LEMMA ReadingRefused ==
  ASSUME NEW a, Exact(a), Inv, OneTsf(a), NEW t \in Nat,
         NEW path \in Queries \ InversePaths
  PROVE  Reading(path, t) # None <=> HasBasis(path)
<1>1. HookSettled /\ MaxLatency = 0 /\ OneNetwork(a)
  BY DEF Exact, HookSettled
<1>2. path \in {"own_tsf", "instant", "extra", "extra_filtered"} /\ ApTsf(a, t) # None
  <2>1. path \in Paths \ InversePaths
    BY ClientAssumption
  <2>2. ApBase[a] \in Nat /\ None \notin Int
    BY <1>1, ClientAssumption, EstimatorAssumption DEF OneNetwork
  <2>3. ApTsf(a, t) \in Int
    BY <2>2 DEF ApTsf
  <2> QED
    BY <2>1, <2>2, <2>3 DEF Paths, InversePaths
<1>3. CASE path = "own_tsf"
  <2>1. latest = None => Reading(path, t) = None
    BY <1>3 DEF Reading, own_tsf_to_ap_tsf
  <2>2. latest # None => Reading(path, t) # None
    BY <1>1, <1>3, ReadingTrue DEF OneTsf
  <2> QED
    BY <1>3, <2>1, <2>2 DEF HasBasis
<1>4. CASE path = "instant"
  <2>1. instantFilter \in Filter /\ InstantBase \in Int
    BY ClientAssumption DEF Inv, TypeOK
  <2>2. Predicted(instantFilter, InstantBase + t)
          = IF instantFilter.initialized THEN ApTsf(a, t) ELSE None
    BY <1>1, <2>1, PredictedTrue DEF OneTsf, FiltersTrue
  <2> QED
    BY <1>2, <1>4, <2>2 DEF Reading, InstantUs, HasBasis
<1>5. CASE path = "extra"
  BY <1>1, <1>5, ExtraTrue DEF Exact, OneTsf, HasBasis
<1>6. CASE path = "extra_filtered"
  <2> DEFINE known == ExtraBase \div ExtraPerUs
  <2>1. Reading(path, t) = Predicted(extraFilter, known + t) /\ known \in Int
    BY <1>6, ExtraMicros DEF Reading
  <2> HIDE DEF known
  <2>2. Predicted(extraFilter, known + t)
          = IF extraFilter.initialized THEN ApTsf(a, t) ELSE None
    <3>1. extraFilter \in Filter
      BY DEF Inv, TypeOK
    <3> QED
      BY <1>1, <2>1, <3>1, PredictedTrue DEF OneTsf, FiltersTrue, known
  <2> QED
    BY <1>2, <1>6, <2>1, <2>2 DEF HasBasis
<1> QED
  BY <1>2, <1>3, <1>4, <1>5, <1>6

LEMMA BasisKept ==
  ASSUME NEW a, Exact(a), Inv, OneTsf(a), BasisKnown, [Next]_vars
  PROVE  BasisKnown'
<1> USE DEF Inv
<1>1. OnlyWriters /\ now \in Nat
  BY Writers, TimePasses
<1>2. HasBasis(exec.path) => HasBasis(exec.path)'
                               \/ ~ UNCHANGED exec
  BY NothingLost DEF HasBasis
<1>3. CASE UNCHANGED exec
  BY <1>2, <1>3 DEF BasisKnown
<1>4. CASE consume_samples \/ poll_ap_bssid
  BY <1>4 DEF consume_samples, TakeEvent, ObserveBeacon, ConvertPacket, ObservePacket,
    poll_ap_bssid, PollAssociation, LockBssid, Proceed, BasisKnown
<1>5. ASSUME NEW t \in Near, SetExtraRate(t) PROVE BasisKnown'
  BY <1>5 DEF SetExtraRate, Proceed, BasisKnown
<1>6. ASSUME NEW path \in Queries \ InversePaths, NEW t \in Nat, Ask(path, t), UNCHANGED anchor
      PROVE  BasisKnown'
  BY <1>6, ReadingRefused DEF Ask, Proceed, BasisKnown, HasBasis, anchor
<1>7. CASE HalfQuery
  <2>1. \A t \in Near : t \in Nat
    BY <1>1, ClientAssumption DEF Near, Least
  <2>2. CASE PredictExtra
    <3>1. exec # None /\ exec.task = "predict" /\ Ask("extra_filtered", exec.at)
          /\ UNCHANGED anchor
      BY <2>2 DEF PredictExtra, Idle, stored
    <3>2. exec.at \in Nat /\ "extra_filtered" \in Queries \ InversePaths
      BY <3>1, TaskKinds DEF TypeOK, TaskTrue, InversePaths
    <3> QED
      BY <1>6, <3>1, <3>2
  <2>3. ASSUME NEW path \in {"own_tsf", "instant", "extra"}, NEW t \in Near, AskReading(path, t)
        PROVE  BasisKnown'
    BY <1>6, <2>1, <2>3 DEF AskReading, stored, InversePaths
  <2>4. ASSUME NEW path \in {"own_tsf_at", "local_us_at"}, NEW t \in Near, AskTime(path, t)
        PROVE  BasisKnown'
    BY <2>4 DEF AskTime, Proceed, BasisKnown, InversePaths
  <2>5. CASE AnswerQuery \/ Return
    BY <2>5 DEF AnswerQuery, Return, Proceed, BasisKnown
  <2> QED
    BY <1>7, <2>2, <2>3, <2>4, <2>5 DEF HalfQuery
<1> QED
  BY <1>1, <1>3, <1>4, <1>5, <1>7 DEF OnlyWriters

\* What the application sees of a query, by the stage it is in.
Seen ==
  /\ exec = None \/ exec.task \notin {"predict", "query", "answered"} => QueryUnderWay = None
  /\ exec # None /\ exec.task = "predict" =>
       QueryUnderWay = [path |-> "extra_filtered", at |-> exec.at,
                        owed |-> "extra_filtered" \in ReadyPaths]
  /\ exec # None /\ exec.task = "query" =>
       QueryUnderWay = [path |-> exec.path, at |-> exec.at,
                        owed |-> exec.ap # None /\ exec.path \in ReadyPaths]
  /\ exec # None /\ exec.task = "answered" =>
       QueryUnderWay = [path |-> exec.path, at |-> exec.at,
                        late |-> Lateness(exec.path, exec.at, exec.answer)]

LEMMA ReadyAre ==
  ASSUME udpEst.n \in Nat
  PROVE  ReadyPaths = IF udpEst.n < MIN_SAMPLES THEN {} ELSE {p \in Queries : HasBasis(p)}
BY DEF ReadyPaths, HasBasis

LEMMA QueriesSeen == Inv /\ BasisKnown => Seen
<1> SUFFICES ASSUME Inv, BasisKnown PROVE Seen
  OBVIOUS
<1>1. udpEst.n \in Nat /\ MIN_SAMPLES \in Nat
  BY EstimatorAssumption DEF Inv, RingsTrue, Ring
<1>2. ASSUME exec # None, exec.task = "query"
      PROVE  Owed <=> exec.ap # None /\ exec.path \in ReadyPaths
  <2>1. exec.path \in Queries
    BY <1>2 DEF Inv, TaskTrue
  <2>2. Owed <=> exec.ap # None /\ (exec.path \in InversePaths => HasBasis(exec.path))
                   /\ ~ (udpEst.n < MIN_SAMPLES)
    BY <1>1, <1>2 DEF Owed, HasBasis, InversePaths
  <2>3. exec.ap # None => (HasBasis(exec.path) <=> (exec.path \in InversePaths => HasBasis(exec.path)))
    BY <1>2 DEF BasisKnown
  <2> QED
    BY <1>1, <2>1, <2>2, <2>3, ReadyAre
<1>3. ASSUME exec # None, exec.task = "predict"
      PROVE  Owed <=> "extra_filtered" \in ReadyPaths
  BY <1>3 DEF Owed
<1>4. Owed \in BOOLEAN
  <2>1. CASE exec.task = "predict"
    <3>1. ("extra_filtered" \in ReadyPaths) \in BOOLEAN
      OBVIOUS
    <3> QED
      BY <2>1, <3>1, Zenon DEF Owed
  <2>2. CASE exec.task # "predict"
    BY <2>2, Zenon DEF Owed
  <2> QED
    BY <2>1, <2>2
<1>5. exec # None /\ exec.task = "query" =>
        Owed = (exec.ap # None /\ exec.path \in ReadyPaths)
  BY <1>2, <1>4
<1>6. exec # None /\ exec.task = "predict" => Owed = ("extra_filtered" \in ReadyPaths)
  BY <1>3, <1>4
<1> QED
  BY <1>5, <1>6 DEF Seen, QueryUnderWay

\* What is inductive under those conditions.
Kept(a) == Inv /\ OneTsf(a) /\ BasisKnown

LEMMA KeptCorrect ==
  ASSUME NEW a, Exact(a)
  PROVE  Spec => [](Kept(a) /\ Seen)
<1>1. OneNetwork(a)
  BY DEF Exact
<1>2. Init => BasisKnown
  BY DEF Init, BasisKnown
<1>3. Inv /\ OneTsf(a) /\ BasisKnown /\ [Next]_vars => BasisKnown'
  BY BasisKept
<1>4. Kept(a) <=> Inv /\ OneTsf(a) /\ BasisKnown
  BY DEF Kept
<1> QED
  BY <1>1, <1>2, <1>3, <1>4, OneTsfCorrect, QueriesSeen, PTL DEF Spec

\* The paths the client is ready on only become more.
LEMMA ReadyGrows ==
  ASSUME Inv, [Next]_vars
  PROVE  ReadyPaths \subseteq ReadyPaths' /\ ReadyPaths' \in SUBSET Queries
<1>1. udpEst.n \in Nat /\ MIN_SAMPLES \in Nat
  BY EstimatorAssumption DEF Inv, RingsTrue, Ring
<1>2. ReadyPaths' \subseteq Queries
  BY DEF ReadyPaths
<1>3. \A p : HasBasis(p) => HasBasis(p)'
  BY NothingLost DEF HasBasis
<1>4. ReadyPaths' = IF udpEst'.n < MIN_SAMPLES THEN {} ELSE {p \in Queries : HasBasis(p)'}
  BY DEF ReadyPaths, HasBasis
<1>5. ReadyPaths \subseteq ReadyPaths'
  BY <1>1, <1>3, <1>4, NothingLost, ReadyAre
<1> QED
  BY <1>2, <1>5

\* While nothing the estimator or the conversions read changes, neither does readiness.
LEMMA ReadySame ==
  ASSUME UNCHANGED <<anchor, fits>>
  PROVE  UNCHANGED ReadyPaths
BY DEF anchor, fits, ReadyPaths

LEMMA OwedSet ==
  ASSUME NEW P, NEW q \in [path : P, at : Nat, owed : BOOLEAN],
         NEW r \in [path : P, at : Nat, owed : BOOLEAN],
         r.path = q.path, r.at = q.at, r.owed = TRUE
  PROVE  r = [q EXCEPT !.owed = TRUE]
<1> DEFINE s == [q EXCEPT !.owed = TRUE]
<1>1. s \in [path : P, at : Nat, owed : BOOLEAN] /\ s.path = q.path /\ s.at = q.at /\ s.owed = TRUE
  OBVIOUS
<1> HIDE DEF s
<1>2. r = s
  BY <1>1
<1> QED
  BY <1>2 DEF s

\* A question under way profits from what has become ready.
LEMMA QuestionKept ==
  ASSUME Inv, Seen, Seen', UNCHANGED <<exec, now, follows>>, ReadyPaths \subseteq ReadyPaths'
  PROVE  \/ UNCHANGED QueryUnderWay
         \/ /\ QueryUnderWay \in Promise!Question
            /\ QueryUnderWay.path \in ReadyPaths'
            /\ QueryUnderWay' = [QueryUnderWay EXCEPT !.owed = TRUE]
<1>1. CASE exec = None \/ exec.task \notin {"predict", "query"}
  BY <1>1 DEF QueryUnderWay, Lateness, OwnTsf, InstantUs, ServerNs
<1>2. ASSUME exec # None, NEW p \in Queries, NEW x \in BOOLEAN, NEW y \in BOOLEAN,
             QueryUnderWay = [path |-> p, at |-> exec.at, owed |-> x],
             QueryUnderWay' = [path |-> p, at |-> exec.at, owed |-> y],
             x => y, y => p \in ReadyPaths', exec.at \in Nat
      PROVE  \/ UNCHANGED QueryUnderWay
             \/ /\ QueryUnderWay \in Promise!Question
                /\ QueryUnderWay.path \in ReadyPaths'
                /\ QueryUnderWay' = [QueryUnderWay EXCEPT !.owed = TRUE]
  <2>1. CASE x = y
    BY <1>2, <2>1
  <2>2. CASE x = FALSE /\ y = TRUE
    <3>1. QueryUnderWay \in Promise!Question
      BY <1>2 DEF Promise!Question
    <3>2. QueryUnderWay' \in Promise!Question
      BY <1>2 DEF Promise!Question
    <3>3. QueryUnderWay' = [QueryUnderWay EXCEPT !.owed = TRUE]
      BY <1>2, <2>2, <3>1, <3>2, OwedSet DEF Promise!Question
    <3> QED
      BY <1>2, <2>2, <3>1, <3>3
  <2> QED
    BY <1>2, <2>1, <2>2
<1>3. CASE exec # None /\ exec.task = "predict"
  <2> DEFINE p == "extra_filtered"
             x == p \in ReadyPaths
             y == p \in ReadyPaths'
  <2>1. exec.at \in Nat /\ p \in Queries
    BY <1>3, TaskKinds DEF Inv, TypeOK, TaskTrue
  <2>2. /\ QueryUnderWay = [path |-> p, at |-> exec.at, owed |-> x]
        /\ QueryUnderWay' = [path |-> p, at |-> exec.at, owed |-> y]
    BY <1>3 DEF Seen
  <2>3. x \in BOOLEAN /\ y \in BOOLEAN /\ (x => y) /\ (y => p \in ReadyPaths')
    OBVIOUS
  <2> HIDE DEF x, y, p
  <2> QED
    BY <1>2, <1>3, <2>1, <2>2, <2>3
<1>4. CASE exec # None /\ exec.task = "query"
  <2> DEFINE p == exec.path
             x == exec.ap # None /\ p \in ReadyPaths
             y == exec.ap # None /\ p \in ReadyPaths'
  <2>1. exec.at \in Nat /\ p \in Queries
    BY <1>4, TaskKinds DEF Inv, TypeOK, TaskTrue
  <2>2. /\ QueryUnderWay = [path |-> p, at |-> exec.at, owed |-> x]
        /\ QueryUnderWay' = [path |-> p, at |-> exec.at, owed |-> y]
    BY <1>4 DEF Seen
  <2>3. x \in BOOLEAN /\ y \in BOOLEAN /\ (x => y) /\ (y => p \in ReadyPaths')
    OBVIOUS
  <2> HIDE DEF x, y, p
  <2> QED
    BY <1>2, <1>4, <2>1, <2>2, <2>3
<1> QED
  BY <1>1, <1>3, <1>4

\* A question that was owed an answer is given one.
LEMMA AnswerGiven ==
  ASSUME NEW a, Exact(a), Kept(a), exec # None, exec.task = "query", exec.ap # None,
         exec.path \in ReadyPaths
  PROVE  Answer(exec.path, exec.ap) # None
<1> DEFINE path == exec.path
           ap == exec.ap
           t == exec.at
<1>1. Inv /\ OneNetwork(a) /\ MaxLatency = 0 /\ HookSettled
  BY DEF Kept, Exact, HookSettled
<1>2. t \in Nat /\ ap \in Int /\ udpEst.n \in Nat /\ path \in Queries
  <2>1. exec \in Task /\ path \in Queries
    BY <1>1 DEF Inv, TypeOK, TaskTrue
  <2>2. t \in Nat /\ ap \in Int
    BY <2>1, TaskKinds
  <2>3. udpEst.n \in Nat
    BY <1>1 DEF Inv, RingsTrue, Ring
  <2> QED
    BY <2>1, <2>2, <2>3
<1>3. ReadingOk(a, path, t, ap, exec.hooked) /\ FiltersTrue(a)
  BY DEF Kept, OneTsf, QueryTrue
<1>4. ~ (udpEst.n < MIN_SAMPLES) /\ HasBasis(path)
  BY <1>2, ReadyAre
<1>5. path \in Paths /\ ApTsf(a, t) \in Int
  BY <1>1, <1>2, ClientAssumption DEF OneNetwork, ApTsf
<1> HIDE DEF path, ap, t
<1>6. Answer(path, ap) # None
  <2>1. ap # None
    BY DEF ap
  <2>2. CASE path \notin InversePaths
    <3>1. ap = ApTsf(a, t)
      <4>1. CASE path = "extra"
        <5>1. HookAtInstall
          BY <1>2, <4>1 DEF Exact
        <5>2. ApTsf(a, t) - ap \in 0..0
          BY <1>1, <1>3, <2>1, <4>1, <5>1 DEF ReadingOk
        <5> QED
          BY <1>2, <1>5, <5>2
      <4>2. CASE path \in {"own_tsf", "instant", "extra_filtered"}
        <5>1. path = "own_tsf" => Gap(a) = 0 /\ t + Gap(a) = t
          BY <1>2 DEF Exact
        <5> QED
          BY <1>1, <1>3, <2>1, <4>2, <5>1 DEF ReadingOk
      <4> QED
        BY <1>5, <2>2, <4>1, <4>2 DEF Paths, InversePaths
    <3>2. ap = ApTsf(a, t) - 0
      BY <1>5, <3>1
    <3>3. synced_ns_at(udpEst, ApTsf(a, t) - 0) # None
      BY <1>1, <1>2, <1>4, 0 \in Nat, SyncedLate
    <3>4. Answer(path, ap) = synced_ns_at(udpEst, ap)
      BY <2>1, <2>2 DEF Answer, InversePaths
    <3> QED
      BY <3>2, <3>3, <3>4
  <2>3. CASE path \in InversePaths
    <3>1. ap - ApTsf(a, t) \in 0..MaxDelay
      BY <1>3, <2>1, <2>3 DEF ReadingOk, InversePaths
    <3>2. /\ latest # None => ap_tsf_to_own_tsf(ap) # None
          /\ instantFilter.initialized => ap_tsf_to_instant(ap) # None
      BY <1>1, <1>2, <1>3, <3>1, InverseTrue
    <3> QED
      BY <1>4, <2>1, <2>3, <3>2 DEF Answer, InversePaths, HasBasis
  <2> QED
    BY <2>2, <2>3
<1> QED
  BY <1>6 DEF path, ap

LEMMA LatenessOk ==
  ASSUME NEW a, Exact(a), TypeOK, NEW path \in Queries, NEW t \in Nat,
         NEW answer \in Int \cup {None}, NEW hooked, AnswerOk(a, path, t, answer, hooked)
  PROVE  /\ Lateness(path, t, answer) \in 0 .. NsPerUs * MaxDelay \cup {None}
         /\ answer # None => Lateness(path, t, answer) # None
<1>1. MaxLatency = 0 /\ HookSettled /\ MaxDelay \in Nat /\ NsPerUs \in Nat /\ None \notin Int
      /\ MaxDelay + MaxLatency = MaxDelay /\ path \in Paths
      /\ NsPerUs * MaxDelay \in Nat
  BY ClientAssumption, EstimatorAssumption DEF Exact, HookSettled
<1>2. CASE answer = None
  BY <1>2 DEF Lateness
<1>3. CASE answer # None
  <2>1. CASE path \notin InversePaths
    <3>1. Lateness(path, t, answer) = ServerNs(t) - answer
      BY <1>3, <2>1 DEF Lateness, InversePaths
    <3>2. ServerNs(t) - answer \in 0 .. NsPerUs * MaxDelay
      <4>1. path = "own_tsf" => Gap(a) = 0 /\ t + Gap(a) = t
        BY DEF Exact
      <4> QED
        BY <1>1, <1>3, <2>1, <4>1 DEF AnswerOk, AnswerLate, Exact, Paths, InversePaths
    <3> QED
      BY <1>1, <3>1, <3>2
  <2>2. ASSUME NEW d \in 0..MaxDelay, Lateness(path, t, answer) = NsPerUs * d
        PROVE  Lateness(path, t, answer) \in 0 .. NsPerUs * MaxDelay
    BY <1>1, <2>2, LateInNs
  <2>3. CASE path \in InversePaths
    <3>1. Lateness(path, t, answer) \in 0 .. NsPerUs * MaxDelay
      <4>1. CASE path = "own_tsf_at"
        <5>1. OwnTsf(t) = StampTsf(a, t)
          <6>1. follows = a /\ Gap(a) = 0 /\ a \in Network
            BY <4>1, OneFollowed DEF Exact, OneNetwork
          <6>2. StampTsf(a, t) \in Nat /\ OwnTsf(t) = StampTsf(a, t) + Gap(a)
            BY <6>1, OwnClock, StampClock
          <6> QED
            BY <6>1, <6>2
        <5> QED
          BY <1>1, <1>3, <2>2, <4>1, <5>1 DEF Lateness, AnswerOk
      <4>2. CASE path = "local_us_at"
        BY <1>1, <1>3, <2>2, <4>2 DEF Lateness, AnswerOk
      <4> QED
        BY <2>3, <4>1, <4>2 DEF InversePaths
    <3> QED
      BY <1>1, <3>1
  <2> QED
    BY <2>1, <2>3
<1> QED
  BY <1>2, <1>3

\* A question is owed an answer when the client is ready for it.
LEMMA AskMapped ==
  ASSUME Inv, Seen, exec = None, UNCHANGED <<now, ReadyPaths>>,
         NEW p \in Queries, NEW t \in 0..now,
         QueryUnderWay' = [path |-> p, at |-> t, owed |-> p \in ReadyPaths]
  PROVE  Promise!Ask
BY DEF Promise!Ask, Seen

LEMMA AnswerMapped ==
  ASSUME NEW a, Exact(a), Kept(a), Seen, Seen', AnswerQuery
  PROVE  Promise!Answer
<1> DEFINE answer == Answer(exec.path, exec.ap)
           late == Lateness(exec.path, exec.at, answer)
           owed == exec.ap # None /\ exec.path \in ReadyPaths
<1>1. /\ exec # None /\ exec.task = "query"
      /\ exec' = [task |-> "answered", path |-> exec.path, at |-> exec.at, answer |-> answer,
                  hooked |-> exec.hooked]
      /\ UNCHANGED <<now, follows, anchor, fits>>
  BY DEF AnswerQuery, Idle, Proceed, env, stored
<1>2. /\ exec.at \in Nat /\ exec.path \in Queries /\ exec.ap \in Int \cup {None}
      /\ exec.path \in Paths /\ exec.hooked \in BOOLEAN
  BY <1>1, TaskKinds, ClientAssumption DEF Kept, Inv, TypeOK, TaskTrue
<1>3. AnswerOk(a, exec.path, exec.at, answer, exec.hooked) /\ answer \in Int \cup {None}
  <2>1. Inv /\ OneNetwork(a) /\ FiltersTrue(a)
        /\ ReadingOk(a, exec.path, exec.at, exec.ap, exec.hooked)
    BY <1>1 DEF Kept, OneTsf, QueryTrue, Exact
  <2>2. AnswerOk(a, exec.path, exec.at, answer, exec.hooked)
    BY <1>2, <2>1, AnswerTrue
  <2>3. answer \in Int \cup {None}
    BY <1>2, <2>1, AnswerType
  <2> QED
    BY <2>2, <2>3
<1> HIDE DEF answer
<1>4. /\ late \in 0 .. NsPerUs * MaxDelay \cup {None}
      /\ answer # None => late # None
  BY <1>2, <1>3, LatenessOk DEF Kept, Inv
<1>5. owed => answer # None
  BY <1>1, AnswerGiven DEF answer
<1>6. QueryUnderWay = [path |-> exec.path, at |-> exec.at, owed |-> owed]
  BY <1>1 DEF Seen
<1>7. QueryUnderWay' = [path |-> exec.path, at |-> exec.at, late |-> late]
  <2>1. exec' # None
    <3>1. exec' \in Task
      BY <1>1, <1>2, <1>3 DEF Task
    <3> QED
      BY <3>1, TaskKinds
  <2>2. Lateness(exec'.path, exec'.at, exec'.answer) = late
    BY <1>1
  <2> QED
    BY <1>1, <2>1, <2>2 DEF Seen, Lateness, InstantUs, OwnTsf, ServerNs
<1>8. owed \in BOOLEAN
  OBVIOUS
<1> HIDE DEF owed, late
<1>9. QueryUnderWay \in Promise!Question /\ QueryUnderWay.owed = owed
      /\ QueryUnderWay.path = exec.path /\ QueryUnderWay.at = exec.at
  BY <1>2, <1>6, <1>8 DEF Promise!Question
<1>10. late \in 0 .. NsPerUs * MaxDelay \cup (IF QueryUnderWay.owed THEN {} ELSE {None})
  BY <1>4, <1>5, <1>8, <1>9
<1>11. UNCHANGED ReadyPaths
  BY <1>1, ReadySame
<1> QED
  BY <1>1, <1>7, <1>9, <1>10, <1>11 DEF Promise!Answer

LEMMA StepMapped ==
  ASSUME NEW a, Exact(a), Kept(a), Seen, Seen', [Next]_vars
  PROVE  [Promise!Next]_(Promise!vars)
<1> USE DEF Kept, Inv
<1>1. now \in Nat /\ MaxAge \in Nat /\ OnlyWriters
  BY Writers, TimePasses, ClientAssumption
<1>0. UNCHANGED follows
  BY <1>1, OneFollowed DEF Exact
<1>2. \A t \in Near : t \in 0..now
  BY <1>1 DEF Near, Least
<1>3. ReadyPaths \subseteq ReadyPaths' /\ ReadyPaths' \in SUBSET Queries
  BY ReadyGrows
<1>4. ASSUME UNCHANGED now, UNCHANGED QueryUnderWay PROVE Promise!BecomeReady
  BY <1>3, <1>4 DEF Promise!BecomeReady
<1>5. CASE Tick
  <2>1. now' = now + 1 /\ UNCHANGED <<exec, anchor, fits>>
    BY <1>5 DEF Tick, stored
  <2>2. UNCHANGED ReadyPaths
    BY <2>1, ReadySame
  <2>3. UNCHANGED QueryUnderWay
    BY <1>0, <2>1, <2>2 DEF anchor, fits, QueryUnderWay, Owed, Lateness, InstantUs, OwnTsf,
      ServerNs
  <2> QED
    BY <2>1, <2>2, <2>3 DEF Promise!Tick, Promise!Next
<1>6. CASE UNCHANGED <<exec, now>>
  <2>1. Promise!BecomeReady
    BY <1>0, <1>3, <1>6, QuestionKept DEF Promise!BecomeReady
  <2> QED
    BY <2>1 DEF Promise!Next
<1>7. CASE UNCHANGED now /\ (consume_samples \/ poll_ap_bssid)
  <2>1. /\ exec = None \/ exec.task \notin {"predict", "query", "answered"}
        /\ exec' = None \/ exec'.task \notin {"predict", "query", "answered"}
    BY <1>7 DEF consume_samples, TakeEvent, ObserveBeacon, ConvertPacket, ObservePacket,
      poll_ap_bssid, PollAssociation, LockBssid, Proceed, Idle
  <2>2. UNCHANGED QueryUnderWay
    BY <2>1 DEF Seen
  <2> QED
    BY <1>4, <1>7, <2>2 DEF Promise!Next
<1>8. ASSUME NEW p \in Queries, NEW t \in 0..now, UNCHANGED <<now, anchor, fits>>, exec = None,
             QueryUnderWay' = [path |-> p, at |-> t, owed |-> p \in ReadyPaths]
      PROVE  Promise!Next
  BY <1>8, AskMapped, ReadySame DEF Promise!Next
<1>9. ASSUME NEW t \in Near, SetExtraRate(t) PROVE Promise!Next
  <2>1. /\ exec = None /\ UNCHANGED <<now, anchor, fits>>
        /\ exec' = [task |-> "predict", at |-> t] /\ "extra_filtered" \in Queries
    BY <1>9 DEF SetExtraRate, Idle, Proceed, env
  <2>2. exec' # None
    <3>1. exec' \in Task
      BY <1>1, <1>2, <2>1 DEF Task
    <3> QED
      BY <3>1, TaskKinds
  <2>3. QueryUnderWay' = [path |-> "extra_filtered", at |-> t,
                          owed |-> "extra_filtered" \in ReadyPaths]
    BY <2>1, <2>2, ReadySame DEF Seen
  <2> QED
    BY <1>2, <1>8, <2>1, <2>3
<1>10. ASSUME NEW p \in Queries, NEW t \in Nat, NEW ap \in Int \cup {None},
              NEW hooked \in BOOLEAN,
              exec' = [task |-> "query", path |-> p, at |-> t, ap |-> ap, hooked |-> hooked],
              UNCHANGED <<now, anchor, fits>>, p \in ReadyPaths => ap # None
       PROVE  QueryUnderWay' = [path |-> p, at |-> t, owed |-> p \in ReadyPaths]
  <2>1. exec' \in Task
    <3>1. p \in Paths
      BY ClientAssumption
    <3> QED
      BY <1>10, <3>1 DEF Task
  <2>2. exec' # None
    BY <2>1, TaskKinds
  <2>3. QueryUnderWay' = [path |-> p, at |-> t, owed |-> ap # None /\ p \in ReadyPaths']
    BY <1>10, <2>2 DEF Seen
  <2>4. (ap # None /\ p \in ReadyPaths') = (p \in ReadyPaths)
    BY <1>10, ReadySame
  <2> QED
    BY <2>3, <2>4
<1>11. ASSUME NEW p \in Queries \ InversePaths, NEW t \in Nat
       PROVE  Reading(p, t) \in Int \cup {None} /\ (p \in ReadyPaths => Reading(p, t) # None)
  <2>1. p \in ReadyPaths => HasBasis(p)
    BY ReadyAre DEF RingsTrue, Ring
  <2>2. p \in {"own_tsf", "instant", "extra", "extra_filtered"}
    BY ClientAssumption DEF Paths, InversePaths
  <2> QED
    BY <2>1, <2>2, ReadingRefused, ReadingType
<1>12. ASSUME NEW path \in {"own_tsf", "instant", "extra"}, NEW t \in Near, AskReading(path, t)
       PROVE  Promise!Next
  <2> DEFINE h == path = "extra" /\ Hooked
  <2>1. /\ exec = None /\ path \in Queries \ InversePaths /\ UNCHANGED <<now, anchor, fits>>
        /\ exec' = [task |-> "query", path |-> path, at |-> t, ap |-> Reading(path, t),
                    hooked |-> h]
        /\ h \in BOOLEAN
    BY <1>12 DEF AskReading, Ask, Idle, Proceed, env, stored, InversePaths, Hooked
  <2> HIDE DEF h
  <2>2. t \in Nat /\ t \in 0..now
    BY <1>1, <1>2
  <2>3. QueryUnderWay' = [path |-> path, at |-> t, owed |-> path \in ReadyPaths]
    BY <1>10, <1>11, <2>1, <2>2
  <2> QED
    BY <1>8, <2>1, <2>2, <2>3
<1>13. CASE PredictExtra
  <2> DEFINE p == "extra_filtered"
             h == p = "extra" /\ Hooked
  <2>1. /\ exec # None /\ exec.task = "predict" /\ UNCHANGED <<now, anchor, fits>>
        /\ exec' = [task |-> "query", path |-> p, at |-> exec.at, ap |-> Reading(p, exec.at),
                    hooked |-> h]
        /\ h \in BOOLEAN
    BY <1>13 DEF PredictExtra, Ask, Idle, Proceed, env, stored
  <2> HIDE DEF h
  <2>2. exec.at \in Nat /\ p \in Queries \ InversePaths
    BY <2>1, TaskKinds DEF TypeOK, TaskTrue, InversePaths
  <2>3. QueryUnderWay' = [path |-> p, at |-> exec.at, owed |-> p \in ReadyPaths]
    BY <1>10, <1>11, <2>1, <2>2
  <2>4. UNCHANGED QueryUnderWay
    BY <2>1, <2>3 DEF Seen
  <2> QED
    BY <1>4, <2>1, <2>4 DEF Promise!Next
<1>14. ASSUME NEW path \in {"own_tsf_at", "local_us_at"}, NEW t \in Near, AskTime(path, t)
       PROVE  Promise!Next
  <2> DEFINE ap == local_us_at(udpEst, ServerNs(t))
  <2>1. /\ exec = None /\ path \in Queries /\ UNCHANGED <<now, anchor, fits>>
        /\ exec' = [task |-> "query", path |-> path, at |-> t, ap |-> ap, hooked |-> FALSE]
    BY <1>14 DEF AskTime, Idle, Proceed, env, stored
  <2>2. t \in Nat /\ t \in 0..now
    BY <1>1, <1>2
  <2>3. ap \in Int \cup {None}
    BY <2>2, ClockTypes, EstimatorAnswers DEF RingsTrue
  <2>4. path \in ReadyPaths => ap # None
    <3>1. path \in ReadyPaths => ~ (udpEst.n < MIN_SAMPLES)
      BY ReadyAre DEF RingsTrue, Ring
    <3> QED
      BY <2>2, <3>1, LocalLate DEF Exact
  <2> HIDE DEF ap
  <2>5. QueryUnderWay' = [path |-> path, at |-> t, owed |-> path \in ReadyPaths]
    BY <1>10, <2>1, <2>2, <2>3, <2>4
  <2> QED
    BY <1>8, <2>1, <2>2, <2>5
<1>15. CASE AnswerQuery
  BY <1>15, AnswerMapped DEF Promise!Next
<1>16. CASE Return
  <2>1. exec # None /\ exec.task = "answered" /\ exec' = None /\ UNCHANGED <<now, anchor, fits>>
    BY <1>16 DEF Return, Idle, Proceed, env, stored
  <2>2. exec.at \in Nat /\ exec.path \in Queries /\ exec.answer \in Int \cup {None}
    BY <2>1, TaskKinds DEF TypeOK, TaskTrue
  <2>3. AnswerOk(a, exec.path, exec.at, exec.answer, exec.hooked)
    BY <2>1 DEF OneTsf, QueryTrue
  <2>4. Lateness(exec.path, exec.at, exec.answer) \in 0 .. NsPerUs * MaxDelay \cup {None}
    BY <2>2, <2>3, LatenessOk
  <2>5. QueryUnderWay \in Promise!Reply
    BY <2>1, <2>2, <2>4 DEF Seen, Promise!Reply
  <2>6. QueryUnderWay' = None /\ UNCHANGED ReadyPaths
    BY <2>1, ReadySame DEF Seen
  <2> QED
    BY <2>1, <2>5, <2>6 DEF Promise!Forget, Promise!Next
<1>17. CASE UNCHANGED now /\ HalfQuery
  BY <1>12, <1>13, <1>14, <1>15, <1>16, <1>17 DEF HalfQuery
<1> QED
  BY <1>1, <1>5, <1>6, <1>7, <1>9, <1>17 DEF OnlyWriters

LEMMA InitMapped == Init => Promise!Init
<1> SUFFICES ASSUME Init PROVE Promise!Init
  OBVIOUS
<1>1. ReadyPaths = {}
  BY EstimatorAssumption DEF Init, ReadyPaths, new
<1> QED
  BY <1>1 DEF Init, QueryUnderWay, Promise!Init

\* Where one access point serves the network, rx_cb has no latency, the application's hook
\* is registered before it matters and mac_tsf_us, if it is asked about, is the clock of the
\* stamps, the client keeps what SyncedTime promises, in every order of frames, callbacks,
\* roams and halves of queries.
THEOREM SyncedTimeKept ==
  ASSUME NEW a, Exact(a)
  PROVE  Spec => ImplementsSyncedTime
<1>1. Kept(a) /\ Seen /\ Seen' /\ [Next]_vars => [Promise!Next]_(Promise!vars)
  BY StepMapped
<1> QED
  BY <1>1, InitMapped, KeptCorrect, PTL DEF Spec, ImplementsSyncedTime, Promise!Spec

=============================================================================
