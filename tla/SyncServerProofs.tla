--------------------------- MODULE SyncServerProofs --------------------------
(***************************************************************************)
(* What SyncServer promises, for every interval, wrap of the sequence      *)
(* number and bound.  The schedule is what carries the argument: a packet  *)
(* is due no earlier than the start plus as many intervals as packets have *)
(* been sent, and it is that product its timestamp shows.  Then what       *)
(* SyncPacket and SyncBroadcast do: a number that fits its field is read   *)
(* from its bytes as it was written, and a packet from its frame.          *)
(***************************************************************************)
EXTENDS SyncBroadcast, IntegerTheorems, SequenceTheorems

\* seq counts the packets of this process until it wraps, and is never ahead of them.
Numbered ==
  /\ seq <= packets
  /\ packets < SeqMod => seq = packets

\* A packet is due no earlier than its place in the schedule: between WakeUp and Send,
\* next is already the one after.
Scheduled ==
  /\ pc # "stopped" => t0 <= now
  /\ pc = "waiting" => t0 + packets * Interval <= next
  /\ pc = "sending" => /\ t0 + packets * Interval + Interval <= next
                       /\ next - Interval <= now

\* The last packet is not ahead of when it was sent, and its time is one the server
\* started after or has counted past.
SentInThePast ==
  packet # None =>
    /\ packet.send_unix_ns <= packet.at
    /\ packet.at <= now
    /\ pc = "booting" => packet.send_unix_ns <= t0
    /\ pc \in {"waiting", "sending"} => packet.send_unix_ns <= t0 + packets * Interval

Inv == TypeOK /\ Numbered /\ Scheduled /\ SentInThePast

-----------------------------------------------------------------------------
\* Intervals counted from the start, one more at each packet.
LEMMA OneMoreInterval ==
  ASSUME NEW n \in Nat, NEW i \in Nat
  PROVE  /\ (n + 1) * i = n * i + i
         /\ n * i \in Nat
BY SMT

\* A wrapped sequence number puts a packet no later than its place in the schedule.
LEMMA IntervalsMonotone ==
  ASSUME NEW m \in Nat, NEW n \in Nat, m <= n, NEW i \in Nat
  PROVE  m * i <= n * i
<1>1. PICK d \in Nat : n = m + d
  BY n - m \in Nat, n = m + (n - m)
<1>2. n * i = m * i + d * i
  BY <1>1
<1>3. d * i \in Nat /\ m * i \in Nat
  BY <1>1
<1> QED
  BY <1>2, <1>3

\* TypeOK: every field keeps its range, seq because it wraps, on every step.
THEOREM TypeCorrect == Spec => []TypeOK
<1> USE ServerAssumption
<1>1. Init => TypeOK
  BY DEF Init, TypeOK
<1>2. TypeOK /\ [Next]_vars => TypeOK'
  <2> SUFFICES ASSUME TypeOK, [Next]_vars PROVE TypeOK'
    OBVIOUS
  <2>1. CASE Tick
    BY <2>1 DEF Tick, TypeOK
  <2>2. CASE Boot
    BY <2>2 DEF Boot, TypeOK
  <2>3. CASE Start
    BY <2>3 DEF Start, TypeOK
  <2>4. CASE WakeUp
    BY <2>4 DEF WakeUp, TypeOK
  <2>5. CASE Send
    <3>1. seq * Interval \in Nat
      BY OneMoreInterval, seq \in Nat DEF TypeOK
    <3>2. packet' \in Packet
      BY <2>5, <3>1 DEF Send, TypeOK, Packet, send_unix_ns
    <3>3. seq' \in 0..SeqMod-1
      BY <2>5 DEF Send, TypeOK, next_seq
    <3> QED
      BY <2>5, <3>2, <3>3 DEF Send, TypeOK
  <2>6. CASE Stop
    BY <2>6 DEF Stop, TypeOK
  <2>7. CASE UNCHANGED vars
    BY <2>7 DEF vars, TypeOK
  <2> QED
    BY <2>1, <2>2, <2>3, <2>4, <2>5, <2>6, <2>7 DEF Next
<1> QED
  BY <1>1, <1>2, PTL DEF Spec

-----------------------------------------------------------------------------
\* The timestamp of a packet about to be sent: computed from its number, it is no
\* later than now and no earlier than that of the packet before.
LEMMA TimestampInSchedule ==
  ASSUME Inv, pc = "sending"
  PROVE  /\ send_unix_ns <= t0 + packets * Interval
         /\ t0 + packets * Interval <= now
         /\ send_unix_ns \in Nat /\ packets * Interval \in Nat
<1> USE ServerAssumption
<1>1. seq \in Nat /\ packets \in Nat /\ Interval \in Nat /\ t0 \in Nat /\ next \in Nat
      /\ now \in Nat
  BY DEF Inv, TypeOK
<1>2. seq * Interval <= packets * Interval
  BY <1>1, IntervalsMonotone DEF Inv, Numbered
<1>3. seq * Interval \in Nat /\ packets * Interval \in Nat
  BY <1>1, OneMoreInterval
<1>4. t0 + packets * Interval + Interval <= next /\ next - Interval <= now
  BY DEF Inv, Scheduled
<1> QED
  BY <1>1, <1>2, <1>3, <1>4 DEF send_unix_ns

\* The strengthening holds on every step.
LEMMA Inductive == Spec => []Inv
<1> USE ServerAssumption
<1>1. Init => Inv
  BY DEF Init, Inv, TypeOK, Numbered, Scheduled, SentInThePast
<1>2. Inv /\ TypeOK' /\ [Next]_vars => Inv'
  <2> SUFFICES ASSUME Inv, TypeOK', [Next]_vars PROVE Inv'
    OBVIOUS
  <2>0. TypeOK
    BY DEF Inv
  <2>a. packet # None => packet.send_unix_ns \in Nat /\ packet.at \in Nat
    BY <2>0 DEF TypeOK, Packet
  <2>b. packets * Interval \in Nat
    BY <2>0, OneMoreInterval DEF TypeOK
  <2>1. CASE Tick
    BY <2>0, <2>1, <2>a, <2>b DEF Tick, Inv, TypeOK, Numbered, Scheduled, SentInThePast
  <2>2. CASE Boot
    BY <2>0, <2>2, <2>a, <2>b DEF Boot, Inv, TypeOK, Numbered, Scheduled, SentInThePast
  <2>3. CASE Start
    <3>1. packets' = 0 /\ seq' = 0 /\ packets' * Interval = 0
      BY <2>3 DEF Start
    <3> QED
      BY <2>0, <2>3, <2>a, <3>1
      DEF Start, Inv, TypeOK, Numbered, Scheduled, SentInThePast
  <2>4. CASE WakeUp
    BY <2>0, <2>4, <2>a, <2>b
    DEF WakeUp, Due, Inv, TypeOK, Numbered, Scheduled, SentInThePast
  <2>5. CASE Send
    <3>1. /\ send_unix_ns <= t0 + packets * Interval
          /\ t0 + packets * Interval <= now
          /\ send_unix_ns \in Nat
      BY <2>5, TimestampInSchedule DEF Send
    <3>2. packets' * Interval = packets * Interval + Interval
      BY <2>0, <2>5, OneMoreInterval DEF Send, TypeOK
    <3>3. Numbered'
      <4>1. seq' = (seq + 1) % SeqMod /\ packets' = packets + 1
        BY <2>5 DEF Send, next_seq
      <4>2. seq' <= seq + 1
        BY <4>1, <2>0 DEF TypeOK
      <4>3. ASSUME packets' < SeqMod PROVE seq' = packets'
        <5>1. seq = packets
          BY <4>1, <4>3, <2>0 DEF Inv, Numbered, TypeOK
        <5>2. seq + 1 < SeqMod /\ seq + 1 \in Nat
          BY <4>1, <4>3, <5>1, <2>0 DEF TypeOK
        <5> QED
          BY <4>1, <5>1, <5>2
      <4> QED
        BY <4>1, <4>2, <4>3, <2>0 DEF Inv, Numbered, TypeOK
    <3>4. Scheduled'
      BY <2>0, <2>5, <3>2 DEF Send, Inv, Scheduled, TypeOK
    <3>5. SentInThePast'
      <4>1. packet'.send_unix_ns = send_unix_ns /\ packet'.at = now /\ pc' = "waiting"
        BY <2>5 DEF Send
      <4> QED
        BY <2>0, <2>5, <2>b, <3>1, <3>2, <4>1 DEF Send, SentInThePast, TypeOK
    <3> QED
      BY <3>3, <3>4, <3>5 DEF Inv
  <2>6. CASE Stop
    BY <2>0, <2>6, <2>a, <2>b DEF Stop, Inv, TypeOK, Numbered, Scheduled, SentInThePast
  <2>7. CASE UNCHANGED vars
    BY <2>7 DEF vars, Inv, TypeOK, Numbered, Scheduled, SentInThePast
  <2> QED
    BY <2>1, <2>2, <2>3, <2>4, <2>5, <2>6, <2>7 DEF Next
<1> QED
  BY <1>1, <1>2, TypeCorrect, PTL DEF Spec

\* NeverEarly, whatever the interval and however late the process is scheduled: the
\* loop sends no packet whose send_unix_ns is still to come.
THEOREM NeverSentEarly == Spec => []NeverEarly
<1>1. Inv => NeverEarly
  BY DEF Inv, SentInThePast, NeverEarly
<1> QED
  BY <1>1, Inductive, PTL

\* NeverBackwards: until seq wraps, a later packet shows a time no earlier, also across
\* a restart, after which the schedule starts at a clock read later.
THEOREM TimestampsNeverRunBackwards == Spec => NeverBackwards
<1> USE ServerAssumption
<1>1. Inv /\ [Next]_vars =>
        [packet' # packet /\ packet # None /\ packets' <= SeqMod
           => packet'.send_unix_ns >= packet.send_unix_ns]_vars
  <2> SUFFICES ASSUME Inv, [Next]_vars, packet' # packet, packet # None, packets' <= SeqMod
               PROVE  packet'.send_unix_ns >= packet.send_unix_ns
    OBVIOUS
  <2>1. Send
    BY DEF Next, vars, Tick, Boot, Start, WakeUp, Stop
  <2>2. packet'.send_unix_ns = t0 + seq * Interval
    BY <2>1 DEF Send, send_unix_ns
  <2>3. seq = packets
    BY <2>1 DEF Send, Inv, TypeOK, Numbered
  <2>4. packet.send_unix_ns <= t0 + packets * Interval
    BY <2>1 DEF Send, Inv, SentInThePast
  <2>5. packet.send_unix_ns \in Nat /\ t0 + packets * Interval \in Nat
    BY OneMoreInterval DEF Inv, TypeOK, Packet
  <2> QED
    BY <2>2, <2>3, <2>4, <2>5
<1> QED
  BY <1>1, Inductive, PTL DEF Spec, NeverBackwards

-----------------------------------------------------------------------------
(* Bytes.                                                                  *)

LEMMA WireSizes ==
  /\ Base \in Nat \ {0} /\ SeqLen \in Nat /\ NsLen \in Nat /\ MAGIC # <<>>
  /\ MAGIC \in Seq(0..Base-1)
  BY BroadcastAssumption

\* There are powers of Base for every place of a field.
LEMMA PowersExist ==
  ASSUME NEW m \in Nat
  PROVE  \E w \in [0..m -> Nat \ {0}] :
           w = [i \in 0..m |-> IF i = 0 THEN 1 ELSE Base * w[i - 1]]
<1> DEFINE Upto(n) == \E w \in [0..n -> Nat \ {0}] :
                         w = [i \in 0..n |-> IF i = 0 THEN 1 ELSE Base * w[i - 1]]
           S == {n \in Nat : Upto(n)}
<1>1. 0 \in S
  <2> DEFINE w == [i \in 0..0 |-> 1]
  <2>1. w \in [0..0 -> Nat \ {0}]
    OBVIOUS
  <2>2. w = [i \in 0..0 |-> IF i = 0 THEN 1 ELSE Base * w[i - 1]]
    OBVIOUS
  <2> QED
    BY <2>1, <2>2
<1>2. ASSUME NEW n \in Nat, n \in S PROVE n + 1 \in S
  <2>1. PICK w \in [0..n -> Nat \ {0}] :
               w = [i \in 0..n |-> IF i = 0 THEN 1 ELSE Base * w[i - 1]]
    BY <1>2
  <2> DEFINE x == Base * w[n]
             v == [i \in 0..n + 1 |-> IF i = n + 1 THEN x ELSE w[i]]
  <2>2. x \in Nat \ {0}
    <3>1. w[n] \in Nat \ {0} /\ Base \in Nat \ {0}
      BY WireSizes
    <3> QED
      BY <3>1
  <2> HIDE DEF x
  <2>3. v \in [0..n + 1 -> Nat \ {0}]
    BY <2>2
  <2>4. v = [i \in 0..n + 1 |-> IF i = 0 THEN 1 ELSE Base * v[i - 1]]
    <3> SUFFICES ASSUME NEW i \in 0..n + 1
                 PROVE  v[i] = IF i = 0 THEN 1 ELSE Base * v[i - 1]
      OBVIOUS
    <3>1. CASE i = n + 1
      BY <3>1 DEF x
    <3>2. CASE i # n + 1
      <4>1. i \in 0..n /\ (i # 0 => i - 1 \in 0..n /\ i - 1 # n + 1 /\ i - 1 \in 0..n + 1)
        BY <3>2
      <4>2. w[i] = IF i = 0 THEN 1 ELSE Base * w[i - 1]
        BY <2>1, <4>1
      <4> QED
        BY <3>2, <4>1, <4>2
    <3> QED
      BY <3>1, <3>2
  <2> HIDE DEF v
  <2>5. Upto(n + 1)
    BY <2>3, <2>4
  <2> HIDE DEF Upto
  <2> QED
    BY <2>5
<1> HIDE DEF S
<1>3. m \in S
  BY <1>1, <1>2, SetInduction
<1> QED
  BY <1>3 DEF S

LEMMA WeightStep ==
  /\ Wire!Weight[0] = 1
  /\ \A i \in 0..SeqLen + NsLen : Wire!Weight[i] \in Nat \ {0}
  /\ \A i \in 1..SeqLen + NsLen : Wire!Weight[i] = Base * Wire!Weight[i - 1]
<1> DEFINE m == SeqLen + NsLen
           W == Wire!Weight
           Good(w) == w = [i \in 0..m |-> IF i = 0 THEN 1 ELSE Base * w[i - 1]]
<1>1. m \in Nat /\ Base \in Nat \ {0}
  BY WireSizes
<1>2. \E w : Good(w)
  BY <1>1, PowersExist
<1>3. W = CHOOSE w : Good(w)
  BY DEF Wire!Weight
<1>4. Good(W)
  BY <1>2, <1>3
<1> HIDE DEF W, m
<1>5. \A i \in 0..m : W[i] = IF i = 0 THEN 1 ELSE Base * W[i - 1]
  BY <1>4, Zenon
<1>6. Nat \subseteq {n \in Nat : n \in 0..m => W[n] \in Nat \ {0}}
  <2> DEFINE S == {n \in Nat : n \in 0..m => W[n] \in Nat \ {0}}
  <2>1. 0 \in S
    BY <1>5
  <2>2. ASSUME NEW n \in Nat, n \in S PROVE n + 1 \in S
    <3> SUFFICES ASSUME n + 1 \in 0..m PROVE W[n + 1] \in Nat \ {0}
      OBVIOUS
    <3>1. n \in 0..m /\ n + 1 # 0 /\ (n + 1) - 1 = n
      BY <1>1
    <3>2. W[n] \in Nat \ {0} /\ W[n + 1] = Base * W[n]
      BY <1>5, <2>2, <3>1
    <3> QED
      BY <1>1, <3>2
  <2> HIDE DEF S
  <2> QED
    BY <2>1, <2>2, SetInduction DEF S
<1>7. \A i \in 0..m : W[i] \in Nat \ {0}
  BY <1>1, <1>6
<1>8. \A i \in 1..m : W[i] = Base * W[i - 1]
  BY <1>1, <1>5
<1> QED
  BY <1>1, <1>5, <1>7, <1>8 DEF W, m

\* The remainder of one more byte is that of the bytes so far and the byte's share.
LEMMA OneMoreByte ==
  ASSUME NEW n \in Nat, NEW w \in Nat \ {0}
  PROVE  n % (Base * w) = (n % w) + ((n \div w) % Base) * w
<1> DEFINE q == n \div w
           r == n % w
           p == q \div Base
           d == q % Base
           x == r + d * w
           m == Base * w
<1>1. Base \in Nat \ {0}
  BY WireSizes
<1>2. q \in Nat /\ n = w * q + r /\ r \in 0..w - 1
  OBVIOUS
<1>3. p \in Nat /\ q = Base * p + d /\ d \in 0..Base - 1
  BY <1>1, <1>2
<1> HIDE DEF q, r, p, d
<1>4. n = (Base * w) * p + (r + d * w)
  <2>1. w * q = (Base * w) * p + d * w
    BY <1>1, <1>2, <1>3
  <2>2. (Base * w) * p \in Int /\ d * w \in Int
    BY <1>1, <1>3
  <2> QED
    BY <1>2, <2>1, <2>2
<1>5. x \in 0..m - 1 /\ m \in Nat \ {0}
  <2>1. Base * w = d * w + w + (Base - 1 - d) * w
    BY <1>1, <1>3
  <2>2. d * w \in Nat /\ (Base - 1 - d) * w \in Nat
    <3>1. d \in Nat /\ Base - 1 - d \in Nat
      BY <1>1, <1>3
    <3> QED
      BY <3>1
  <2>3. Base * w \in Nat \ {0}
    BY <1>1
  <2> QED
    BY <1>2, <2>1, <2>2, <2>3
<1>6. n = m * p + x
  BY <1>4
<1> HIDE DEF x, m
<1>7. n % m = x
  BY <1>3, <1>5, <1>6, DivModUnique
<1> QED
  BY <1>7 DEF x, m, q, r, d

LEMMA BytesOf ==
  ASSUME NEW n \in Nat, NEW len \in 0..SeqLen + NsLen
  PROVE  /\ Wire!to_le_bytes(n, len) \in Seq(Int)
         /\ Len(Wire!to_le_bytes(n, len)) = len
         /\ \A i \in 1..len :
              Wire!to_le_bytes(n, len)[i] = (n \div Wire!Weight[i - 1]) % Base
<1> DEFINE s == Wire!to_le_bytes(n, len)
<1>1. len \in Nat /\ Base \in Nat \ {0} /\ SeqLen + NsLen \in Nat
  BY WireSizes
<1>2. s = [i \in 1..len |-> (n \div Wire!Weight[i - 1]) % Base]
  BY DEF Wire!to_le_bytes
<1>3. ASSUME NEW i \in 1..len PROVE (n \div Wire!Weight[i - 1]) % Base \in Int
  <2> DEFINE w == Wire!Weight[i - 1]
  <2>1. i - 1 \in 0..SeqLen + NsLen
    BY <1>1
  <2>2. w \in Nat \ {0}
    BY <2>1, WeightStep
  <2> HIDE DEF w
  <2>3. n \div w \in Nat
    BY <2>2
  <2>4. (n \div w) % Base \in Int
    BY <1>1, <2>3
  <2> QED
    BY <2>4 DEF w
<1> HIDE DEF s
<1>4. s \in [1..len -> Int]
  BY <1>2, <1>3
<1> QED
  BY <1>1, <1>2, <1>4 DEF s

\* A number that fits in len bytes is read from them as it was written.
LEMMA ReadAsWritten ==
  ASSUME NEW n \in Nat, NEW len \in 0..SeqLen + NsLen, n < Wire!Weight[len]
  PROVE  Wire!from_le_bytes(Wire!to_le_bytes(n, len)) = n
<1> DEFINE s == Wire!to_le_bytes(n, len)
           W == Wire!Weight
           Adds(v) == v = [i \in 0..len |-> IF i = 0 THEN 0 ELSE v[i - 1] + s[i] * W[i - 1]]
           u == [i \in 0..len |-> n % W[i]]
           value == CHOOSE v : Adds(v)
<1>1. len \in Nat /\ len <= SeqLen + NsLen /\ SeqLen + NsLen \in Nat
  BY WireSizes
<1>2. Len(s) = len
  BY BytesOf
<1>3. Wire!from_le_bytes(s) = value[len]
  BY <1>2 DEF Wire!from_le_bytes
<1>4. \A i \in 0..len : W[i] \in Nat \ {0}
  BY <1>1, WeightStep
<1>5. W[0] = 1
  BY WeightStep
<1>6. ASSUME NEW i \in 1..len
      PROVE  n % W[i] = (n % W[i - 1]) + s[i] * W[i - 1]
  <2> DEFINE w == W[i - 1]
  <2>1. i - 1 \in 0..len /\ i \in 1..SeqLen + NsLen
    BY <1>1
  <2>2. w \in Nat \ {0} /\ W[i] = Base * w
    BY <1>4, <2>1, WeightStep
  <2>3. s[i] = (n \div w) % Base
    BY BytesOf
  <2> HIDE DEF w, s, W
  <2>4. n % (Base * w) = (n % w) + ((n \div w) % Base) * w
    BY <2>2, OneMoreByte
  <2> QED
    BY <2>2, <2>3, <2>4 DEF w
<1> HIDE DEF s, W
<1>7. Adds(u)
  <2> SUFFICES ASSUME NEW i \in 0..len
               PROVE  u[i] = IF i = 0 THEN 0 ELSE u[i - 1] + s[i] * W[i - 1]
    OBVIOUS
  <2>1. CASE i = 0
    BY <1>1, <1>5, <2>1
  <2>2. CASE i # 0
    <3>1. i \in 1..len /\ i - 1 \in 0..len
      BY <1>1, <2>2
    <3> QED
      BY <1>6, <2>2, <3>1
  <2> QED
    BY <2>1, <2>2
<1>8. Adds(value)
  BY <1>7
<1> HIDE DEF value
<1>9. \A i \in 0..len : value[i] = IF i = 0 THEN 0 ELSE value[i - 1] + s[i] * W[i - 1]
  BY <1>8, Zenon
<1>10. Nat \subseteq {k \in Nat : k \in 0..len => value[k] = n % W[k]}
  <2> DEFINE S == {k \in Nat : k \in 0..len => value[k] = n % W[k]}
  <2>1. 0 \in S
    <3>1. value[0] = 0 /\ n % W[0] = 0
      BY <1>1, <1>5, <1>9
    <3> QED
      BY <3>1
  <2>2. ASSUME NEW k \in Nat, k \in S PROVE k + 1 \in S
    <3> SUFFICES ASSUME k + 1 \in 0..len PROVE value[k + 1] = n % W[k + 1]
      OBVIOUS
    <3>1. k \in 0..len /\ k + 1 \in 1..len /\ k + 1 # 0 /\ (k + 1) - 1 = k
      BY <1>1
    <3>2. value[k] = n % W[k]
      BY <2>2, <3>1
    <3>3. value[k + 1] = value[k] + s[k + 1] * W[k]
      BY <1>9, <3>1
    <3>4. n % W[k + 1] = (n % W[k]) + s[k + 1] * W[k]
      BY <1>6, <3>1
    <3> QED
      BY <3>2, <3>3, <3>4
  <2> HIDE DEF S
  <2> QED
    BY <2>1, <2>2, SetInduction DEF S
<1>11. value[len] = n % W[len]
  BY <1>1, <1>10
<1>12. n % W[len] = n
  <2>1. W[len] \in Nat \ {0} /\ n < W[len]
    BY <1>1, <1>4 DEF W
  <2> QED
    BY <2>1
<1> QED
  BY <1>3, <1>11, <1>12 DEF s

-----------------------------------------------------------------------------
(* Frames.                                                                 *)

\* Environment: what precedes a packet in its frame does not show MAGIC, not even together
\* with the start of the packet, which would be found in the packet's place.
Foreign == \A h \in Headers : \A i \in 1..Len(h) : ~Wire!MagicAt(h \o MAGIC, i)

\* The field of a packet's time is wide enough: 128 bits of nanoseconds in the code.
TimesFit == MaxTime < Wire!Weight[NsLen]

Sendable == [seq : 0..SeqMod-1, send_unix_ns : 0..MaxTime]

\* The parts of a frame are sequences of numbers.
LEMMA Parts ==
  /\ MAGIC \in Seq(Int)
  /\ Len(MAGIC) \in Nat \ {0}
  /\ Headers \subseteq Seq(Int)
  /\ Trailers \subseteq Seq(Int)
<1>1. \A s \in Seq(0..Base-1) : s \in Seq(Int)
  <2> TAKE s \in Seq(0..Base-1)
  <2>1. \A k \in 1..Len(s) : s[k] \in 0..Base-1
    BY ElementOfSeq
  <2>2. \A k \in 1..Len(s) : s[k] \in Int
    BY <2>1
  <2> QED
    BY <2>2, SeqMonotonic
<1> QED
  BY <1>1, EmptySeq, BroadcastAssumption

\* Two sequences of numbers, one after the other.
LEMMA Joined ==
  ASSUME NEW s \in Seq(Int), NEW t \in Seq(Int)
  PROVE  /\ s \o t \in Seq(Int)
         /\ Len(s) \in Nat /\ Len(t) \in Nat /\ Len(s \o t) = Len(s) + Len(t)
         /\ \A i \in 1..Len(s) : (s \o t)[i] = s[i]
         /\ \A i \in 1..Len(t) : (s \o t)[Len(s) + i] = t[i]
<1> DEFINE m == Len(s)
           n == Len(t)
           u == s \o t
<1>1. m \in Nat /\ n \in Nat
  BY LenProperties
<1>2. u \in Seq(Int) /\ Len(u) = m + n
  BY ConcatProperties
<1>3. \A i \in 1..m + n : u[i] = IF i <= m THEN s[i] ELSE t[i - m]
  BY ConcatProperties
<1> HIDE DEF m, n, u
<1>4. ASSUME NEW i \in 1..m PROVE u[i] = s[i]
  BY <1>1, <1>3
<1>5. ASSUME NEW i \in 1..n PROVE u[m + i] = t[i]
  <2>1. m + i \in 1..m + n /\ ~(m + i <= m) /\ (m + i) - m = i
    BY <1>1
  <2> QED
    BY <1>3, <2>1
<1> QED
  BY <1>1, <1>2, <1>4, <1>5 DEF m, n, u

\* The part of a buffer after its first a bytes, up to the c-th.
LEMMA Slice ==
  ASSUME NEW buf \in Seq(Int), NEW a \in Nat, NEW c \in Nat, a <= c, c <= Len(buf)
  PROVE  /\ SubSeq(buf, a + 1, c) \in Seq(Int)
         /\ Len(SubSeq(buf, a + 1, c)) = c - a
         /\ \A i \in 1..c - a : SubSeq(buf, a + 1, c)[i] = buf[a + i]
<1> DEFINE b == a + 1
           u == SubSeq(buf, b, c)
<1>1. \A i \in b..c : buf[i] \in Int
  <2>1. Len(buf) \in Nat
    BY LenProperties
  <2>2. \A i \in b..c : i \in 1..Len(buf)
    BY <2>1
  <2> QED
    BY <2>2, ElementOfSeq
<1>2. /\ b \in Int /\ c \in Int /\ c - b + 1 = c - a
      /\ b <= c <=> c - a # 0
      /\ \A i \in 1..c - a : b + i - 1 = a + i
  OBVIOUS
<1> HIDE DEF b
<1>3. /\ u \in Seq(Int)
      /\ Len(u) = IF b <= c THEN c - b + 1 ELSE 0
      /\ \A i \in 1..c - b + 1 : u[i] = buf[b + i - 1]
  BY <1>1, <1>2, SubSeqProperties
<1> HIDE DEF u
<1>4. Len(u) = c - a
  BY <1>2, <1>3
<1>5. \A i \in 1..c - a : u[i] = buf[a + i]
  BY <1>2, <1>3
<1> QED
  BY <1>3, <1>4, <1>5 DEF u, b

\* The first bytes of a buffer.
LEMMA Prefix ==
  ASSUME NEW buf \in Seq(Int), NEW c \in Nat, c <= Len(buf)
  PROVE  /\ SubSeq(buf, 1, c) \in Seq(Int)
         /\ Len(SubSeq(buf, 1, c)) = c
         /\ \A i \in 1..c : SubSeq(buf, 1, c)[i] = buf[i]
<1> DEFINE a == 0
<1>1. a \in Nat /\ a <= c /\ a + 1 = 1 /\ c - a = c /\ \A i \in 1..c : a + i = i
  OBVIOUS
<1> HIDE DEF a
<1>2. /\ SubSeq(buf, a + 1, c) \in Seq(Int)
      /\ Len(SubSeq(buf, a + 1, c)) = c - a
      /\ \A i \in 1..c - a : SubSeq(buf, a + 1, c)[i] = buf[a + i]
  BY <1>1, Slice
<1> QED
  BY <1>1, <1>2

\* A place in a field, counted from the start of the buffer.
LEMMA PlaceOf ==
  ASSUME NEW a \in Nat, NEW n \in Nat, NEW z \in Nat, NEW i \in 1..n
  PROVE  a + i \in 1..a + n + z
OBVIOUS

\* What n bytes after the first a of a buffer hold.
LEMMA Field ==
  ASSUME NEW buf \in Seq(Int), NEW a \in Nat, NEW n \in Nat, a + n <= Len(buf),
         NEW s \in Seq(Int), Len(s) = n, \A i \in 1..n : buf[a + i] = s[i]
  PROVE  SubSeq(buf, a + 1, a + n) = s
<1> DEFINE c == a + n
           u == SubSeq(buf, a + 1, c)
<1>1. c \in Nat /\ a <= c /\ c <= Len(buf) /\ c - a = n
  OBVIOUS
<1> HIDE DEF c
<1>2. u \in Seq(Int) /\ Len(u) = c - a /\ \A i \in 1..c - a : u[i] = buf[a + i]
  BY <1>1, Slice
<1> HIDE DEF u
<1>3. \A i \in 1..n : u[i] = s[i]
  BY <1>1, <1>2
<1>4. u = s
  BY <1>1, <1>2, <1>3, SeqEqual
<1> QED
  BY <1>4 DEF u, c

\* Where the three fields of a packet lie.
LEMMA PacketBytes ==
  ASSUME NEW p \in Sendable
  PROVE  /\ Wire!to_bytes(p) \in Seq(Int)
         /\ Len(Wire!to_bytes(p)) = Wire!SIZE
         /\ \A i \in 1..Len(MAGIC) : Wire!to_bytes(p)[i] = MAGIC[i]
         /\ \A i \in 1..SeqLen :
              Wire!to_bytes(p)[Len(MAGIC) + i] = Wire!to_le_bytes(p.seq, SeqLen)[i]
         /\ \A i \in 1..NsLen :
              Wire!to_bytes(p)[Len(MAGIC) + SeqLen + i]
                = Wire!to_le_bytes(p.send_unix_ns, NsLen)[i]
<1> DEFINE q == Wire!to_le_bytes(p.seq, SeqLen)
           n == Wire!to_le_bytes(p.send_unix_ns, NsLen)
           m == MAGIC \o q
           M == Len(MAGIC)
<1>1. p.seq \in Nat /\ p.send_unix_ns \in Nat
  BY ServerAssumption DEF Sendable
<1>2. SeqLen \in 0..SeqLen + NsLen /\ NsLen \in 0..SeqLen + NsLen
  BY WireSizes
<1>3. q \in Seq(Int) /\ Len(q) = SeqLen
  BY <1>1, <1>2, BytesOf
<1>4. n \in Seq(Int) /\ Len(n) = NsLen
  BY <1>1, <1>2, BytesOf
<1>5. Wire!to_bytes(p) = m \o n
  BY DEF Wire!to_bytes
<1> HIDE DEF q, n
<1>6. /\ m \in Seq(Int) /\ Len(m) = M + SeqLen
      /\ \A i \in 1..M : m[i] = MAGIC[i]
      /\ \A i \in 1..SeqLen : m[M + i] = q[i]
  BY <1>3, Parts, Joined
<1> HIDE DEF m
<1>7. /\ m \o n \in Seq(Int) /\ Len(m \o n) = M + SeqLen + NsLen
      /\ \A i \in 1..M + SeqLen : (m \o n)[i] = m[i]
      /\ \A i \in 1..NsLen : (m \o n)[M + SeqLen + i] = n[i]
  <2>1. /\ m \o n \in Seq(Int)
        /\ Len(m \o n) = Len(m) + Len(n)
        /\ \A i \in 1..Len(m) : (m \o n)[i] = m[i]
        /\ \A i \in 1..Len(n) : (m \o n)[Len(m) + i] = n[i]
    BY <1>4, <1>6, Joined
  <2> HIDE DEF M
  <2> QED
    BY <1>4, <1>6, <2>1, Zenon
<1>8. M \in Nat /\ SeqLen \in Nat
  BY Parts, WireSizes
<1>9. (\A i \in 1..M : i \in 1..M + SeqLen)
      /\ \A i \in 1..SeqLen : M + i \in 1..M + SeqLen
  BY <1>8
<1> QED
  BY <1>5, <1>6, <1>7, <1>9 DEF q, n, Wire!SIZE

\* What starts with a packet is parsed as that packet.
LEMMA ParsedAsWritten ==
  ASSUME TimesFit, NEW p \in Sendable, NEW buf \in Seq(Int), Wire!SIZE <= Len(buf),
         \A i \in 1..Wire!SIZE : buf[i] = Wire!to_bytes(p)[i]
  PROVE  /\ Wire!parse(buf) = p
         /\ Wire!MagicAt(buf, 1)
<1> DEFINE q == Wire!to_le_bytes(p.seq, SeqLen)
           n == Wire!to_le_bytes(p.send_unix_ns, NsLen)
           M == Len(MAGIC)
           bytes == Wire!to_bytes(p)
<1>1. M \in Nat \ {0} /\ SeqLen \in Nat /\ NsLen \in Nat /\ Wire!SIZE = M + SeqLen + NsLen
      /\ Len(buf) \in Nat
  BY Parts, WireSizes, LenProperties DEF Wire!SIZE
<1>2. p.seq \in Nat /\ p.send_unix_ns \in Nat
  BY ServerAssumption DEF Sendable
<1>3. SeqLen \in 0..SeqLen + NsLen /\ NsLen \in 0..SeqLen + NsLen
  BY WireSizes
<1>4. q \in Seq(Int) /\ Len(q) = SeqLen /\ n \in Seq(Int) /\ Len(n) = NsLen
  BY <1>2, <1>3, BytesOf
<1>5. /\ \A i \in 1..M : bytes[i] = MAGIC[i]
      /\ \A i \in 1..SeqLen : bytes[M + i] = q[i]
      /\ \A i \in 1..NsLen : bytes[M + SeqLen + i] = n[i]
  BY PacketBytes
<1> HIDE DEF q, n, bytes
<1>6. \A i \in 1..M + SeqLen + NsLen : buf[i] = bytes[i]
  BY <1>1 DEF bytes
<1> HIDE DEF M
<1>7. SubSeq(buf, 0 + 1, 0 + M) = MAGIC
  <2>1. \A i \in 1..M : buf[0 + i] = MAGIC[i]
    BY <1>1, <1>5, <1>6
  <2>2. MAGIC \in Seq(Int) /\ Len(MAGIC) = M /\ 0 \in Nat /\ M \in Nat /\ 0 + M <= Len(buf)
    BY <1>1, Parts DEF M
  <2> QED
    BY <2>1, <2>2, Field
<1>8. SubSeq(buf, M + 1, M + SeqLen) = q
  <2>1. \A i \in 1..SeqLen : M + i \in 1..M + SeqLen + NsLen
    BY <1>1, PlaceOf
  <2>2. \A i \in 1..SeqLen : buf[M + i] = q[i]
    BY <1>5, <1>6, <2>1
  <2>3. M + SeqLen <= Len(buf)
    BY <1>1
  <2> QED
    BY <1>1, <1>4, <2>2, <2>3, Field
<1>9. SubSeq(buf, M + SeqLen + 1, M + SeqLen + NsLen) = n
  <2>1. \A i \in 1..NsLen : M + SeqLen + i \in 1..M + SeqLen + NsLen
    BY <1>1
  <2>2. \A i \in 1..NsLen : buf[M + SeqLen + i] = n[i]
    BY <1>5, <1>6, <2>1
  <2>3. M + SeqLen + NsLen <= Len(buf) /\ M + SeqLen \in Nat
    BY <1>1
  <2> QED
    BY <1>1, <1>4, <2>2, <2>3, Field
<1>10. Wire!from_le_bytes(q) = p.seq
  <2>1. p.seq < Wire!Weight[SeqLen]
    BY <1>2, ServerAssumption, BroadcastAssumption DEF Sendable
  <2> QED
    BY <1>2, <1>3, <2>1, ReadAsWritten DEF q
<1>11. Wire!from_le_bytes(n) = p.send_unix_ns
  <2>1. Wire!Weight[NsLen] \in Nat
    BY <1>3, WeightStep
  <2>2. p.send_unix_ns <= MaxTime /\ MaxTime \in Nat
    BY ServerAssumption DEF Sendable
  <2>3. p.send_unix_ns < Wire!Weight[NsLen]
    BY <1>2, <2>1, <2>2 DEF TimesFit
  <2> QED
    BY <1>2, <1>3, <2>3, ReadAsWritten DEF n
<1>12. Wire!MagicAt(buf, 1)
  <2>1. 0 + 1 = 1 /\ 0 + M = M /\ 1 + M - 1 = M
    BY <1>1
  <2> QED
    BY <1>7, <2>1 DEF Wire!MagicAt, M
<1>13. Wire!parse(buf) = [seq |-> p.seq, send_unix_ns |-> p.send_unix_ns]
  <2>1. ~(Len(buf) < Wire!SIZE)
    BY <1>1
  <2>2. /\ SubSeq(buf, Len(MAGIC) + 1, Len(MAGIC) + SeqLen) = q
        /\ SubSeq(buf, Len(MAGIC) + SeqLen + 1, Wire!SIZE) = n
    BY <1>1, <1>8, <1>9 DEF M
  <2> QED
    BY <1>10, <1>11, <1>12, <2>1, <2>2 DEF Wire!parse
<1> QED
  BY <1>12, <1>13 DEF Sendable

\* In a frame that shows MAGIC after its header, no place is found before it.
LEMMA NothingInHeader ==
  ASSUME Foreign, NEW h \in Headers, NEW buf \in Seq(Int), NEW i \in 1..Len(h),
         Len(h) + Len(MAGIC) - 1 <= Len(buf),
         \A j \in 1..Len(h) + Len(MAGIC) - 1 : buf[j] = (h \o MAGIC)[j]
  PROVE  ~Wire!MagicAt(buf, i)
<1> DEFINE M == Len(MAGIC)
           H == Len(h)
           s == h \o MAGIC
           k == i - 1
<1>1. M \in Nat \ {0} /\ H \in Nat /\ s \in Seq(Int) /\ Len(s) = H + M /\ MAGIC \in Seq(Int)
  BY Parts, Joined
<1>2. Len(buf) \in Nat /\ H + M - 1 <= Len(buf) /\ \A j \in 1..H + M - 1 : buf[j] = s[j]
  BY LenProperties
<1>3. k \in Nat /\ k < H /\ i = k + 1
  BY <1>1
<1> HIDE DEF k, H, M
<1>4. k + M <= Len(buf) /\ i + M - 1 = k + M /\ k + M <= Len(s)
      /\ \A j \in 1..M : k + j \in 1..H + M - 1
  BY <1>1, <1>2, <1>3
<1>5. SUFFICES ASSUME Wire!MagicAt(buf, i) PROVE Wire!MagicAt(s, i)
  <2>1. ~Wire!MagicAt(s, i)
    BY DEF Foreign
  <2> QED
    BY <2>1
<1>6. SubSeq(buf, k + 1, k + M) = MAGIC
  BY <1>3, <1>4, <1>5 DEF Wire!MagicAt, M
<1> HIDE DEF s
<1>7. \A j \in 1..M : s[k + j] = MAGIC[j]
  <2> TAKE j \in 1..M
  <2>1. k <= k + M /\ k + M \in Nat /\ k + M <= Len(buf) /\ j \in 1..(k + M) - k
    BY <1>1, <1>3, <1>4
  <2>2. SubSeq(buf, k + 1, k + M)[j] = buf[k + j]
    BY <1>3, <2>1, Slice
  <2> QED
    BY <1>2, <1>4, <1>6, <2>2
<1>8. SubSeq(s, k + 1, k + M) = MAGIC
  <2>1. s \in Seq(Int) /\ k \in Nat /\ M \in Nat /\ MAGIC \in Seq(Int)
    BY <1>1, <1>3
  <2>2. k + M <= Len(s) /\ Len(MAGIC) = M
    BY <1>4 DEF M
  <2> QED
    BY <1>7, <2>1, <2>2, Field, Zenon
<1> QED
  BY <1>3, <1>4, <1>8 DEF Wire!MagicAt, M

\* What find_in_frame makes of the frame of a packet, whole or less its last byte.
LEMMA FoundInFrame ==
  ASSUME Foreign, TimesFit, NEW p \in Sendable, NEW h \in Headers, NEW t \in Trailers,
         NEW cut \in 0..1, NEW frame, frame = h \o Wire!to_bytes(p) \o t
  PROVE  Wire!find_in_frame(SubSeq(frame, 1, Len(frame) - cut))
           = IF cut <= Len(t) THEN p ELSE None
<1> DEFINE M == Len(MAGIC)
           H == Len(h)
           T == Len(t)
           Z == Wire!SIZE
           bytes == Wire!to_bytes(p)
           hm == h \o MAGIC
           hb == h \o bytes
           N == H + Z + T - cut
           buf == SubSeq(frame, 1, N)
<1>1. /\ M \in Nat \ {0} /\ H \in Nat /\ T \in Nat /\ Z \in Nat /\ M <= Z
      /\ h \in Seq(Int) /\ t \in Seq(Int) /\ MAGIC \in Seq(Int)
  BY Parts, WireSizes, LenProperties DEF Wire!SIZE
<1>2. /\ bytes \in Seq(Int) /\ Len(bytes) = Z
      /\ \A i \in 1..M : bytes[i] = MAGIC[i]
  BY PacketBytes
<1> HIDE DEF bytes
<1>3. /\ hm \in Seq(Int)
      /\ \A i \in 1..H : hm[i] = h[i]
      /\ \A i \in 1..M : hm[H + i] = MAGIC[i]
  BY <1>1, Joined
<1>4. /\ hb \in Seq(Int) /\ Len(hb) = H + Z
      /\ \A i \in 1..H : hb[i] = h[i]
      /\ \A i \in 1..Z : hb[H + i] = bytes[i]
  BY <1>1, <1>2, Joined
<1>5. frame = hb \o t
  BY DEF bytes
<1> HIDE DEF hm, hb, M, H, T, Z
<1>6. /\ frame \in Seq(Int) /\ Len(frame) = H + Z + T
      /\ \A i \in 1..H + Z : frame[i] = hb[i]
  <2>1. /\ hb \o t \in Seq(Int) /\ Len(hb \o t) = Len(hb) + Len(t)
        /\ \A i \in 1..Len(hb) : (hb \o t)[i] = hb[i]
    BY <1>1, <1>4, Joined
  <2>2. Len(t) = T
    BY DEF T
  <2> QED
    BY <1>4, <1>5, <2>1, <2>2, Zenon
<1>7. N \in Nat /\ N <= H + Z + T /\ H + Z - 1 <= N /\ Len(frame) - cut = N
      /\ (cut <= T => H + Z <= N) /\ (~(cut <= T) => N = H + Z - 1)
  BY <1>1, <1>6
<1> HIDE DEF N
<1>8. /\ buf \in Seq(Int) /\ Len(buf) = N
      /\ \A i \in 1..N : buf[i] = frame[i]
  <2>1. N <= Len(frame)
    BY <1>6, <1>7
  <2> QED
    BY <1>6, <1>7, <2>1, Prefix
<1> HIDE DEF buf
<1>9. \A i \in 1..H : ~Wire!MagicAt(buf, i)
  <2> TAKE i \in 1..H
  <2>1. H + M - 1 <= Len(buf)
    BY <1>1, <1>7, <1>8
  <2>2. ASSUME NEW j \in 1..H + M - 1 PROVE buf[j] = hm[j]
    <3>1. j \in 1..N /\ j \in 1..H + Z
      BY <1>1, <1>7
    <3>2. buf[j] = hb[j]
      BY <1>6, <1>8, <3>1
    <3>3. CASE j \in 1..H
      BY <1>3, <1>4, <3>2, <3>3
    <3>4. CASE j \notin 1..H
      <4> DEFINE l == j - H
      <4>1. l \in 1..M /\ l \in 1..Z /\ j = H + l
        BY <1>1, <3>4
      <4> HIDE DEF l
      <4> QED
        BY <1>2, <1>3, <1>4, <3>2, <4>1
    <3> QED
      BY <3>3, <3>4
  <2> QED
    BY <1>8, <2>1, <2>2, NothingInHeader DEF H, M, hm
<1>10. CASE ~(cut <= T)
  <2>1. Wire!Places(buf) = {}
    <3>1. Wire!Places(buf) = {i \in 1..N - Z + 1 : Wire!MagicAt(buf, i)}
      BY <1>8 DEF Wire!Places, Z
    <3>2. N - Z + 1 = H
      BY <1>1, <1>7, <1>10
    <3> QED
      BY <1>9, <3>1, <3>2
  <2>2. Wire!find_in_frame(buf) = None
    BY <2>1 DEF Wire!find_in_frame
  <2> QED
    BY <1>7, <1>10, <2>2 DEF buf, T
<1>11. CASE cut <= T
  <2> DEFINE k == H + 1
             sub == SubSeq(buf, k, N)
  <2>1. H + Z <= N
    BY <1>7, <1>11
  <2>2. /\ sub \in Seq(Int) /\ Len(sub) = N - H
        /\ \A i \in 1..N - H : sub[i] = buf[H + i]
    <3>1. H <= N /\ N <= Len(buf)
      BY <1>1, <1>7, <1>8, <2>1
    <3> QED
      BY <1>1, <1>7, <1>8, <3>1, Slice
  <2>3. \A i \in 1..Z : sub[i] = bytes[i]
    <3> TAKE i \in 1..Z
    <3>1. i \in 1..N - H /\ H + i \in 1..N /\ H + i \in 1..H + Z
      BY <1>1, <1>7, <2>1
    <3> QED
      BY <1>4, <1>6, <1>8, <2>2, <3>1
  <2>4. Z <= Len(sub)
    <3>1. Z <= N - H
      BY <1>1, <1>7, <2>1
    <3> QED
      BY <2>2, <3>1
  <2>5. Wire!parse(sub) = p /\ Wire!MagicAt(sub, 1)
    BY <2>2, <2>3, <2>4, ParsedAsWritten DEF Z, bytes
  <2>6. Wire!MagicAt(buf, k)
    <3>1. SubSeq(sub, 0 + 1, 0 + M) = MAGIC
      <4>1. 0 + 1 = 1 /\ 0 + M = M /\ 1 + M - 1 = M
        BY <1>1
      <4> QED
        BY <2>5, <4>1 DEF Wire!MagicAt, M
    <3>2. \A i \in 1..M : buf[H + i] = MAGIC[i]
      <4> TAKE i \in 1..M
      <4>1. i \in 1..N - H /\ i \in 1..Z
        BY <1>1, <1>7, <2>1
      <4> QED
        BY <1>2, <2>2, <2>3, <4>1
    <3>3. SubSeq(buf, H + 1, H + M) = MAGIC
      <4>1. H + M <= Len(buf) /\ M \in Nat /\ Len(MAGIC) = M
        BY <1>1, <1>7, <1>8, <2>1 DEF M
      <4> QED
        BY <1>1, <1>8, <3>2, <4>1, Field
    <3>4. k + M - 1 = H + M
      BY <1>1
    <3> QED
      BY <3>3, <3>4 DEF Wire!MagicAt, M
  <2> DEFINE Places == Wire!Places(buf)
  <2>7. k \in Places /\ \A j \in Places : j \in Nat /\ k <= j
    <3>1. Places = {i \in 1..N - Z + 1 : Wire!MagicAt(buf, i)}
      BY <1>8 DEF Wire!Places, Z
    <3>2. k \in 1..N - Z + 1
      BY <1>1, <1>7, <2>1
    <3>3. ASSUME NEW j \in 1..N - Z + 1, Wire!MagicAt(buf, j) PROVE k <= j
      BY <1>1, <1>9, <3>3
    <3> QED
      BY <2>6, <3>1, <3>2, <3>3
  <2> HIDE DEF Places
  <2>8. (CHOOSE i \in Places : \A j \in Places : i <= j) = k
    <3>1. \A i \in Places : (\A j \in Places : i <= j) => i = k
      <4> TAKE i \in Places
      <4> HAVE \A j \in Places : i <= j
      <4>1. i <= k /\ k <= i /\ i \in Nat /\ k \in Nat
        BY <1>1, <2>7
      <4> QED
        BY <4>1
    <3> QED
      BY <2>7, <3>1
  <2>9. Wire!find_in_frame(buf) = Wire!parse(SubSeq(buf, k, Len(buf)))
    <3>1. Places # {}
      BY <2>7
    <3> HIDE DEF k
    <3> QED
      BY <2>8, <3>1 DEF Wire!find_in_frame, Places
  <2>10. Wire!find_in_frame(buf) = p
    BY <1>8, <2>5, <2>9
  <2> QED
    BY <1>7, <1>11, <2>10 DEF buf, T
<1> QED
  BY <1>10, <1>11

\* In the air there are packets whose sequence number and time fit their fields.
BroadcastInv ==
  /\ Inv
  /\ now <= MaxTime
  /\ air \subseteq Sendable

\* HeardAsSent, for every header, trailer, MAGIC and width of the fields that meet the
\* assumptions, and however many packets are in the air: find_in_frame gives back the
\* packet to_bytes wrote, or nothing when the frame was cut into it.
THEOREM PacketsHeardAsSent ==
  ASSUME Foreign, TimesFit
  PROVE  BroadcastSpec => []HeardAsSent
<1> USE ServerAssumption
<1>1. BroadcastSpec => Spec
  <2>1. BroadcastInit => Init
    BY DEF BroadcastInit
  <2>2. [BroadcastNext]_broadcastVars => [Next]_vars
    BY DEF BroadcastNext, broadcastVars, Next, Broadcast, Receive, Lose
  <2> QED
    BY <2>1, <2>2, PTL DEF BroadcastSpec, Spec
<1>2. BroadcastInit /\ Inv => BroadcastInv
  BY DEF BroadcastInit, Init, BroadcastInv
<1>3. BroadcastInv /\ Inv' /\ [BroadcastNext]_broadcastVars => BroadcastInv'
  <2> SUFFICES ASSUME BroadcastInv, Inv', [BroadcastNext]_broadcastVars PROVE BroadcastInv'
    OBVIOUS
  <2>0. now \in Nat /\ now <= MaxTime /\ air \subseteq Sendable
    BY DEF BroadcastInv, Inv, TypeOK
  <2>1. now' <= MaxTime
    <3>1. CASE Tick
      BY <2>0, <3>1 DEF Tick
    <3>2. CASE now' = now
      BY <2>0, <3>2
    <3> QED
      BY <3>1, <3>2
      DEF BroadcastNext, broadcastVars, vars, Boot, Start, WakeUp, Stop, Broadcast, Send,
          Receive, Lose
  <2>2. air' \subseteq Sendable
    <3>1. CASE Broadcast
      <4>1. pc = "sending"
        BY <3>1 DEF Broadcast, Send
      <4>2. send_unix_ns <= t0 + packets * Interval /\ t0 + packets * Interval <= now
            /\ send_unix_ns \in Nat /\ packets * Interval \in Nat
        BY <4>1, TimestampInSchedule DEF BroadcastInv
      <4>3. t0 \in Nat /\ seq \in 0..SeqMod-1
        BY DEF BroadcastInv, Inv, TypeOK
      <4>4. send_unix_ns \in 0..MaxTime
        BY <2>0, <4>2, <4>3
      <4>5. [seq |-> seq, send_unix_ns |-> send_unix_ns] \in Sendable
        BY <4>3, <4>4 DEF Sendable
      <4> QED
        BY <2>0, <3>1, <4>5 DEF Broadcast
    <3>2. CASE Lose
      BY <2>0, <3>2 DEF Lose
    <3>3. CASE air' = air
      BY <2>0, <3>3
    <3> QED
      BY <3>1, <3>2, <3>3 DEF BroadcastNext, broadcastVars, Quietly, Receive
  <2> QED
    BY <2>1, <2>2 DEF BroadcastInv
<1>4. BroadcastInit => HeardAsSent
  BY DEF BroadcastInit, HeardAsSent
<1>5. BroadcastInv /\ HeardAsSent /\ [BroadcastNext]_broadcastVars => HeardAsSent'
  <2> SUFFICES ASSUME BroadcastInv, HeardAsSent, [BroadcastNext]_broadcastVars
               PROVE  HeardAsSent'
    OBVIOUS
  <2>1. CASE Receive
    <3>1. PICK p \in air, h \in Headers, t \in Trailers, cut \in 0..1 :
            LET frame == h \o Wire!to_bytes(p) \o t
            IN  heard' = [of |-> p, whole |-> cut <= Len(t),
                          found |-> Wire!find_in_frame(SubSeq(frame, 1, Len(frame) - cut))]
      BY <2>1 DEF Receive
    <3> DEFINE frame == h \o Wire!to_bytes(p) \o t
               found == Wire!find_in_frame(SubSeq(frame, 1, Len(frame) - cut))
    <3>2. p \in Sendable
      BY DEF BroadcastInv
    <3>3. found = IF cut <= Len(t) THEN p ELSE None
      BY <3>2, FoundInFrame
    <3>4. heard' = [of |-> p, whole |-> cut <= Len(t), found |-> found]
      BY <3>1
    <3> HIDE DEF found
    <3> QED
      BY <3>3, <3>4 DEF HeardAsSent
  <2>2. CASE heard' = None
    BY <2>2 DEF HeardAsSent
  <2>3. CASE heard' = heard
    BY <2>3 DEF HeardAsSent
  <2> QED
    BY <2>1, <2>2, <2>3 DEF BroadcastNext, broadcastVars, Quietly, Broadcast, Lose
<1> QED
  BY <1>1, <1>2, <1>3, <1>4, <1>5, Inductive, PTL DEF BroadcastSpec

=============================================================================
