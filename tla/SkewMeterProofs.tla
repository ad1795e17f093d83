--------------------------- MODULE SkewMeterProofs --------------------------
(***************************************************************************)
(* What SkewMeter promises, for every period, window, error of the reports *)
(* and length of the run.                                                  *)
(***************************************************************************)
EXTENDS SkewMeter, IntegerTheorems, SequenceTheorems

-----------------------------------------------------------------------------
(* The history and the closest transmission in it.                         *)

Sent == [tick : Nat, synced_ns : Nat]

LEMMA MagnitudeType == \A x \in Int : Magnitude(x) \in Nat
  BY DEF Magnitude

\* What is trimmed is what precedes the first transmission from the cutoff on, and the
\* newest one is never trimmed.
LEMMA TrimKeeps ==
  ASSUME NEW q \in Seq(Sent), q # <<>>
  PROVE  \E first \in 1..Len(q) :
           /\ Trim(q) = SubSeq(q, first, Len(q))
           /\ q[first].synced_ns >= Cutoff(q[Len(q)].synced_ns)
           /\ \A i \in 1..Len(q) :
                q[i].synced_ns >= Cutoff(q[Len(q)].synced_ns) => first <= i
<1> DEFINE cut == Cutoff(q[Len(q)].synced_ns)
           fresh == {i \in 1..Len(q) : q[i].synced_ns >= cut}
           first == CHOOSE i \in fresh : \A j \in fresh : i <= j
<1>1. Len(q) \in 1..Len(q) /\ \A i \in 1..Len(q) : q[i] \in Sent
  BY EmptySeq, ElementOfSeq
<1>2. q[Len(q)].synced_ns \in Nat
  BY <1>1 DEF Sent
<1>3. q[Len(q)].synced_ns >= cut
  <2> DEFINE newest == q[Len(q)].synced_ns
  <2>1. newest \in Nat /\ match_window \in Nat
    BY <1>2, MeterAssumption
  <2> HIDE DEF newest
  <2>2. newest >= Cutoff(newest)
    BY <2>1 DEF Cutoff
  <2> QED
    BY <2>2 DEF newest
<1>4. fresh \subseteq Nat /\ fresh # {}
  BY <1>1, <1>3
<1>5. Trim(q) = SubSeq(q, first, Len(q))
  BY DEF Trim
<1>6. first \in fresh /\ \A j \in fresh : first <= j
  <2> HIDE DEF fresh
  <2>1. \E i \in fresh : \A j \in fresh : i <= j
    BY <1>4, LeastElement
  <2> QED
    BY <2>1
<1> HIDE DEF first
<1> QED
  BY <1>5, <1>6

\* The transmission a reception is paired with is one of the candidates.
LEMMA BestIsCandidate ==
  ASSUME NEW q \in Seq(Sent), NEW x \in Nat, Candidates(q, x) # {}
  PROVE  Best(q, x) \in Candidates(q, x)
<1> DEFINE C == Candidates(q, x)
           D(i) == Magnitude(x - q[i].synced_ns)
           Dists == {D(i) : i \in C}
           nearest(i) == \A j \in C : D(i) < D(j) \/ (D(i) = D(j) /\ i <= j)
<1>1. C \subseteq 1..Len(q)
  BY DEF Candidates
<1>2. \A i \in C : D(i) \in Nat
  <2> SUFFICES ASSUME NEW i \in C PROVE D(i) \in Nat
    OBVIOUS
  <2>1. q[i].synced_ns \in Nat
    <3>1. i \in 1..Len(q)
      BY <1>1
    <3>2. q[i] \in Sent
      BY <3>1, ElementOfSeq
    <3> QED
      BY <3>2 DEF Sent
  <2>2. x - q[i].synced_ns \in Int
    BY <2>1
  <2> QED
    BY <2>2, MagnitudeType
<1>3. PICK m \in Dists : \A y \in Dists : m <= y
  <2>1. Dists \subseteq Nat /\ Dists # {}
    BY <1>2
  <2> HIDE DEF Dists
  <2> QED
    BY <2>1, LeastElement
<1> DEFINE Closest == {i \in C : D(i) = m}
<1>4. PICK i \in Closest : \A j \in Closest : i <= j
  <2>1. Closest \subseteq Nat /\ Closest # {}
    BY <1>1, <1>3
  <2> HIDE DEF Closest
  <2> QED
    BY <2>1, LeastElement
<1>5. nearest(i)
  <2> SUFFICES ASSUME NEW j \in C PROVE D(i) < D(j) \/ (D(i) = D(j) /\ i <= j)
    OBVIOUS
  <2>1. D(i) \in Nat /\ D(j) \in Nat /\ D(i) = m /\ m <= D(j)
    BY <1>2, <1>3, <1>4
  <2>2. CASE D(j) = m
    BY <1>4, <2>1, <2>2
  <2>3. CASE D(j) # m
    <3> HIDE DEF D
    <3> QED
      BY <2>1, <2>3
  <2> QED
    BY <2>2, <2>3
<1>6. \E k \in C : nearest(k)
  BY <1>4, <1>5
<1>7. Best(q, x) = CHOOSE k \in C : nearest(k)
  BY DEF Best
<1> HIDE DEF nearest, C
<1>8. Best(q, x) \in C
  BY <1>6, <1>7
<1> QED
  BY <1>8 DEF C

-----------------------------------------------------------------------------
(* Steps.                                                                  *)

Names == {"tx", "D5", "D34"}

Event == [device : Devices, kind : Names, tick : Nat, synced_ns : Nat]

Typed ==
  /\ read \in [Kinds -> Nat]
  /\ chan \in Seq(Event)
  /\ tx_history \in [Devices -> Seq(Sent)]

\* The time is that of the tick, up to an error of that kind of report.
Tells(synced_ns, tick, errors) == \E f \in errors : synced_ns = Period * tick + f

LEMMA KindIsPair ==
  \A k \in Kinds : k[1] \in Devices /\ k[2] \in Names /\ k = <<k[1], k[2]>>
  BY MeterAssumption DEF Names

LEMMA ErrorsAreOf ==
  ASSUME NEW k \in Kinds, NEW f \in Errors(k)
  PROVE  f \in Int /\ Period + f >= 0
  BY MeterAssumption DEF Errors

\* A report of a tick since the first is no negative time.
LEMMA ReportType ==
  ASSUME NEW k \in Kinds, NEW f \in Errors(k), NEW t \in Nat, t >= 1
  PROVE  Period * t + f \in Nat
<1>1. f \in Int /\ Period + f >= 0 /\ Period \in Nat
  BY ErrorsAreOf, MeterAssumption
<1>2. Period * (1 + (t - 1)) = Period + Period * (t - 1) /\ Period * (t - 1) \in Nat
  BY <1>1
<1>3. Period * t = Period + Period * (t - 1)
  BY <1>2
<1> QED
  BY <1>1, <1>2, <1>3

LEMMA EventTypes ==
  ASSUME Typed, NEW i \in 1..Len(chan)
  PROVE  chan[i] \in Event /\ chan[i].tick \in Nat /\ chan[i].synced_ns \in Nat
<1>1. chan[i] \in Event
  BY ElementOfSeq DEF Typed
<1> QED
  BY <1>1 DEF Event

LEMMA SentTypes ==
  ASSUME Typed, NEW d \in Devices, NEW i \in 1..Len(tx_history[d])
  PROVE  /\ tx_history[d][i] \in Sent
         /\ tx_history[d][i].tick \in Nat /\ tx_history[d][i].synced_ns \in Nat
<1>1. tx_history[d][i] \in Sent
  BY ElementOfSeq DEF Typed
<1> QED
  BY <1>1 DEF Sent

\* What Read appends.
LEMMA ReadAppends ==
  ASSUME Typed, NEW k \in Kinds, Read(k)
  PROVE  \E e \in Event :
           /\ chan' = Append(chan, e)
           /\ e.device = k[1] /\ e.kind = k[2] /\ e.tick = read[k] + 1
           /\ Tells(e.synced_ns, e.tick, Errors(k))
<1>1. read[k] \in Nat /\ read'[k] = read[k] + 1
  BY DEF Typed, Read, NextLine
<1>2. PICK f \in Errors(k) :
        chan' = Append(chan, [device |-> k[1], kind |-> k[2], tick |-> read'[k],
                              synced_ns |-> Period * read'[k] + f])
  BY DEF Read
<1> DEFINE e == [device |-> k[1], kind |-> k[2], tick |-> read'[k],
                 synced_ns |-> Period * read'[k] + f]
<1>3. read'[k] \in Nat /\ read'[k] >= 1
  BY <1>1
<1>4. Period * read'[k] + f \in Nat
  BY <1>3, ReportType
<1>5. e \in Event
  BY <1>3, <1>4, KindIsPair DEF Event
<1>6. Tells(e.synced_ns, e.tick, Errors(k))
  BY DEF Tells
<1> QED
  BY <1>1, <1>2, <1>5, <1>6

\* What Receive takes.
LEMMA ReceiveTakes ==
  ASSUME Typed, Receive
  PROVE  /\ chan[1] \in Event /\ Head(chan) = chan[1]
         /\ chan' \in Seq(Event)
         /\ Len(chan) \in Nat /\ 1 \in 1..Len(chan)
         /\ Len(chan') = Len(chan) - 1
         /\ \A i \in 1..Len(chan') : chan'[i] = chan[i + 1] /\ i + 1 \in 1..Len(chan)
<1>1. chan \in Seq(Event) /\ chan # <<>> /\ chan' = Tail(chan)
  BY DEF Typed, Receive
<1>2. Len(chan) \in Nat \ {0}
  BY <1>1, EmptySeq
<1>3. chan[1] \in Event
  BY <1>1, <1>2, ElementOfSeq
<1>4. Tail(chan) \in Seq(Event) /\ Len(Tail(chan)) = Len(chan) - 1
      /\ \A i \in 1..Len(Tail(chan)) : Tail(chan)[i] = chan[i + 1]
  BY <1>1, HeadTailProperties
<1> QED
  BY <1>1, <1>2, <1>3, <1>4

\* q, with a new transmission s, without its first k: the ones left have the times of
\* the cutoff or start with one that has.
KeptFrom(q, s, k, kept) ==
  /\ kept \in Seq(Sent)
  /\ k \in 0..Len(q)
  /\ Len(kept) = Len(q) + 1 - k
  /\ \A i \in 1..Len(kept) : kept[i] = IF i + k <= Len(q) THEN q[i + k] ELSE s
  /\ kept[1].synced_ns >= Cutoff(s.synced_ns)
  /\ \A i \in 1..Len(q) : q[i].synced_ns >= Cutoff(s.synced_ns) => k < i

LEMMA TrimAppended ==
  ASSUME NEW q \in Seq(Sent), NEW s \in Sent
  PROVE  \E k \in 0..Len(q) : KeptFrom(q, s, k, Trim(Append(q, s)))
<1> DEFINE a == Append(q, s)
           n == Len(q)
<1>1. /\ a \in Seq(Sent) /\ a # <<>> /\ Len(a) = n + 1 /\ n \in Nat
      /\ \A i \in 1..n : a[i] = q[i]
      /\ a[n + 1] = s
  BY AppendProperties, LenProperties
<1> HIDE DEF a
<1>2. PICK first \in 1..Len(a) :
        /\ Trim(a) = SubSeq(a, first, Len(a))
        /\ a[first].synced_ns >= Cutoff(a[Len(a)].synced_ns)
        /\ \A i \in 1..Len(a) :
             a[i].synced_ns >= Cutoff(a[Len(a)].synced_ns) => first <= i
  BY <1>1, TrimKeeps
<1> DEFINE k == first - 1
           kept == Trim(a)
<1>3. k \in 0..n /\ first = k + 1 /\ first \in Int /\ n + 1 \in Int
  BY <1>1, <1>2
<1>4. \A i \in first .. n + 1 : a[i] \in Sent
  BY <1>1, <1>2, ElementOfSeq
<1>5. /\ SubSeq(a, first, n + 1) \in Seq(Sent)
      /\ Len(SubSeq(a, first, n + 1)) = IF first <= n + 1 THEN n + 1 - first + 1 ELSE 0
      /\ \A i \in 1 .. n + 1 - first + 1 : SubSeq(a, first, n + 1)[i] = a[first + i - 1]
  BY <1>3, <1>4, SubSeqProperties
<1> HIDE DEF k, kept
<1>6. /\ kept \in Seq(Sent)
      /\ Len(kept) = n + 1 - k
      /\ \A i \in 1..Len(kept) : kept[i] = a[i + k]
  BY <1>1, <1>2, <1>3, <1>5 DEF kept
<1>7. \A i \in 1..Len(kept) : kept[i] = IF i + k <= n THEN q[i + k] ELSE s
  <2> SUFFICES ASSUME NEW i \in 1..Len(kept) PROVE kept[i] = IF i + k <= n THEN q[i + k] ELSE s
    OBVIOUS
  <2>1. i + k \in 1..n + 1 /\ kept[i] = a[i + k]
    BY <1>1, <1>3, <1>6
  <2>2. CASE i + k <= n
    <3>1. i + k \in 1..n
      BY <1>1, <2>1, <2>2
    <3> QED
      BY <1>1, <2>1, <2>2, <3>1
  <2>3. CASE ~ (i + k <= n)
    <3>1. i + k = n + 1
      BY <1>1, <2>1, <2>3
    <3> QED
      BY <1>1, <2>1, <2>3, <3>1
  <2> QED
    BY <2>2, <2>3
<1>8. kept[1] = a[first]
  BY <1>1, <1>3, <1>6
<1>9. \A i \in 1..n : q[i].synced_ns >= Cutoff(s.synced_ns) => k < i
  <2> SUFFICES ASSUME NEW i \in 1..n, q[i].synced_ns >= Cutoff(s.synced_ns) PROVE k < i
    OBVIOUS
  <2>1. i \in 1..Len(a) /\ a[i] = q[i] /\ a[Len(a)] = s
    BY <1>1
  <2>2. first <= i
    BY <1>2, <2>1
  <2> QED
    BY <1>3, <2>2
<1>10. kept[1].synced_ns >= Cutoff(s.synced_ns)
  BY <1>1, <1>2, <1>8
<1>11. KeptFrom(q, s, k, kept)
  BY <1>3, <1>6, <1>7, <1>9, <1>10 DEF KeptFrom
<1> QED
  BY <1>3, <1>11 DEF a, kept

\* What HandleTx makes of the history of the board.
LEMMA HandleTxKeeps ==
  ASSUME Typed, HandleTx
  PROVE  LET d == chan[1].device
             s == [tick |-> chan[1].tick, synced_ns |-> chan[1].synced_ns]
         IN  /\ d \in Devices /\ s \in Sent
             /\ \E k \in 0..Len(tx_history[d]) :
                  KeptFrom(tx_history[d], s, k, tx_history'[d])
             /\ \A o \in Devices \ {d} : tx_history'[o] = tx_history[o]
             /\ tx_history' \in [Devices -> Seq(Sent)]
<1> DEFINE d == chan[1].device
           s == [tick |-> chan[1].tick, synced_ns |-> chan[1].synced_ns]
<1>1. chan[1] \in Event /\ Head(chan) = chan[1]
  BY ReceiveTakes DEF HandleTx
<1>2. d \in Devices /\ s \in Sent
  BY <1>1 DEF Event, Sent
<1>3. tx_history' = [tx_history EXCEPT ![d] = Trim(Append(tx_history[d], s))]
  BY <1>1 DEF HandleTx
<1> HIDE DEF d, s
<1>4. tx_history \in [Devices -> Seq(Sent)]
  BY DEF Typed
<1>5. tx_history'[d] = Trim(Append(tx_history[d], s))
      /\ \A o \in Devices \ {d} : tx_history'[o] = tx_history[o]
  BY <1>2, <1>3, <1>4
<1>6. PICK k \in 0..Len(tx_history[d]) : KeptFrom(tx_history[d], s, k, tx_history'[d])
  <2>1. tx_history[d] \in Seq(Sent)
    BY <1>2, <1>4
  <2> QED
    BY <1>2, <1>5, <2>1, TrimAppended
<1>7. tx_history' \in [Devices -> Seq(Sent)]
  BY <1>3, <1>4, <1>5, <1>6 DEF KeptFrom
<1>8. /\ d \in Devices /\ s \in Sent
      /\ \E i \in 0..Len(tx_history[d]) :
           KeptFrom(tx_history[d], s, i, tx_history'[d])
      /\ \A o \in Devices \ {d} : tx_history'[o] = tx_history[o]
      /\ tx_history' \in [Devices -> Seq(Sent)]
  BY <1>2, <1>5, <1>6, <1>7
<1> QED
  BY <1>8 DEF d, s

LEMMA TypedAlways == Spec => []Typed
<1>1. Init => Typed
  <2>1. <<>> \in Seq(Event) /\ <<>> \in Seq(Sent)
    BY EmptySeq
  <2> QED
    BY <2>1 DEF Init, Typed
<1>2. Typed /\ [Next]_vars => Typed'
  <2> SUFFICES ASSUME Typed, [Next]_vars PROVE Typed'
    OBVIOUS
  <2>1. ASSUME NEW k \in Kinds, Read(k) PROVE Typed'
    <3>1. PICK e \in Event : chan' = Append(chan, e)
      BY <2>1, ReadAppends
    <3>2. chan' \in Seq(Event)
      BY <3>1, AppendProperties DEF Typed
    <3>3. read' \in [Kinds -> Nat]
      BY <2>1 DEF Typed, Read, NextLine
    <3> QED
      BY <2>1, <3>2, <3>3 DEF Typed, Read
  <2>2. ASSUME NEW k \in Kinds, Skip(k) PROVE Typed'
    <3>1. read' \in [Kinds -> Nat]
      BY <2>2 DEF Typed, Skip, NextLine
    <3> QED
      BY <2>2, <3>1 DEF Typed, Skip
  <2>3. CASE HandleTx
    <3>1. tx_history' \in [Devices -> Seq(Sent)]
      BY <2>3, HandleTxKeeps
    <3>2. chan' \in Seq(Event)
      BY <2>3, ReceiveTakes DEF HandleTx
    <3> QED
      BY <2>3, <3>1, <3>2 DEF Typed, HandleTx
  <2>4. CASE HandleRx
    <3>1. chan' \in Seq(Event)
      BY <2>4, ReceiveTakes DEF HandleRx
    <3> QED
      BY <2>4, <3>1 DEF Typed, HandleRx
  <2>5. CASE Finish
    BY <2>5 DEF Typed, Finish
  <2>6. CASE UNCHANGED vars
    BY <2>6 DEF Typed, vars
  <2> QED
    BY <2>1, <2>2, <2>3, <2>4, <2>5, <2>6 DEF Next
<1> QED
  BY <1>1, <1>2, PTL DEF Spec

-----------------------------------------------------------------------------
(* Differences of one tick.                                                *)

\* Every event in the channel and every transmission kept tells the time of its tick.
Truthful ==
  /\ \A i \in 1..Len(chan) :
       Tells(chan[i].synced_ns, chan[i].tick, IF chan[i].kind = "tx" THEN TxErrors ELSE RxErrors)
  /\ \A d \in Devices : \A i \in 1..Len(tx_history[d]) :
       Tells(tx_history[d][i].synced_ns, tx_history[d][i].tick, TxErrors)

LEMMA TruthfulAlways == Spec => []Truthful
<1>1. Init => Truthful
  BY EmptySeq DEF Init, Truthful
<1>2. Typed /\ Truthful /\ [Next]_vars => Truthful'
  <2> SUFFICES ASSUME Typed, Truthful, [Next]_vars PROVE Truthful'
    OBVIOUS
  <2>1. ASSUME NEW k \in Kinds, Read(k) PROVE Truthful'
    <3>1. PICK e \in Event :
            /\ chan' = Append(chan, e)
            /\ e.kind = k[2]
            /\ Tells(e.synced_ns, e.tick, Errors(k))
      BY <2>1, ReadAppends
    <3>2. /\ Len(chan') = Len(chan) + 1 /\ Len(chan) \in Nat
          /\ \A i \in 1..Len(chan) : chan'[i] = chan[i]
          /\ chan'[Len(chan) + 1] = e
      BY <3>1, AppendProperties, LenProperties DEF Typed
    <3>3. Tells(e.synced_ns, e.tick, IF e.kind = "tx" THEN TxErrors ELSE RxErrors)
      BY <3>1 DEF Errors
    <3>4. ASSUME NEW i \in 1..Len(chan')
          PROVE  Tells(chan'[i].synced_ns, chan'[i].tick,
                       IF chan'[i].kind = "tx" THEN TxErrors ELSE RxErrors)
      <4>1. CASE i = Len(chan) + 1
        BY <3>2, <3>3, <4>1
      <4>2. CASE i # Len(chan) + 1
        <5>1. i \in 1..Len(chan)
          BY <3>2, <4>2
        <5> QED
          BY <3>2, <5>1 DEF Truthful
      <4> QED
        BY <4>1, <4>2
    <3>5. tx_history' = tx_history
      BY <2>1 DEF Read
    <3> QED
      BY <3>4, <3>5 DEF Truthful
  <2>2. ASSUME NEW k \in Kinds, Skip(k) PROVE Truthful'
    BY <2>2 DEF Truthful, Skip
  <2>3. ASSUME Receive, NEW i \in 1..Len(chan')
        PROVE  Tells(chan'[i].synced_ns, chan'[i].tick,
                     IF chan'[i].kind = "tx" THEN TxErrors ELSE RxErrors)
    <3>1. chan'[i] = chan[i + 1] /\ i + 1 \in 1..Len(chan)
      BY <2>3, ReceiveTakes
    <3> QED
      BY <3>1 DEF Truthful
  <2>4. CASE HandleTx
    <3> DEFINE d == chan[1].device
               s == [tick |-> chan[1].tick, synced_ns |-> chan[1].synced_ns]
    <3>1. PICK k \in 0..Len(tx_history[d]) : KeptFrom(tx_history[d], s, k, tx_history'[d])
      BY <2>4, HandleTxKeeps
    <3>2. d \in Devices /\ \A o \in Devices \ {d} : tx_history'[o] = tx_history[o]
      BY <2>4, HandleTxKeeps
    <3>3. Tells(s.synced_ns, s.tick, TxErrors)
      <4>1. 1 \in 1..Len(chan) /\ chan[1].kind = "tx"
        BY <2>4, ReceiveTakes DEF HandleTx
      <4> QED
        BY <4>1 DEF Truthful
    <3> HIDE DEF d, s
    <3>4. ASSUME NEW i \in 1..Len(tx_history'[d])
          PROVE  Tells(tx_history'[d][i].synced_ns, tx_history'[d][i].tick, TxErrors)
      <4>1. tx_history'[d][i] = IF i + k <= Len(tx_history[d]) THEN tx_history[d][i + k] ELSE s
        BY <3>1 DEF KeptFrom
      <4>2. CASE i + k <= Len(tx_history[d])
        <5>1. i + k \in 1..Len(tx_history[d])
          <6>1. Len(tx_history[d]) \in Nat
            BY <3>2, LenProperties DEF Typed
          <6> QED
            BY <4>2, <6>1
        <5> QED
          BY <3>2, <4>1, <4>2, <5>1 DEF Truthful
      <4>3. CASE ~ (i + k <= Len(tx_history[d]))
        BY <3>3, <4>1, <4>3
      <4> QED
        BY <4>2, <4>3
    <3>5. ASSUME NEW o \in Devices, NEW i \in 1..Len(tx_history'[o])
          PROVE  Tells(tx_history'[o][i].synced_ns, tx_history'[o][i].tick, TxErrors)
      BY <3>2, <3>4, <3>5 DEF Truthful
    <3>6. Receive
      BY <2>4 DEF HandleTx
    <3> QED
      BY <2>3, <3>5, <3>6 DEF Truthful
  <2>5. CASE HandleRx
    BY <2>3, <2>5 DEF HandleRx, Truthful
  <2>6. CASE Finish
    BY <2>6 DEF Finish, Truthful
  <2>7. CASE UNCHANGED vars
    BY <2>7 DEF vars, Truthful
  <2> QED
    BY <2>1, <2>2, <2>4, <2>5, <2>6, <2>7 DEF Next
<1> QED
  BY <1>1, <1>2, TypedAlways, PTL DEF Spec

\* A difference of reports within the window is not one of different ticks.
Apart == \A e \in RxErrors, f \in TxErrors : match_window + Magnitude(e - f) < Period

LEMMA WithinWindowOneTick ==
  ASSUME Apart, NEW t \in Nat, NEW u \in Nat, NEW e \in RxErrors, NEW f \in TxErrors,
         Magnitude((Period * t + e) - (Period * u + f)) <= match_window
  PROVE  t = u
<1>1. /\ e \in Int /\ f \in Int /\ Period \in Nat /\ match_window \in Nat
      /\ match_window + Magnitude(e - f) < Period
  BY MeterAssumption DEF Apart
<1> DEFINE P == Period
           a == P * t
           b == P * u
<1>2. a \in Nat /\ b \in Nat
  BY <1>1
<1>3. P \in Nat \ {0}
  BY <1>1, MagnitudeType
<1>4. t < u => a + P <= b
  BY <1>1, <1>3, MultiplesApart
<1>5. u < t => b + P <= a
  BY <1>1, <1>3, MultiplesApart
<1>6. Magnitude((a + e) - (b + f)) <= match_window
  OBVIOUS
<1> HIDE DEF a, b, P
<1>7. ~ (a + P <= b) /\ ~ (b + P <= a)
  BY <1>1, <1>2, <1>3, <1>6 DEF Magnitude, P
<1> QED
  BY <1>4, <1>5, <1>7

\* A transmission and a reception that the window pairs are reports of one tick, whichever
\* lines were lost or came late, as long as the errors leave the window less than a period.
THEOREM DeltasKept ==
  ASSUME Apart
  PROVE  Spec => []DeltasTrue
<1>1. Init => DeltasTrue
  BY DEF Init, DeltasTrue
<1>2. Typed /\ Truthful /\ DeltasTrue /\ [Next]_vars => DeltasTrue'
  <2> SUFFICES ASSUME Typed, Truthful, DeltasTrue, HandleRx PROVE DeltasTrue'
    BY DEF Next, Read, Skip, HandleTx, Finish, vars, DeltasTrue
  <2> DEFINE e == chan[1]
             q == tx_history[1 - e.device]
             b == Best(q, e.synced_ns)
  <2>1. e \in Event /\ Head(chan) = e /\ 1 \in 1..Len(chan) /\ e.kind # "tx"
    BY ReceiveTakes DEF HandleRx
  <2>2. 1 - e.device \in Devices /\ e.synced_ns \in Nat /\ e.tick \in Nat
    BY <2>1 DEF Event, Devices
  <2>3. q \in Seq(Sent)
    BY <2>2 DEF Typed
  <2>4. CASE Candidates(q, e.synced_ns) = {}
    BY <2>1, <2>4 DEF HandleRx, DeltasTrue
  <2>5. CASE Candidates(q, e.synced_ns) # {}
    <3>1. b \in 1..Len(q) /\ Magnitude(e.synced_ns - q[b].synced_ns) <= match_window
      <4>1. b \in Candidates(q, e.synced_ns)
        BY <2>2, <2>3, <2>5, BestIsCandidate
      <4> QED
        BY <4>1 DEF Candidates
    <3>2. q[b] \in Sent
      BY <2>3, <3>1, ElementOfSeq
    <3>3. PICK f \in RxErrors : e.synced_ns = Period * e.tick + f
      BY <2>1 DEF Truthful, Tells
    <3>4. PICK g \in TxErrors : q[b].synced_ns = Period * q[b].tick + g
      BY <2>2, <3>1 DEF Truthful, Tells
    <3>5. q[b].tick = e.tick
      <4> DEFINE t == e.tick
                 u == q[b].tick
      <4>1. t \in Nat /\ u \in Nat
        BY <2>2, <3>2 DEF Sent
      <4>2. Magnitude((Period * t + f) - (Period * u + g)) <= match_window
        BY <3>1, <3>3, <3>4
      <4> HIDE DEF t, u
      <4>3. t = u
        BY <4>1, <4>2, WithinWindowOneTick
      <4> QED
        BY <4>3 DEF t, u
    <3>6. pairs' = pairs \cup {[device |-> e.device, kind |-> e.kind, tick |-> e.tick,
                                of |-> q[b].tick]}
      BY <2>1, <2>5 DEF HandleRx
    <3> HIDE DEF e, q, b
    <3> QED
      BY <3>5, <3>6 DEF DeltasTrue
  <2> QED
    BY <2>4, <2>5
<1> QED
  BY <1>1, <1>2, TypedAlways, TruthfulAlways, PTL DEF Spec

-----------------------------------------------------------------------------
(* The length of the history.                                              *)

Line(e) == <<e.device, e.kind>>

\* Reports of a line are sent in the order of their ticks.
ChanOrdered ==
  /\ \A i \in 1..Len(chan) : Line(chan[i]) \in Kinds /\ chan[i].tick <= read[Line(chan[i])]
  /\ \A i, j \in 1..Len(chan) :
       i < j /\ Line(chan[i]) = Line(chan[j]) => chan[i].tick < chan[j].tick

\* A transmission that is kept came before those of the same board that wait.
HistoryBefore ==
  \A d \in Devices : \A i \in 1..Len(tx_history[d]) :
    /\ <<d, "tx">> \in Kinds
    /\ tx_history[d][i].tick <= read[<<d, "tx">>]
    /\ \A j \in 1..Len(chan) :
         Line(chan[j]) = <<d, "tx">> => tx_history[d][i].tick < chan[j].tick

\* Of those kept, no two are of one tick.
HistorySpaced ==
  \A d \in Devices : \A i, j \in 1..Len(tx_history[d]) :
    i <= j => tx_history[d][j].tick - tx_history[d][i].tick >= j - i

\* The first one kept has been kept for the last.
HistorySpread ==
  \A d \in Devices :
    tx_history[d] # <<>>
      => tx_history[d][1].synced_ns >= Cutoff(tx_history[d][Len(tx_history[d])].synced_ns)

Ordered == ChanOrdered /\ HistoryBefore /\ HistorySpaced /\ HistorySpread

LEMMA ReadOrdered ==
  ASSUME Typed, Ordered, NEW k \in Kinds, Read(k)
  PROVE  Ordered'
<1>1. PICK e \in Event :
        /\ chan' = Append(chan, e)
        /\ e.device = k[1] /\ e.kind = k[2] /\ e.tick = read[k] + 1
  BY ReadAppends
<1>2. /\ Len(chan') = Len(chan) + 1 /\ Len(chan) \in Nat
      /\ \A i \in 1..Len(chan) : chan'[i] = chan[i]
      /\ chan'[Len(chan) + 1] = e
  BY <1>1, AppendProperties, LenProperties DEF Typed
<1>3. /\ read' = [read EXCEPT ![k] = @ + 1] /\ read \in [Kinds -> Nat]
      /\ tx_history' = tx_history
  BY DEF Read, NextLine, Typed
<1>4. Line(e) = k
  BY <1>1, KindIsPair DEF Line
<1>5. \A l \in Kinds : read[l] \in Nat /\ read[l] <= read'[l]
  BY <1>3
<1>6. e.tick \in Nat /\ \A i \in 1..Len(chan) : chan[i].tick \in Nat
  BY <1>1, EventTypes DEF Event
<1>7. ChanOrdered'
  <2>1. ASSUME NEW i \in 1..Len(chan')
        PROVE  Line(chan'[i]) \in Kinds /\ chan'[i].tick <= read'[Line(chan'[i])]
    <3>1. CASE i = Len(chan) + 1
      BY <1>1, <1>2, <1>3, <1>4, <3>1
    <3>2. CASE i # Len(chan) + 1
      <4>1. i \in 1..Len(chan) /\ chan'[i] = chan[i]
        BY <1>2, <3>2
      <4>2. Line(chan[i]) \in Kinds /\ chan[i].tick <= read[Line(chan[i])]
        BY <4>1 DEF Ordered, ChanOrdered
      <4>3. read[Line(chan[i])] <= read'[Line(chan[i])] /\ chan[i].tick \in Nat
            /\ read[Line(chan[i])] \in Nat /\ read'[Line(chan[i])] \in Nat
        BY <1>3, <1>5, <1>6, <4>1, <4>2
      <4> QED
        BY <4>1, <4>2, <4>3
    <3> QED
      BY <3>1, <3>2
  <2>2. ASSUME NEW i \in 1..Len(chan'), NEW j \in 1..Len(chan'),
               i < j, Line(chan'[i]) = Line(chan'[j])
        PROVE  chan'[i].tick < chan'[j].tick
    <3>1. i \in 1..Len(chan) /\ chan'[i] = chan[i]
      BY <1>2, <2>2
    <3>2. CASE j = Len(chan) + 1
      <4>1. Line(chan[i]) = k /\ chan[i].tick <= read[k]
        BY <1>2, <1>4, <2>2, <3>1, <3>2 DEF Ordered, ChanOrdered
      <4> QED
        BY <1>1, <1>2, <1>5, <1>6, <3>1, <3>2, <4>1
    <3>3. CASE j # Len(chan) + 1
      <4>1. j \in 1..Len(chan) /\ chan'[j] = chan[j]
        BY <1>2, <3>3
      <4> QED
        BY <2>2, <3>1, <4>1 DEF Ordered, ChanOrdered
    <3> QED
      BY <3>2, <3>3
  <2> QED
    BY <2>1, <2>2 DEF ChanOrdered
<1>8. HistoryBefore'
  <2> SUFFICES ASSUME NEW d \in Devices, NEW i \in 1..Len(tx_history[d])
               PROVE  /\ <<d, "tx">> \in Kinds
                      /\ tx_history[d][i].tick <= read'[<<d, "tx">>]
                      /\ \A j \in 1..Len(chan') :
                           Line(chan'[j]) = <<d, "tx">> => tx_history[d][i].tick < chan'[j].tick
    BY <1>3 DEF HistoryBefore
  <2> DEFINE t == tx_history[d][i].tick
  <2>1. /\ <<d, "tx">> \in Kinds
        /\ t <= read[<<d, "tx">>]
        /\ \A j \in 1..Len(chan) : Line(chan[j]) = <<d, "tx">> => t < chan[j].tick
    BY DEF Ordered, HistoryBefore
  <2>2. t \in Nat
    BY SentTypes
  <2> HIDE DEF t
  <2>3. t <= read'[<<d, "tx">>]
    BY <1>3, <1>5, <2>1, <2>2
  <2>4. ASSUME NEW j \in 1..Len(chan'), Line(chan'[j]) = <<d, "tx">>
        PROVE  t < chan'[j].tick
    <3>1. CASE j = Len(chan) + 1
      <4>1. chan'[j] = e /\ e.tick = read[k] + 1
        BY <1>1, <1>2, <3>1
      <4>2. <<d, "tx">> = k
        BY <1>4, <2>4, <4>1
      <4>3. t <= read[k] /\ read[k] \in Nat
        BY <1>5, <2>1, <4>2
      <4> QED
        BY <2>2, <4>1, <4>3
    <3>2. CASE j # Len(chan) + 1
      <4>1. j \in 1..Len(chan) /\ chan'[j] = chan[j]
        BY <1>2, <3>2
      <4> QED
        BY <2>1, <2>4, <4>1
    <3> QED
      BY <3>1, <3>2
  <2> QED
    BY <2>1, <2>3, <2>4 DEF t
<1>9. HistorySpaced' /\ HistorySpread'
  BY <1>3 DEF Ordered, HistorySpaced, HistorySpread
<1> QED
  BY <1>7, <1>8, <1>9 DEF Ordered

\* What waits is still in order when the next event has been taken.
LEMMA ReceiveOrdered ==
  ASSUME Typed, Ordered, Receive, read' = read
  PROVE  /\ ChanOrdered'
         /\ tx_history' = tx_history => Ordered'
<1>1. /\ Len(chan') = Len(chan) - 1 /\ Len(chan) \in Nat
      /\ \A i \in 1..Len(chan') : chan'[i] = chan[i + 1] /\ i + 1 \in 1..Len(chan)
  BY ReceiveTakes
<1>2. ChanOrdered'
  <2>1. ASSUME NEW i \in 1..Len(chan')
        PROVE  Line(chan'[i]) \in Kinds /\ chan'[i].tick <= read[Line(chan'[i])]
    BY <1>1 DEF Ordered, ChanOrdered
  <2>2. ASSUME NEW i \in 1..Len(chan'), NEW j \in 1..Len(chan'),
               i < j, Line(chan'[i]) = Line(chan'[j])
        PROVE  chan'[i].tick < chan'[j].tick
    <3>1. /\ i + 1 \in 1..Len(chan) /\ chan'[i] = chan[i + 1]
          /\ j + 1 \in 1..Len(chan) /\ chan'[j] = chan[j + 1]
          /\ i + 1 < j + 1
      BY <1>1, <2>2
    <3> QED
      BY <2>2, <3>1 DEF Ordered, ChanOrdered
  <2> QED
    BY <2>1, <2>2 DEF ChanOrdered
<1>3. ASSUME tx_history' = tx_history PROVE HistoryBefore'
  BY <1>1, <1>3 DEF Ordered, HistoryBefore
<1>4. tx_history' = tx_history => HistorySpaced' /\ HistorySpread'
  BY DEF Ordered, HistorySpaced, HistorySpread
<1> QED
  BY <1>2, <1>3, <1>4 DEF Ordered

LEMMA HandleTxOrdered ==
  ASSUME Typed, Ordered, HandleTx
  PROVE  Ordered'
<1> DEFINE d == chan[1].device
           s == [tick |-> chan[1].tick, synced_ns |-> chan[1].synced_ns]
           q == tx_history[d]
           kept == tx_history'[d]
<1>1. /\ Receive /\ chan[1].kind = "tx" /\ read' = read
  BY DEF HandleTx
<1>2. /\ Len(chan') = Len(chan) - 1 /\ Len(chan) \in Nat /\ 1 \in 1..Len(chan)
      /\ \A i \in 1..Len(chan') : chan'[i] = chan[i + 1] /\ i + 1 \in 1..Len(chan)
  BY <1>1, ReceiveTakes
<1>3. PICK k \in 0..Len(q) : KeptFrom(q, s, k, kept)
  BY HandleTxKeeps
<1>4. d \in Devices /\ s \in Sent /\ \A o \in Devices \ {d} : tx_history'[o] = tx_history[o]
  BY HandleTxKeeps
<1>5. Line(chan[1]) = <<d, "tx">> /\ s.tick = chan[1].tick
  BY <1>1 DEF Line
<1>6. <<d, "tx">> \in Kinds /\ s.tick <= read[<<d, "tx">>]
  BY <1>2, <1>5 DEF Ordered, ChanOrdered
<1>7. \A j \in 1..Len(chan') : Line(chan'[j]) = <<d, "tx">> => s.tick < chan'[j].tick
  <2> SUFFICES ASSUME NEW j \in 1..Len(chan'), Line(chan'[j]) = <<d, "tx">>
               PROVE  s.tick < chan'[j].tick
    OBVIOUS
  <2>1. j + 1 \in 1..Len(chan) /\ chan'[j] = chan[j + 1] /\ 1 < j + 1
    BY <1>2
  <2> QED
    BY <1>2, <1>5, <2>1 DEF Ordered, ChanOrdered
<1>8. ASSUME NEW i \in 1..Len(q)
      PROVE  /\ q[i].tick \in Nat /\ q[i].tick < s.tick /\ q[i].tick <= read[<<d, "tx">>]
             /\ \A j \in 1..Len(chan') :
                  Line(chan'[j]) = <<d, "tx">> => q[i].tick < chan'[j].tick
  <2>1. q[i].tick \in Nat
    BY <1>4, SentTypes
  <2>2. q[i].tick < s.tick /\ q[i].tick <= read[<<d, "tx">>]
    BY <1>2, <1>4, <1>5 DEF Ordered, HistoryBefore
  <2>3. \A j \in 1..Len(chan') :
          Line(chan'[j]) = <<d, "tx">> => q[i].tick < chan'[j].tick
    BY <1>2, <1>4 DEF Ordered, HistoryBefore
  <2> QED
    BY <2>1, <2>2, <2>3
<1>9. /\ Len(q) \in Nat
      /\ \A i, j \in 1..Len(q) : i <= j => q[j].tick - q[i].tick >= j - i
  BY <1>4, LenProperties DEF Ordered, HistorySpaced, Typed
<1>10. s.tick \in Nat
  BY <1>4 DEF Sent
<1> HIDE DEF d, s, q, kept
<1>11. ASSUME NEW i \in 1..Len(q) PROVE s.tick - q[i].tick >= Len(q) + 1 - i
  <2> DEFINE l == Len(q)
  <2>1. l \in 1..l /\ i \in 1..l /\ i <= l /\ i \in Int /\ l \in Int
    BY <1>9
  <2>2. q[l].tick - q[i].tick >= l - i
    BY <1>9, <2>1
  <2>3. q[l].tick \in Nat /\ q[l].tick < s.tick /\ q[i].tick \in Nat
    BY <1>8, <2>1
  <2> HIDE DEF l
  <2>4. s.tick - q[i].tick >= l + 1 - i
    BY <1>10, <2>1, <2>2, <2>3
  <2> QED
    BY <2>4 DEF l
<1>12. /\ k \in Nat /\ k <= Len(q) /\ Len(kept) = Len(q) + 1 - k
       /\ \A i \in 1..Len(kept) :
            /\ i + k \in 1..Len(q) + 1
            /\ kept[i] = IF i + k <= Len(q) THEN q[i + k] ELSE s
            /\ i + k <= Len(q) => i + k \in 1..Len(q)
            /\ ~ (i + k <= Len(q)) => i + k = Len(q) + 1
       /\ kept[1].synced_ns >= Cutoff(s.synced_ns)
  BY <1>3, <1>9 DEF KeptFrom
<1>13. ASSUME NEW i \in 1..Len(kept)
       PROVE  /\ kept[i].tick <= read[<<d, "tx">>]
              /\ \A j \in 1..Len(chan') :
                   Line(chan'[j]) = <<d, "tx">> => kept[i].tick < chan'[j].tick
  <2>1. CASE i + k <= Len(q)
    BY <1>8, <1>12, <2>1
  <2>2. CASE ~ (i + k <= Len(q))
    BY <1>6, <1>7, <1>12, <2>2
  <2> QED
    BY <2>1, <2>2
<1>14. ASSUME NEW i \in 1..Len(kept), NEW j \in 1..Len(kept), i <= j
       PROVE  kept[j].tick - kept[i].tick >= j - i
  <2>1. i \in Int /\ j \in Int
    OBVIOUS
  <2>2. CASE j + k <= Len(q)
    <3>1. i + k <= j + k /\ i + k <= Len(q) /\ (j + k) - (i + k) = j - i
      BY <1>9, <1>12, <1>14, <2>1, <2>2
    <3>2. i + k \in 1..Len(q) /\ j + k \in 1..Len(q)
          /\ kept[i] = q[i + k] /\ kept[j] = q[j + k]
      BY <1>12, <2>2, <3>1
    <3> QED
      BY <1>9, <3>1, <3>2
  <2>3. CASE ~ (j + k <= Len(q)) /\ i + k <= Len(q)
    <3>1. i + k \in 1..Len(q) /\ kept[i] = q[i + k] /\ kept[j] = s /\ j + k = Len(q) + 1
      BY <1>12, <2>3
    <3>2. s.tick - q[i + k].tick >= Len(q) + 1 - (i + k)
      BY <1>11, <3>1
    <3>3. Len(q) + 1 - (i + k) = j - i
      BY <1>9, <1>12, <2>1, <3>1
    <3> QED
      BY <3>1, <3>2, <3>3
  <2>4. CASE ~ (j + k <= Len(q)) /\ ~ (i + k <= Len(q))
    <3>1. kept[i] = s /\ kept[j] = s /\ i = j
      BY <1>9, <1>12, <2>1, <2>4
    <3> QED
      BY <1>10, <2>1, <3>1
  <2> QED
    BY <1>9, <1>12, <1>14, <2>1, <2>2, <2>3, <2>4
<1>15. kept[1].synced_ns >= Cutoff(kept[Len(kept)].synced_ns)
  <2>1. Len(kept) \in 1..Len(kept) /\ ~ (Len(kept) + k <= Len(q))
    BY <1>9, <1>12
  <2>2. kept[Len(kept)] = s
    BY <1>12, <2>1
  <2> QED
    BY <1>12, <2>2
<1>16. ChanOrdered'
  BY <1>1, ReceiveOrdered
<1>17. HistoryBefore'
  <2> SUFFICES ASSUME NEW o \in Devices, NEW i \in 1..Len(tx_history'[o])
               PROVE  /\ <<o, "tx">> \in Kinds
                      /\ tx_history'[o][i].tick <= read[<<o, "tx">>]
                      /\ \A j \in 1..Len(chan') :
                           Line(chan'[j]) = <<o, "tx">> => tx_history'[o][i].tick < chan'[j].tick
    BY <1>1 DEF HistoryBefore
  <2>1. CASE o = d
    BY <1>6, <1>13, <2>1 DEF kept
  <2>2. CASE o # d
    BY <1>2, <1>4, <2>2 DEF Ordered, HistoryBefore
  <2> QED
    BY <2>1, <2>2
<1>18. HistorySpaced'
  <2> SUFFICES ASSUME NEW o \in Devices,
                      NEW i \in 1..Len(tx_history'[o]), NEW j \in 1..Len(tx_history'[o]), i <= j
               PROVE  tx_history'[o][j].tick - tx_history'[o][i].tick >= j - i
    BY DEF HistorySpaced
  <2>1. CASE o = d
    BY <1>14, <2>1 DEF kept
  <2>2. CASE o # d
    BY <1>4, <2>2 DEF Ordered, HistorySpaced
  <2> QED
    BY <2>1, <2>2
<1>19. HistorySpread'
  <2> SUFFICES ASSUME NEW o \in Devices, tx_history'[o] # <<>>
               PROVE  tx_history'[o][1].synced_ns
                        >= Cutoff(tx_history'[o][Len(tx_history'[o])].synced_ns)
    BY DEF HistorySpread
  <2>1. CASE o = d
    BY <1>15, <2>1 DEF kept
  <2>2. CASE o # d
    BY <1>4, <2>2 DEF Ordered, HistorySpread
  <2> QED
    BY <2>1, <2>2
<1> QED
  BY <1>16, <1>17, <1>18, <1>19 DEF Ordered

LEMMA OrderedAlways == Spec => []Ordered
<1>1. Init => Ordered
  <2> SUFFICES ASSUME Init PROVE Ordered
    OBVIOUS
  <2>1. chan = <<>> /\ \A d \in Devices : tx_history[d] = <<>>
    BY DEF Init
  <2>2. Len(chan) = 0 /\ \A d \in Devices : Len(tx_history[d]) = 0
    BY <2>1
  <2> QED
    BY <2>1, <2>2 DEF Ordered, ChanOrdered, HistoryBefore, HistorySpaced, HistorySpread
<1>2. Typed /\ Ordered /\ [Next]_vars => Ordered'
  <2> SUFFICES ASSUME Typed, Ordered, [Next]_vars PROVE Ordered'
    OBVIOUS
  <2>1. ASSUME NEW k \in Kinds, Skip(k) PROVE Ordered'
    <3>1. /\ chan' = chan /\ tx_history' = tx_history
          /\ read' = [read EXCEPT ![k] = @ + 1] /\ read \in [Kinds -> Nat]
      BY <2>1 DEF Skip, NextLine, Typed
    <3>2. \A l \in Kinds : read[l] \in Nat /\ read'[l] \in Nat /\ read[l] <= read'[l]
      BY <3>1
    <3>3. ChanOrdered'
      <4>1. \A i \in 1..Len(chan) : chan[i].tick \in Nat
        BY EventTypes
      <4>2. \A i \in 1..Len(chan) : chan[i].tick <= read'[Line(chan[i])]
        BY <3>2, <4>1 DEF Ordered, ChanOrdered
      <4> QED
        BY <3>1, <4>2 DEF Ordered, ChanOrdered
    <3>4. HistoryBefore'
      <4> SUFFICES ASSUME NEW d \in Devices, NEW i \in 1..Len(tx_history[d])
                   PROVE  tx_history[d][i].tick <= read'[<<d, "tx">>]
        BY <3>1 DEF Ordered, HistoryBefore
      <4>2. tx_history[d][i].tick \in Nat
        BY SentTypes
      <4>3. <<d, "tx">> \in Kinds /\ tx_history[d][i].tick <= read[<<d, "tx">>]
        BY DEF Ordered, HistoryBefore
      <4> QED
        BY <3>2, <4>2, <4>3
    <3> QED
      BY <3>1, <3>3, <3>4 DEF Ordered, HistorySpaced, HistorySpread
  <2>2. CASE HandleRx
    BY <2>2, ReceiveOrdered DEF HandleRx
  <2>3. CASE Finish
    BY <2>3 DEF Finish, Ordered, ChanOrdered, HistoryBefore, HistorySpaced, HistorySpread
  <2>4. CASE UNCHANGED vars
    BY <2>4 DEF vars, Ordered, ChanOrdered, HistoryBefore, HistorySpaced, HistorySpread
  <2> QED
    BY <2>1, <2>2, <2>3, <2>4, ReadOrdered, HandleTxOrdered DEF Next
<1> QED
  BY <1>1, <1>2, TypedAlways, PTL DEF Spec

\* A finite set of integers has a greatest and a least element.
LEMMA Extremes ==
  ASSUME NEW S, S \subseteq Int, IsFiniteSet(S), S # {}
  PROVE  /\ Max(S) \in S /\ \A y \in S : y <= Max(S)
         /\ Min(S) \in S /\ \A y \in S : Min(S) <= y
<1> DEFINE Above(x) == {y \in S : y >= x}
           Below(x) == {y \in S : y <= x}
           As == {Above(x) : x \in S}
           Bs == {Below(x) : x \in S}
<1>1. \E x \in S : \A y \in S : x >= y
  <2>1. As \subseteq SUBSET S /\ As # {}
    OBVIOUS
  <2>2. PICK a \in As : \A b \in As : b \subseteq a => b = a
    <3> DEFINE I == S
    <3>1. IsFiniteSet(I) /\ As \subseteq SUBSET I /\ As # {}
      BY <2>1
    <3> HIDE DEF As, I
    <3> QED
      BY <3>1, MinimalSubset
  <2>3. PICK x \in S : a = Above(x)
    OBVIOUS
  <2>4. \A y \in S : Above(y) \subseteq Above(x) => Above(y) = Above(x)
    BY <2>2, <2>3
  <2>5. ASSUME NEW y \in S PROVE x >= y
    <3> SUFFICES ASSUME x < y PROVE FALSE
      BY SMT
    <3>1. \A z \in S : z \in Int
      OBVIOUS
    <3>2. Above(y) \subseteq Above(x)
      <4> SUFFICES ASSUME NEW z \in Above(y) PROVE z \in Above(x)
        OBVIOUS
      <4> QED
        BY <3>1
    <3>3. x \in Above(x)
      BY <3>1
    <3>4. x \in Above(y)
      BY <2>4, <3>2, <3>3
    <3> QED
      BY <3>1, <3>4
  <2> QED
    BY <2>5
<1>2. \E x \in S : \A y \in S : x <= y
  <2>1. Bs \subseteq SUBSET S /\ Bs # {}
    OBVIOUS
  <2>2. PICK a \in Bs : \A b \in Bs : b \subseteq a => b = a
    <3> DEFINE I == S
    <3>1. IsFiniteSet(I) /\ Bs \subseteq SUBSET I /\ Bs # {}
      BY <2>1
    <3> HIDE DEF Bs, I
    <3> QED
      BY <3>1, MinimalSubset
  <2>3. PICK x \in S : a = Below(x)
    OBVIOUS
  <2>4. \A y \in S : Below(y) \subseteq Below(x) => Below(y) = Below(x)
    BY <2>2, <2>3
  <2>5. ASSUME NEW y \in S PROVE x <= y
    <3> SUFFICES ASSUME y < x PROVE FALSE
      BY SMT
    <3>1. \A z \in S : z \in Int
      OBVIOUS
    <3>2. Below(y) \subseteq Below(x)
      <4> SUFFICES ASSUME NEW z \in Below(y) PROVE z \in Below(x)
        OBVIOUS
      <4> QED
        BY <3>1
    <3>3. x \in Below(x)
      BY <3>1
    <3>4. x \in Below(y)
      BY <2>4, <3>2, <3>3
    <3> QED
      BY <3>1, <3>4
  <2> QED
    BY <2>5
<1>3. Max(S) \in S /\ \A y \in S : Max(S) >= y
  BY <1>1 DEF Max
<1>4. Min(S) \in S /\ \A y \in S : Min(S) <= y
  BY <1>2 DEF Min
<1> QED
  BY <1>3, <1>4

\* The history of a board does not grow with the run.
THEOREM HistoryStaysBounded ==
  ASSUME Period > 0, IsFiniteSet(TxErrors), TxErrors # {}
  PROVE  Spec => []HistoryBounded
<1>1. Typed /\ Truthful /\ Ordered => HistoryBounded
  <2> SUFFICES ASSUME Typed, Truthful, Ordered, NEW d \in Devices
               PROVE  Len(tx_history[d])
                        <= (4 * match_window + Max(TxErrors) - Min(TxErrors)) \div Period + 1
    BY DEF HistoryBounded
  <2> DEFINE q == tx_history[d]
             n == Len(q)
             P == Period
             W == 4 * match_window
             B == W + Max(TxErrors) - Min(TxErrors)
             c == B \div P
  <2>1. /\ P \in Nat \ {0} /\ W \in Nat
        /\ TxErrors \subseteq Int
    BY MeterAssumption
  <2>2. /\ Max(TxErrors) \in Int /\ Min(TxErrors) \in Int
        /\ \A f \in TxErrors : f \in Int /\ f <= Max(TxErrors) /\ Min(TxErrors) <= f
    BY <2>1, Extremes
  <2>3. B \in Nat
    <3>1. PICK f \in TxErrors : TRUE
      OBVIOUS
    <3>2. Min(TxErrors) <= Max(TxErrors)
      BY <2>2, <3>1
    <3> QED
      BY <2>1, <2>2, <3>2
  <2>4. c \in Nat /\ B = P * c + (B % P) /\ B % P \in 0 .. P - 1
    <3> HIDE DEF B, P
    <3> QED
      BY <2>1, <2>3
  <2>5. n \in Nat
    BY LenProperties DEF Typed
  <2>6. CASE n = 0
    <3> HIDE DEF c, n
    <3>1. n <= c + 1
      BY <2>4, <2>6
    <3> QED
      BY <3>1 DEF c, n
  <2>7. CASE n # 0
    <3> DEFINE t == q[1].tick
               u == q[n].tick
    <3>1. 1 \in 1..n /\ n \in 1..n /\ 1 <= n
      BY <2>5, <2>7
    <3>2. /\ t \in Nat /\ u \in Nat
          /\ q[1].synced_ns \in Nat /\ q[n].synced_ns \in Nat
      BY <3>1, SentTypes
    <3>3. u - t >= n - 1
      BY <3>1 DEF Ordered, HistorySpaced
    <3>4. q[1].synced_ns >= Cutoff(q[n].synced_ns)
      <4>1. q # <<>>
        BY <2>7
      <4> QED
        BY <4>1 DEF Ordered, HistorySpread
    <3>5. q[1].synced_ns >= q[n].synced_ns - W
      BY <2>1, <3>2, <3>4 DEF Cutoff
    <3>6. PICK f \in TxErrors : q[1].synced_ns = P * t + f
      BY <3>1 DEF Truthful, Tells
    <3>7. PICK g \in TxErrors : q[n].synced_ns = P * u + g
      BY <3>1 DEF Truthful, Tells
    <3> DEFINE m == n - 1
               v == t + m
    <3> HIDE DEF t, u, q, n
    <3>8. m \in Nat /\ v \in Int /\ v <= u
      BY <2>5, <2>7, <3>2, <3>3
    <3> HIDE DEF P, W, m
    <3>9. P * v = P * t + P * m /\ P * t \in Int /\ P * u \in Int /\ P * m \in Int /\ P * v \in Int
      BY <2>1, <3>2, <3>8
    <3> HIDE DEF v
    <3>10. P * v <= P * u
      <4>1. CASE v = u
        BY <3>9, <4>1
      <4>2. CASE v < u
        <5>1. P * v + P <= P * u
          BY <2>1, <3>2, <3>8, <4>2, MultiplesApart
        <5> QED
          BY <2>1, <3>9, <5>1
      <4> QED
        BY <3>2, <3>8, <4>1, <4>2
    <3>11. P * m <= B
      <4>1. P * t + f >= (P * u + g) - W
        BY <3>5, <3>6, <3>7
      <4>2. f \in Int /\ g \in Int /\ f <= Max(TxErrors) /\ Min(TxErrors) <= g
        BY <2>2
      <4>3. P * m <= W + f - g
        BY <2>1, <3>9, <3>10, <4>1, <4>2
      <4> QED
        BY <2>1, <2>2, <3>9, <4>2, <4>3
    <3> HIDE DEF B, c
    <3>12. ~ (c < m)
      <4> SUFFICES ASSUME c < m PROVE FALSE
        OBVIOUS
      <4>1. P * c + P <= P * m
        BY <2>1, <2>4, <3>8, MultiplesApart
      <4>2. P * c \in Int
        BY <2>1, <2>4
      <4> QED
        BY <2>1, <2>3, <2>4, <3>9, <3>11, <4>1, <4>2
    <3>13. n <= c + 1
      BY <2>4, <2>5, <3>8, <3>12 DEF m
    <3> QED
      BY <3>13 DEF n, q, c, B, P, W
  <2> QED
    BY <2>6, <2>7
<1> QED
  BY <1>1, TypedAlways, TruthfulAlways, OrderedAlways, PTL

-----------------------------------------------------------------------------
(* What a difference adds to the statistics.                               *)

\* The fields of the statistics, whatever their values.
Shaped(s) ==
  s = [n |-> s.n, sum_us |-> s.sum_us, sum_sq_us |-> s.sum_sq_us, max_abs_us |-> s.max_abs_us,
       recent_abs_us |-> s.recent_abs_us, p99_abs_us |-> s.p99_abs_us, mean_us |-> s.mean_us,
       stddev_us |-> s.stddev_us]

Tallied(s) ==
  /\ Shaped(s)
  /\ s.n \in Nat /\ s.max_abs_us \in Nat /\ s.sum_us \in Int /\ s.sum_sq_us \in Int
  /\ s.recent_abs_us \in Seq(Nat)
  /\ s.n = 0 => s.max_abs_us = 0 /\ s.sum_us = 0 /\ s.sum_sq_us = 0
  /\ s.n * s.sum_sq_us >= s.sum_us * s.sum_us
  /\ s.n # 0 => s.recent_abs_us # <<>> /\ s.p99_abs_us = P99(s.recent_abs_us)

\* The square of a sum is at most the number of terms times the sum of their squares.
LEMMA SquaresOfSum ==
  ASSUME NEW n \in Nat, NEW sum \in Int, NEW sq \in Int, NEW x \in Int,
         n * sq >= sum * sum, n = 0 => sum = 0 /\ sq = 0
  PROVE  (n + 1) * (sq + x * x) >= (sum + x) * (sum + x)
<1> DEFINE xx == x * x
           sx == sum * x
           ss == sum * sum
           nq == n * sq
           nxx == n * xx
           d == nxx + sq - 2 * sx
<1>1. xx \in Int /\ sx \in Int /\ ss \in Int /\ nq \in Int /\ nxx \in Int /\ d \in Int
  OBVIOUS
<1>2. (sum + x) * (sum + x) = ss + 2 * sx + xx
  OBVIOUS
<1>3. (n + 1) * (sq + xx) = nq + sq + nxx + xx
  <2>1. (n + 1) * (sq + xx) = n * (sq + xx) + (sq + xx)
    BY <1>1
  <2>2. n * (sq + xx) = nq + nxx
    BY <1>1
  <2> HIDE DEF nq, nxx, xx
  <2> QED
    BY <1>1, <2>1, <2>2
<1>4. d >= 0
  <2>1. CASE n = 0
    <3>1. nxx = 0 /\ sx = 0 /\ sq = 0
      BY <1>1, <2>1
    <3> HIDE DEF nxx, sx
    <3> QED
      BY <3>1
  <2>2. CASE n # 0
    <3> DEFINE y == n * x - sum
    <3>1. y \in Int /\ y * y >= 0
      OBVIOUS
    <3>2. y * y = (n * x) * (n * x) - 2 * ((n * x) * sum) + ss
      OBVIOUS
    <3>3. (n * x) * (n * x) = n * nxx /\ (n * x) * sum = n * sx
      OBVIOUS
    <3>4. n * d = n * nxx + nq - 2 * (n * sx) /\ n * nxx \in Int /\ n * sx \in Int /\ n * d \in Int
      OBVIOUS
    <3>5. nq >= ss
      OBVIOUS
    <3> HIDE DEF y, nxx, sx, ss, nq, d
    <3>6. n * d >= 0
      BY <1>1, <3>1, <3>2, <3>3, <3>4, <3>5
    <3> QED
      BY <1>1, <2>2, <3>6
  <2> QED
    BY <2>1, <2>2
<1>5. nq >= ss
  OBVIOUS
<1>6. nq + sq + nxx + xx >= ss + 2 * sx + xx
  <2> HIDE DEF nq, nxx, xx, ss, sx
  <2> QED
    BY <1>1, <1>4, <1>5 DEF d
<1> HIDE DEF nq, nxx, ss, sx
<1>7. (n + 1) * (sq + xx) >= (sum + x) * (sum + x)
  BY <1>2, <1>3, <1>6
<1> QED
  BY <1>7

\* Whole microseconds.
Us(delta_ns) == TruncDiv(delta_ns, NsPerUs)

LEMMA TruncType ==
  ASSUME NEW x \in Int, NEW b \in Nat \ {0}
  PROVE  /\ TruncDiv(x, b) \in Int /\ Magnitude(TruncDiv(x, b)) \in Nat
         /\ Magnitude(TruncDiv(x, b)) = Magnitude(x) \div b
<1> DEFINE m == Magnitude(x)
           c == m \div b
<1>1. m \in Nat /\ Magnitude(b) = b
  BY MagnitudeType DEF Magnitude
<1>2. c \in Nat
  <2> HIDE DEF m
  <2> QED
    BY <1>1
<1>3. TruncDiv(x, b) = IF (x < 0) = (b < 0) THEN c ELSE -c
  BY <1>1 DEF TruncDiv
<1>4. TruncDiv(x, b) = c \/ TruncDiv(x, b) = -c
  BY <1>3
<1> HIDE DEF c
<1> QED
  BY <1>2, <1>4 DEF Magnitude, c, m

LEMMA UsType ==
  ASSUME NEW x \in Int
  PROVE  /\ Us(x) \in Int /\ Magnitude(Us(x)) \in Nat
         /\ Magnitude(Us(x)) = Magnitude(x) \div NsPerUs
<1>1. NsPerUs \in Nat \ {0}
  BY MeterAssumption
<1> QED
  BY <1>1, TruncType DEF Us

LEMMA RecentsAdd ==
  ASSUME NEW q \in Seq(Nat), NEW x \in Nat
  PROVE  /\ Recents(q, x) \in Seq(Nat)
         /\ Len(Recents(q, x)) \in Nat /\ Len(Recents(q, x)) >= 1
         /\ Recents(q, x)[Len(Recents(q, x))] = x
<1>1. CASE Len(q) = Recent
  <2>1. q # <<>>
    BY <1>1, EmptySeq, MeterAssumption
  <2>2. Tail(q) \in Seq(Nat)
    BY <2>1, HeadTailProperties
  <2> QED
    BY <1>1, <2>2, AppendProperties, LenProperties DEF Recents
<1>2. CASE Len(q) # Recent
  BY <1>2, AppendProperties, LenProperties DEF Recents
<1> QED
  BY <1>1, <1>2

LEMMA RecordFields ==
  ASSUME NEW s, Tallied(s), NEW delta \in Int
  PROVE  LET r == record(s, delta)
             x == Us(delta)
         IN  /\ r.n = s.n + 1
             /\ r.sum_us = s.sum_us + x
             /\ r.sum_sq_us = s.sum_sq_us + x * x
             /\ r.recent_abs_us = Recents(s.recent_abs_us, Magnitude(x))
             /\ r.max_abs_us = IF Magnitude(x) > s.max_abs_us THEN Magnitude(x) ELSE s.max_abs_us
             /\ r.p99_abs_us = P99(r.recent_abs_us)
             /\ Tallied(r)
<1> DEFINE x == Us(delta)
           recent == Recents(s.recent_abs_us, Magnitude(x))
           t == [s EXCEPT !.n = @ + 1,
                          !.sum_us = @ + x,
                          !.sum_sq_us = @ + x * x,
                          !.max_abs_us = MaxAbs(s, recent),
                          !.recent_abs_us = recent,
                          !.p99_abs_us = P99(recent)]
           var == Variance(t)
           r == [t EXCEPT !.mean_us = MeanUs(t),
                          !.stddev_us = Sqrt(IF var < 0 THEN 0 ELSE var)]
<1>1. record(s, delta) = r
  BY DEF record, Us
<1>2. x \in Int /\ Magnitude(x) \in Nat
  BY UsType
<1>3. /\ recent \in Seq(Nat)
      /\ recent[Len(recent)] = Magnitude(x)
  BY <1>2, RecentsAdd DEF Tallied
<1>4. MaxAbs(s, recent) = IF Magnitude(x) > s.max_abs_us THEN Magnitude(x) ELSE s.max_abs_us
  BY <1>3 DEF MaxAbs
<1> DEFINE mean == MeanUs(t)
           dev == Sqrt(IF var < 0 THEN 0 ELSE var)
           p99 == P99(recent)
           top == MaxAbs(s, recent)
<1>5. s = [n |-> s.n, sum_us |-> s.sum_us, sum_sq_us |-> s.sum_sq_us, max_abs_us |-> s.max_abs_us,
           recent_abs_us |-> s.recent_abs_us, p99_abs_us |-> s.p99_abs_us, mean_us |-> s.mean_us,
           stddev_us |-> s.stddev_us]
  BY DEF Tallied, Shaped
<1> DEFINE sum == s.sum_us + x
           sq == s.sum_sq_us + x * x
           num == s.n + 1
<1>6. t = [s EXCEPT !.n = num, !.sum_us = sum, !.sum_sq_us = sq, !.max_abs_us = top,
                    !.recent_abs_us = recent, !.p99_abs_us = p99]
  OBVIOUS
<1>7. r = [t EXCEPT !.mean_us = mean, !.stddev_us = dev]
  OBVIOUS
<1> HIDE DEF mean, dev, p99, top, recent, sum, sq, num, t, r
<1>8. t = [n |-> num, sum_us |-> sum, sum_sq_us |-> sq, max_abs_us |-> top,
           recent_abs_us |-> recent, p99_abs_us |-> p99, mean_us |-> s.mean_us,
           stddev_us |-> s.stddev_us]
  BY <1>5, <1>6
<1>9. r = [n |-> num, sum_us |-> sum, sum_sq_us |-> sq, max_abs_us |-> top,
           recent_abs_us |-> recent, p99_abs_us |-> p99, mean_us |-> mean, stddev_us |-> dev]
  BY <1>7, <1>8
<1>10. /\ r.n = num /\ r.sum_us = sum /\ r.sum_sq_us = sq /\ r.max_abs_us = top
       /\ r.recent_abs_us = recent /\ r.p99_abs_us = p99 /\ r.mean_us = mean /\ r.stddev_us = dev
  BY <1>9
<1>11. Shaped(r)
  BY <1>9, <1>10 DEF Shaped
<1>12. /\ s.n \in Nat /\ s.max_abs_us \in Nat /\ s.sum_us \in Int /\ s.sum_sq_us \in Int
  BY DEF Tallied
<1>13. /\ num \in Nat /\ num # 0 /\ sum \in Int /\ sq \in Int /\ top \in Nat
  BY <1>2, <1>4, <1>12 DEF num, sum, sq, top
<1>14. num * sq >= sum * sum
  <2>1. s.n * s.sum_sq_us >= s.sum_us * s.sum_us /\ (s.n = 0 => s.sum_us = 0 /\ s.sum_sq_us = 0)
    BY DEF Tallied
  <2> QED
    BY <1>2, <1>12, <2>1, SquaresOfSum DEF num, sq, sum
<1>15. recent # <<>>
  <2>1. Len(recent) >= 1
    BY <1>2, RecentsAdd DEF recent, Tallied
  <2> QED
    BY <2>1
<1>16. Tallied(r)
  BY <1>3, <1>10, <1>11, <1>13, <1>14, <1>15 DEF Tallied, p99
<1> QED
  BY <1>1, <1>4, <1>10, <1>16 DEF num, sum, sq, top, recent, p99

\* What HandleRx adds: nothing when the window holds no transmission.
LEMMA HandleRxRecords ==
  ASSUME Typed, HandleRx
  PROVE  LET e == chan[1]
             o == 1 - e.device
             q == tx_history[o]
         IN  /\ o \in Devices /\ e \in Event /\ e.kind # "tx"
             /\ \/ Candidates(q, e.synced_ns) = {} /\ UNCHANGED <<stats, pairs, worst>>
                \/ /\ Candidates(q, e.synced_ns) # {}
                   /\ \E delta \in Int :
                        /\ stats' = [stats EXCEPT ![o] = record(stats[o], delta)]
                        /\ worst' = IF Magnitude(delta) > worst THEN Magnitude(delta) ELSE worst
<1> DEFINE e == chan[1]
           o == 1 - e.device
           q == tx_history[o]
           b == Best(q, e.synced_ns)
           delta == e.synced_ns - q[b].synced_ns
<1>1. e \in Event /\ Head(chan) = e /\ e.kind # "tx"
  BY ReceiveTakes DEF HandleRx
<1>2. o \in Devices /\ e.synced_ns \in Nat
  BY <1>1 DEF Event, Devices
<1>3. q \in Seq(Sent)
  BY <1>2 DEF Typed
<1>4. CASE Candidates(q, e.synced_ns) = {}
  BY <1>1, <1>2, <1>4 DEF HandleRx
<1>5. CASE Candidates(q, e.synced_ns) # {}
  <2>1. b \in Candidates(q, e.synced_ns)
    BY <1>2, <1>3, <1>5, BestIsCandidate
  <2>2. b \in 1..Len(q)
    BY <2>1 DEF Candidates
  <2>3. q[b].synced_ns \in Nat
    BY <1>2, <2>2, SentTypes
  <2>4. delta \in Int
    BY <1>2, <2>3
  <2>5. /\ stats' = [stats EXCEPT ![o] = record(stats[o], delta)]
        /\ worst' = IF Magnitude(delta) > worst THEN Magnitude(delta) ELSE worst
    BY <1>1, <1>5 DEF HandleRx
  <2> HIDE DEF delta
  <2> QED
    BY <1>1, <1>2, <1>5, <2>4, <2>5
<1> QED
  BY <1>4, <1>5

\* The statistics of every direction.
Tallies ==
  /\ stats = [d \in Devices |-> stats[d]]
  /\ \A d \in Devices : Tallied(stats[d])

\* A reception that is recorded is one more in the statistics of the other board.
LEMMA HandleRxTallies ==
  ASSUME Typed, Tallies, HandleRx
  PROVE  LET e == chan[1]
             o == 1 - e.device
         IN  /\ Tallies'
             /\ o \in Devices /\ e \in Event /\ e.kind # "tx"
             /\ \/ /\ Candidates(tx_history[o], e.synced_ns) = {}
                   /\ UNCHANGED <<stats, pairs, worst>>
                \/ /\ Candidates(tx_history[o], e.synced_ns) # {}
                   /\ \E delta \in Int :
                        /\ stats'[o] = record(stats[o], delta)
                        /\ \A d \in Devices \ {o} : stats'[d] = stats[d]
                        /\ worst' = IF Magnitude(delta) > worst THEN Magnitude(delta) ELSE worst
<1> DEFINE e == chan[1]
           o == 1 - e.device
           C == Candidates(tx_history[o], e.synced_ns)
<1>1. o \in Devices /\ e \in Event /\ e.kind # "tx"
  BY HandleRxRecords
<1>2. CASE C = {} /\ UNCHANGED <<stats, pairs, worst>>
  <2>1. Tallies'
    BY <1>2 DEF Tallies
  <2> QED
    BY <1>1, <1>2, <2>1
<1>3. ASSUME C # {},
             NEW delta \in Int, stats' = [stats EXCEPT ![o] = record(stats[o], delta)],
             worst' = IF Magnitude(delta) > worst THEN Magnitude(delta) ELSE worst
      PROVE  Tallies' /\ stats'[o] = record(stats[o], delta)
             /\ \A d \in Devices \ {o} : stats'[d] = stats[d]
  <2> HIDE DEF o
  <2>1. stats'[o] = record(stats[o], delta)
        /\ (\A d \in Devices \ {o} : stats'[d] = stats[d])
        /\ stats' = [d \in Devices |-> stats'[d]]
    BY <1>1, <1>3 DEF Tallies
  <2>2. Tallied(record(stats[o], delta))
    BY <1>1, RecordFields DEF Tallies
  <2> QED
    BY <1>1, <2>1, <2>2 DEF Tallies
<1>4. \/ C = {} /\ UNCHANGED <<stats, pairs, worst>>
      \/ /\ C # {}
         /\ \E delta \in Int :
              /\ stats' = [stats EXCEPT ![o] = record(stats[o], delta)]
              /\ worst' = IF Magnitude(delta) > worst THEN Magnitude(delta) ELSE worst
  BY HandleRxRecords
<1>5. CASE /\ C # {}
           /\ \E delta \in Int :
                /\ stats' = [stats EXCEPT ![o] = record(stats[o], delta)]
                /\ worst' = IF Magnitude(delta) > worst THEN Magnitude(delta) ELSE worst
  <2>1. PICK delta \in Int :
              /\ stats' = [stats EXCEPT ![o] = record(stats[o], delta)]
              /\ worst' = IF Magnitude(delta) > worst THEN Magnitude(delta) ELSE worst
    BY <1>5
  <2>2. Tallies' /\ stats'[o] = record(stats[o], delta)
        /\ \A d \in Devices \ {o} : stats'[d] = stats[d]
    BY <1>3, <1>5, <2>1
  <2> HIDE DEF o, e, C
  <2>3. /\ C # {}
        /\ \E y \in Int :
             /\ stats'[o] = record(stats[o], y)
             /\ \A d \in Devices \ {o} : stats'[d] = stats[d]
             /\ worst' = IF Magnitude(y) > worst THEN Magnitude(y) ELSE worst
    BY <1>5, <2>1, <2>2
  <2> QED
    BY <1>1, <2>2, <2>3 DEF C, o, e
<1> QED
  BY <1>2, <1>4, <1>5

LEMMA TalliesAlways == Spec => []Tallies
<1>1. Init => Tallies
  <2>1. Tallied(NoStats)
    <3>1. <<>> \in Seq(Nat)
      BY EmptySeq
    <3> QED
      BY <3>1 DEF NoStats, Tallied, Shaped
  <2> QED
    BY <2>1 DEF Init, Tallies
<1>2. Typed /\ Tallies /\ [Next]_vars => Tallies'
  <2> SUFFICES ASSUME Typed, Tallies, [Next]_vars, ~ HandleRx PROVE Tallies'
    BY HandleRxTallies
  <2>1. stats' = stats
    BY DEF Next, Read, Skip, HandleTx, Finish, vars
  <2> QED
    BY <2>1 DEF Tallies
<1> QED
  BY <1>1, <1>2, TypedAlways, PTL DEF Spec

-----------------------------------------------------------------------------
(* The exit status.                                                        *)

\* The greatest difference, in whole microseconds, is the maximum of a direction.
Overall ==
  /\ worst \in Nat
  /\ \A d \in Devices : stats[d].max_abs_us <= worst \div NsPerUs
  /\ \E d \in Devices : stats[d].max_abs_us = worst \div NsPerUs

LEMMA QuotientMonotone ==
  ASSUME NEW a \in Nat, NEW b \in Nat, NEW m \in Nat \ {0}, a <= b
  PROVE  a \div m \in Nat /\ b \div m \in Nat /\ a \div m <= b \div m
<1> DEFINE p == a \div m
           q == b \div m
<1>1. /\ p \in Nat /\ a = m * p + (a % m) /\ a % m \in 0 .. m - 1
      /\ q \in Nat /\ b = m * q + (b % m) /\ b % m \in 0 .. m - 1
  OBVIOUS
<1>2. m * p \in Int /\ m * q \in Int
  BY <1>1
<1> HIDE DEF p, q
<1>3. ~ (q < p)
  <2> SUFFICES ASSUME q < p PROVE FALSE
    OBVIOUS
  <2>1. m * q + m <= m * p
    BY <1>1, MultiplesApart
  <2> QED
    BY <1>1, <1>2, <2>1
<1> QED
  BY <1>1, <1>3 DEF p, q

\* A quotient exceeds a number when the dividend reaches the next multiple.
LEMMA QuotientExceeds ==
  ASSUME NEW a \in Nat, NEW c \in Nat, NEW m \in Nat \ {0}
  PROVE  a \div m \in Nat /\ (a \div m > c <=> a >= (c + 1) * m)
<1> DEFINE p == a \div m
           u == c + 1
<1>1. p \in Nat /\ a = m * p + (a % m) /\ a % m \in 0 .. m - 1
  OBVIOUS
<1>2. m * p \in Int /\ m * u \in Int /\ (c + 1) * m = m * u /\ u \in Int
  BY <1>1
<1> HIDE DEF p, u
<1>3. p < u => m * p + m <= m * u
  BY <1>1, <1>2, MultiplesApart
<1>4. u < p => m * u + m <= m * p
  BY <1>1, <1>2, MultiplesApart
<1>5. u = p => m * u = m * p
  OBVIOUS
<1>6. p >= u <=> a >= m * u
  BY <1>1, <1>2, <1>3, <1>4, <1>5
<1>7. p >= u <=> p > c
  BY <1>1 DEF u
<1> QED
  BY <1>1, <1>2, <1>6, <1>7 DEF p

LEMMA OverallAlways == Spec => []Overall
<1>1. Init => Overall
  <2> SUFFICES ASSUME Init PROVE Overall
    OBVIOUS
  <2>1. worst = 0 /\ \A d \in Devices : stats[d].max_abs_us = 0
    BY DEF Init, NoStats
  <2>2. 0 \div NsPerUs = 0
    BY MeterAssumption
  <2> QED
    BY <2>1, <2>2 DEF Overall, Devices
<1>2. Typed /\ Tallies /\ Overall /\ [Next]_vars => Overall'
  <2> SUFFICES ASSUME Typed, Tallies, Overall, [Next]_vars PROVE Overall'
    OBVIOUS
  <2>1. CASE ~ HandleRx
    <3>1. stats' = stats /\ worst' = worst
      BY <2>1 DEF Next, Read, Skip, HandleTx, Finish, vars
    <3> QED
      BY <3>1 DEF Overall
  <2>2. CASE HandleRx
    <3> DEFINE o == 1 - chan[1].device
               C == Candidates(tx_history[o], chan[1].synced_ns)
    <3>1. /\ o \in Devices
          /\ \/ C = {} /\ UNCHANGED <<stats, pairs, worst>>
             \/ /\ C # {}
                /\ \E delta \in Int :
                     /\ stats'[o] = record(stats[o], delta)
                     /\ \A d \in Devices \ {o} : stats'[d] = stats[d]
                     /\ worst' = IF Magnitude(delta) > worst THEN Magnitude(delta) ELSE worst
      BY <2>2, HandleRxTallies
    <3> HIDE DEF o, C
    <3>2. CASE UNCHANGED <<stats, pairs, worst>>
      BY <3>2 DEF Overall
    <3>3. ASSUME NEW delta \in Int,
                 stats'[o] = record(stats[o], delta),
                 \A d \in Devices \ {o} : stats'[d] = stats[d],
                 worst' = IF Magnitude(delta) > worst THEN Magnitude(delta) ELSE worst
          PROVE  Overall'
      <4> DEFINE m == Magnitude(delta)
                 x == Magnitude(Us(delta))
                 w == worst \div NsPerUs
                 v == worst' \div NsPerUs
      <4>1. m \in Nat /\ x \in Nat /\ x = m \div NsPerUs
        BY UsType, MagnitudeType
      <4>2. worst \in Nat /\ NsPerUs \in Nat \ {0}
        BY MeterAssumption DEF Overall
      <4>3. \A d \in Devices : stats[d].max_abs_us \in Nat /\ stats[d].max_abs_us <= w
        BY DEF Overall, Tallies, Tallied
      <4>4. stats'[o].max_abs_us
              = IF x > stats[o].max_abs_us THEN x ELSE stats[o].max_abs_us
        <5>1. Tallied(stats[o])
          BY <3>1 DEF Tallies
        <5> QED
          BY <3>3, <5>1, RecordFields
      <4>5. PICK d \in Devices : stats[d].max_abs_us = w
        BY DEF Overall
      <4>6. worst' = IF m > worst THEN m ELSE worst
        BY <3>3
      <4>7. w \in Nat /\ v \in Nat /\ w <= v /\ x <= v /\ (v = w \/ v = x)
        <5>1. CASE m > worst
          <6>1. v = x
            BY <4>1, <4>6, <5>1
          <6>2. w \in Nat /\ w <= m \div NsPerUs /\ m \div NsPerUs \in Nat
            <7> HIDE DEF m
            <7> QED
              BY <4>1, <4>2, <5>1, QuotientMonotone
          <6> HIDE DEF v, w, x, m
          <6> QED
            BY <4>1, <6>1, <6>2
        <5>2. CASE ~ (m > worst)
          <6>1. v = w
            BY <4>6, <5>2
          <6>2. w \in Nat /\ m \div NsPerUs <= w /\ m \div NsPerUs \in Nat
            <7> HIDE DEF m
            <7> QED
              BY <4>1, <4>2, <5>2, QuotientMonotone
          <6> HIDE DEF v, w, x, m
          <6> QED
            BY <4>1, <6>1, <6>2
        <5> QED
          BY <5>1, <5>2
      <4>8. worst' \in Nat
        BY <4>1, <4>2, <4>6
      <4> HIDE DEF v, w, x, m
      <4>9. \A c \in Devices : stats'[c].max_abs_us <= v
        <5> SUFFICES ASSUME NEW c \in Devices PROVE stats'[c].max_abs_us <= v
          OBVIOUS
        <5>1. CASE c = o
          BY <3>1, <4>1, <4>3, <4>4, <4>7, <5>1
        <5>2. CASE c # o
          <6>1. stats'[c] = stats[c]
            BY <3>3, <5>2
          <6> QED
            BY <4>3, <4>7, <6>1
        <5> QED
          BY <5>1, <5>2
      <4>10. \E c \in Devices : stats'[c].max_abs_us = v
        <5>1. stats[o].max_abs_us \in Nat /\ stats[o].max_abs_us <= w
          BY <3>1, <4>3
        <5>2. CASE x > stats[o].max_abs_us
          <6>1. stats'[o].max_abs_us = x
            BY <4>4, <5>2
          <6>2. CASE v = x
            BY <3>1, <6>1, <6>2
          <6>3. CASE v = w /\ v # x
            <7>1. d # o
              BY <4>1, <4>5, <4>7, <5>1, <5>2, <6>3
            <7> QED
              BY <3>3, <4>5, <6>3, <7>1
          <6> QED
            BY <4>7, <6>2, <6>3
        <5>3. CASE ~ (x > stats[o].max_abs_us)
          <6>1. stats'[o].max_abs_us = stats[o].max_abs_us /\ x <= w
            BY <4>1, <4>4, <4>7, <5>1, <5>3
          <6>2. v = w
            BY <4>1, <4>7, <6>1
          <6>3. stats'[d].max_abs_us = stats[d].max_abs_us
            BY <3>3, <6>1
          <6> QED
            BY <4>5, <6>2, <6>3
        <5> QED
          BY <5>2, <5>3
      <4> QED
        BY <4>8, <4>9, <4>10 DEF Overall, v
    <3> QED
      BY <3>1, <3>2, <3>3
  <2> QED
    BY <2>1, <2>2
<1> QED
  BY <1>1, <1>2, TypedAlways, TalliesAlways, PTL DEF Spec

\* The exit status tells whether any difference since the beginning exceeded the limit by
\* a whole microsecond or more.
THEOREM VerdictKept == Spec => []VerdictTrue
<1>1. Init => VerdictTrue
  BY DEF Init, VerdictTrue
<1>2. Tallies /\ Overall /\ VerdictTrue /\ [Next]_vars => VerdictTrue'
  <2> SUFFICES ASSUME Tallies, Overall, VerdictTrue, [Next]_vars PROVE VerdictTrue'
    OBVIOUS
  <2>1. CASE Finish
    <3> DEFINE w == worst \div NsPerUs
               over == \E d \in Devices : stats[d].n # 0 /\ stats[d].max_abs_us > limit_us
    <3>1. exit' = (IF over THEN 2 ELSE 0) /\ worst' = worst
      BY <2>1 DEF Finish
    <3>2. limit_us \in Nat /\ worst \in Nat /\ NsPerUs \in Nat \ {0}
      BY MeterAssumption DEF Overall
    <3>3. w \in Nat /\ (w > limit_us <=> worst >= (limit_us + 1) * NsPerUs)
      BY <3>2, QuotientExceeds
    <3> HIDE DEF w
    <3>4. over <=> w > limit_us
      <4>1. ASSUME NEW d \in Devices
            PROVE  /\ stats[d].max_abs_us \in Nat /\ stats[d].max_abs_us <= w
                   /\ stats[d].n = 0 => stats[d].max_abs_us = 0
        BY DEF Tallies, Tallied, Overall, w
      <4>2. PICK d \in Devices : stats[d].max_abs_us = w
        BY DEF Overall, w
      <4>3. ASSUME w > limit_us PROVE over
        <5>1. stats[d].n # 0 /\ stats[d].max_abs_us > limit_us
          BY <3>2, <3>3, <4>1, <4>2, <4>3
        <5> QED
          BY <5>1
      <4>4. ASSUME NEW c \in Devices, stats[c].max_abs_us > limit_us PROVE w > limit_us
        BY <3>2, <3>3, <4>1, <4>4
      <4> QED
        BY <4>3, <4>4
    <3>5. exit' = 2 <=> over
      <4> HIDE DEF over
      <4>1. CASE over
        BY <3>1, <4>1
      <4>2. CASE ~ over
        BY <3>1, <4>2
      <4> QED
        BY <4>1, <4>2
    <3>6. exit' = 2 <=> worst' >= (limit_us + 1) * NsPerUs
      <4> HIDE DEF over
      <4> QED
        BY <3>1, <3>3, <3>4, <3>5
    <3> QED
      BY <3>6 DEF VerdictTrue
  <2>2. CASE UNCHANGED vars
    BY <2>2 DEF VerdictTrue, vars
  <2>3. CASE Next /\ ~ Finish
    <3>1. exit' = None
      BY <2>3 DEF Next, Read, Skip, NextLine, HandleTx, HandleRx, Receive
    <3> QED
      BY <3>1 DEF VerdictTrue
  <2> QED
    BY <2>1, <2>2, <2>3
<1> QED
  BY <1>1, <1>2, TalliesAlways, OverallAlways, PTL DEF Spec

-----------------------------------------------------------------------------
(* The percentile and the deviation.                                       *)

\* The elements of a finite set can be counted in the order of their values.
LEMMA OrderExists ==
  ASSUME NEW D, NEW f, \A x \in D : f[x] \in Int, IsFiniteSet(D)
  PROVE  \E p \in Bijection(1..Cardinality(D), D) :
           \A i, j \in 1..Cardinality(D) : i < j => f[p[i]] <= f[p[j]]
<1> DEFINE Counts(p, n, S) ==
             /\ p \in [1..n -> S]
             /\ \A i, j \in 1..n : p[i] = p[j] => i = j
             /\ \A x \in S : \E i \in 1..n : p[i] = x
             /\ \A i, j \in 1..n : i < j => f[p[i]] <= f[p[j]]
           Reached == {n \in Nat : \A S \in SUBSET D :
                         IsFiniteSet(S) /\ Cardinality(S) = n => \E p : Counts(p, n, S)}
<1>1. 0 \in Reached
  <2> SUFFICES ASSUME NEW S \in SUBSET D, IsFiniteSet(S), Cardinality(S) = 0
               PROVE  \E p : Counts(p, 0, S)
    OBVIOUS
  <2>1. S = {} /\ 1..0 = {}
    BY FS_EmptySet
  <2>2. Counts([i \in {} |-> 0], 0, S)
    BY <2>1
  <2> QED
    BY <2>2
<1>2. ASSUME NEW n \in Nat, n \in Reached PROVE n + 1 \in Reached
  <2> SUFFICES ASSUME NEW S \in SUBSET D, IsFiniteSet(S), Cardinality(S) = n + 1
               PROVE  \E p : Counts(p, n + 1, S)
    OBVIOUS
  <2>1. S # {}
    BY FS_EmptySet
  <2> DEFINE V == {f[x] : x \in S}
  <2>2. PICK x \in S : \A y \in S : f[y] <= f[x]
    <3>1. IsFiniteSet(V)
      <4> DEFINE g == [y \in S |-> f[y]]
      <4>1. g \in Surjection(S, V)
        BY DEF Surjection
      <4> HIDE DEF g, V
      <4> QED
        BY <4>1, FS_Surjection
    <3>2. V \subseteq Int /\ V # {}
      BY <2>1
    <3>3. Max(V) \in V /\ \A v \in V : v <= Max(V)
      <4> HIDE DEF V
      <4> QED
        BY <3>1, <3>2, Extremes
    <3> QED
      BY <3>3
  <2> DEFINE R == S \ {x}
  <2>3. R \in SUBSET D /\ IsFiniteSet(R) /\ Cardinality(R) = n
    <3>1. IsFiniteSet(R) /\ Cardinality(R) = Cardinality(S) - 1
      BY <2>2, FS_RemoveElement
    <3> QED
      BY <3>1
  <2>4. PICK p : Counts(p, n, R)
    BY <1>2, <2>3
  <2> DEFINE r == [i \in 1..n + 1 |-> IF i = n + 1 THEN x ELSE p[i]]
  <2>5. \A i \in 1..n + 1 : i = n + 1 \/ (i \in 1..n /\ i # n + 1)
    OBVIOUS
  <2>6. \A i \in 1..n : i \in 1..n + 1 /\ i # n + 1 /\ r[i] = p[i] /\ p[i] \in R
    BY <2>4
  <2>7. n + 1 \in 1..n + 1 /\ r[n + 1] = x
    OBVIOUS
  <2>8. r \in [1..n + 1 -> S]
    <3> SUFFICES ASSUME NEW i \in 1..n + 1 PROVE r[i] \in S
      OBVIOUS
    <3> HIDE DEF r
    <3> QED
      BY <2>5, <2>6, <2>7
  <2> HIDE DEF r
  <2>9. ASSUME NEW i \in 1..n + 1, NEW j \in 1..n + 1, r[i] = r[j] PROVE i = j
    BY <2>4, <2>5, <2>6, <2>7, <2>9
  <2>10. ASSUME NEW y \in S PROVE \E i \in 1..n + 1 : r[i] = y
    <3>1. CASE y = x
      BY <2>7, <3>1
    <3>2. CASE y # x
      <4>1. PICK i \in 1..n : p[i] = y
        BY <2>4, <3>2
      <4> QED
        BY <2>6, <4>1
    <3> QED
      BY <3>1, <3>2
  <2>11. ASSUME NEW i \in 1..n + 1, NEW j \in 1..n + 1, i < j PROVE f[r[i]] <= f[r[j]]
    <3>1. i \in 1..n
      BY <2>11
    <3>2. CASE j = n + 1
      <4>1. r[i] \in S
        BY <2>6, <3>1
      <4> QED
        BY <2>2, <2>7, <3>2, <4>1
    <3>3. CASE j # n + 1
      BY <2>4, <2>5, <2>6, <2>11, <3>1, <3>3
    <3> QED
      BY <3>2, <3>3
  <2>12. Counts(r, n + 1, S)
    BY <2>8, <2>9, <2>10, <2>11
  <2> HIDE DEF Counts
  <2> QED
    BY <2>12
<1>3. Nat \subseteq Reached
  <2> HIDE DEF Reached
  <2> QED
    BY <1>1, <1>2, SetInduction
<1>4. Cardinality(D) \in Nat
  BY FS_CardinalityType
<1>5. PICK p : Counts(p, Cardinality(D), D)
  <2>1. Cardinality(D) \in Reached
    BY <1>3, <1>4
  <2> HIDE DEF Counts
  <2> QED
    BY <2>1
<1>6. p \in Bijection(1..Cardinality(D), D)
  <2> DEFINE N == 1..Cardinality(D)
  <2>1. p \in [N -> D] /\ (\A i, j \in N : p[i] = p[j] => i = j)
        /\ \A x \in D : \E i \in N : p[i] = x
    BY <1>5
  <2> HIDE DEF N
  <2>2. p \in Injection(N, D)
    BY <2>1 DEF Injection, IsInjective
  <2>3. p \in Surjection(N, D)
    BY <2>1 DEF Surjection
  <2>4. p \in Bijection(N, D)
    BY <2>2, <2>3 DEF Bijection
  <2> QED
    BY <2>4 DEF N
<1> QED
  BY <1>5, <1>6

\* Sorting rearranges, and leaves nothing smaller behind.
LEMMA SortedIs ==
  ASSUME NEW s \in Seq(Nat)
  PROVE  \E p \in Bijection(1..Len(s), 1..Len(s)) :
           /\ Sorted(s) = [i \in 1..Len(s) |-> s[p[i]]]
           /\ \A i, j \in 1..Len(s) : i < j => s[p[i]] <= s[p[j]]
<1> DEFINE I == 1..Len(s)
           inorder(p) == \A i, j \in I : i < j => s[p[i]] <= s[p[j]]
           best == CHOOSE p \in Bijection(I, I) : inorder(p)
<1>1. Len(s) \in Nat /\ IsFiniteSet(I) /\ Cardinality(I) = Len(s)
  <2>1. Len(s) \in Nat
    BY LenProperties
  <2> DEFINE l == Len(s)
  <2> HIDE DEF l
  <2>2. l \in Nat
    BY <2>1 DEF l
  <2>3. IsFiniteSet(1..l) /\ Cardinality(1..l) = l
    BY <2>2, FS_Interval
  <2> QED
    BY <2>2, <2>3 DEF l
<1>2. \A i \in I : s[i] \in Int
  BY ElementOfSeq
<1>3. \E p \in Bijection(I, I) : inorder(p)
  <2>1. \E p \in Bijection(1..Cardinality(I), I) :
          \A i, j \in 1..Cardinality(I) : i < j => s[p[i]] <= s[p[j]]
    <3> HIDE DEF I
    <3> QED
      BY <1>1, <1>2, OrderExists
  <2> QED
    BY <1>1, <2>1
<1>4. Sorted(s) = [i \in I |-> s[best[i]]]
  BY DEF Sorted
<1> HIDE DEF inorder
<1>5. best \in Bijection(I, I) /\ inorder(best)
  BY <1>3
<1> HIDE DEF best
<1> QED
  BY <1>4, <1>5 DEF inorder

\* The percentile has its share of the magnitudes at or below it, and the rest at or above.
LEMMA PercentileIs ==
  ASSUME NEW s \in Seq(Nat), s # <<>>
  PROVE  /\ 100 * Cardinality({i \in 1..Len(s) : s[i] <= P99(s)}) >= Percent * Len(s)
         /\ 100 * Cardinality({i \in 1..Len(s) : s[i] >= P99(s)}) >= (100 - Percent) * Len(s)
<1> DEFINE L == Len(s)
           below == (L * Percent) \div 100
           k == below + 1
           v == P99(s)
           A == {i \in 1..L : s[i] <= v}
           B == {i \in 1..L : s[i] >= v}
<1>1. L \in Nat \ {0} /\ Percent \in Nat /\ Percent < 100
  BY EmptySeq, MeterAssumption
<1>2. PICK p \in Bijection(1..L, 1..L) :
        /\ Sorted(s) = [i \in 1..L |-> s[p[i]]]
        /\ \A i, j \in 1..L : i < j => s[p[i]] <= s[p[j]]
  BY SortedIs
<1>3. /\ p \in [1..L -> 1..L]
      /\ \A i, j \in 1..L : p[i] = p[j] => i = j
  BY <1>2 DEF Bijection, Injection, IsInjective
<1>4. \A i \in 1..L : s[i] \in Nat
  BY ElementOfSeq
<1> DEFINE w == L * Percent
<1>5. w \in Nat /\ w < 100 * L
  <2>1. L * (100 - Percent) >= 1 /\ L * (100 - Percent) = L * 100 - w /\ w \in Int /\ w >= 0
    <3>1. L * (100 - Percent) = L * 100 - w /\ w \in Nat
      BY <1>1
    <3>2. 100 - Percent \in Nat \ {0}
      BY <1>1
    <3> DEFINE y == 100 - Percent
    <3>3. L * y \in Nat \ {0}
      <4> HIDE DEF y, L
      <4> QED
        BY <1>1, <3>2 DEF y
    <3> QED
      BY <3>1, <3>3
  <2> HIDE DEF w
  <2> QED
    BY <1>1, <2>1
<1>6. /\ below \in Nat /\ 100 * below <= w /\ w < 100 * below + 100
  <2>1. below = w \div 100
    OBVIOUS
  <2> HIDE DEF w, below
  <2> QED
    BY <1>5, <2>1
<1> HIDE DEF w, below, L
<1>7. k \in 1..L /\ k \in Nat
  BY <1>1, <1>5, <1>6
<1>8. v = s[p[k]]
  <2>1. v = Sorted(s)[k]
    BY DEF P99, L, below
  <2> QED
    BY <1>2, <1>7, <2>1
<1> HIDE DEF v, k
<1>9. \A i \in 1..L : p[i] \in 1..L /\ s[p[i]] \in Nat
  BY <1>3, <1>4 DEF L
<1>10. \A i \in 1..k : i \in 1..L /\ p[i] \in A
  <2> SUFFICES ASSUME NEW i \in 1..k PROVE i \in 1..L /\ p[i] \in A
    OBVIOUS
  <2>1. i \in 1..L
    BY <1>1, <1>7
  <2>2. s[p[i]] <= v
    <3>1. CASE i = k
      BY <1>7, <1>8, <1>9, <3>1
    <3>2. CASE i # k
      <4>1. i < k
        BY <1>7, <3>2
      <4> QED
        BY <1>2, <1>7, <1>8, <2>1, <4>1
    <3> QED
      BY <3>1, <3>2
  <2> QED
    BY <1>9, <2>1, <2>2
<1>11. \A i \in k..L : i \in 1..L /\ p[i] \in B
  <2> SUFFICES ASSUME NEW i \in k..L PROVE i \in 1..L /\ p[i] \in B
    OBVIOUS
  <2>1. i \in 1..L
    BY <1>1, <1>7
  <2>2. s[p[i]] >= v
    <3>1. CASE i = k
      BY <1>7, <1>8, <1>9, <3>1
    <3>2. CASE i # k
      <4>1. k < i
        BY <1>7, <3>2
      <4>2. s[p[k]] <= s[p[i]]
        BY <1>2, <1>7, <2>1, <4>1
      <4> QED
        BY <1>7, <1>8, <1>9, <2>1, <4>2
    <3> QED
      BY <3>1, <3>2
  <2> QED
    BY <1>9, <2>1, <2>2
<1>12. IsFiniteSet(A) /\ IsFiniteSet(B)
  <2>1. IsFiniteSet(1..L) /\ A \in SUBSET (1..L) /\ B \in SUBSET (1..L)
    BY <1>1, FS_Interval
  <2> HIDE DEF A, B
  <2> QED
    BY <2>1, FS_Subset
<1> HIDE DEF A, B
<1>13. Cardinality(A) \in Nat /\ Cardinality(B) \in Nat
  BY <1>12, FS_CardinalityType
<1>14. k <= Cardinality(A)
  <2> DEFINE g == [i \in 1..k |-> p[i]]
  <2>1. g \in Injection(1..k, A)
    BY <1>3, <1>10 DEF Injection, IsInjective
  <2>2. Cardinality(1..k) = k
    BY <1>7, FS_Interval
  <2> HIDE DEF g
  <2> QED
    BY <1>12, <2>1, <2>2, FS_Injection
<1>15. L - k + 1 <= Cardinality(B)
  <2> DEFINE g == [i \in k..L |-> p[i]]
  <2>1. g \in Injection(k..L, B)
    BY <1>3, <1>11 DEF Injection, IsInjective
  <2>2. Cardinality(k..L) = L - k + 1
    BY <1>1, <1>7, FS_Interval
  <2> HIDE DEF g
  <2> QED
    BY <1>12, <2>1, <2>2, FS_Injection
<1>16. Percent * L = w /\ (100 - Percent) * L = 100 * L - w
  BY <1>1 DEF w
<1>17. 100 * Cardinality(A) >= Percent * L
  BY <1>1, <1>5, <1>6, <1>13, <1>14, <1>16 DEF k
<1>18. 100 * Cardinality(B) >= (100 - Percent) * L
  BY <1>1, <1>5, <1>6, <1>13, <1>15, <1>16 DEF k
<1> QED
  BY <1>17, <1>18 DEF A, B, L, v

\* The variance subtracts the square of a mean that is rounded towards zero.
LEMMA VarianceNotNegative ==
  ASSUME NEW s, Tallied(s), s.n # 0
  PROVE  Variance(s) >= 0
<1> DEFINE n == s.n
           sum == s.sum_us
           sq == s.sum_sq_us
           a == Magnitude(sum)
           mean == TruncDiv(sum, n)
           m == Magnitude(mean)
           mm == m * m
<1>1. n \in Nat \ {0} /\ sum \in Int /\ sq \in Int /\ n * sq >= sum * sum
  BY DEF Tallied
<1>2. a \in Nat /\ a * a = sum * sum
  <2> HIDE DEF sum
  <2> QED
    BY <1>1 DEF Magnitude
<1>3. mean \in Int /\ m \in Nat /\ m = a \div n
  <2> HIDE DEF n, sum
  <2> QED
    BY <1>1, TruncType
<1>4. mm = mean * mean /\ mm \in Nat
  <2> HIDE DEF mean
  <2> QED
    BY <1>3 DEF Magnitude
<1>5. Variance(s) = sq \div n - mean * mean
  BY DEF Variance, MeanUs
<1> HIDE DEF n, sum, sq, a, mean, m
<1>6. n * m <= a /\ n * m \in Nat
  <2>1. a = n * (a \div n) + (a % n) /\ a % n \in 0 .. n - 1
    BY <1>1, <1>2
  <2> QED
    BY <1>1, <1>2, <1>3, <2>1
<1>7. (n * m) * (n * m) <= a * a
  <2> DEFINE x == n * m
  <2>1. x \in Nat /\ x <= a
    BY <1>6
  <2> HIDE DEF x
  <2>2. x * x <= x * a /\ x * a <= a * a /\ x * x \in Int /\ x * a \in Int /\ a * a \in Int
    <3>1. a - x \in Nat
      BY <1>2, <2>1
    <3>2. x * (a - x) \in Nat /\ a * (a - x) \in Nat
      BY <1>2, <2>1, <3>1
    <3>3. x * (a - x) = x * a - x * x /\ a * (a - x) = a * a - x * a
      BY <1>2, <2>1
    <3>4. x * x \in Int /\ x * a \in Int /\ a * a \in Int
      BY <1>2, <2>1
    <3> QED
      BY <3>2, <3>3, <3>4
  <2>3. x * x <= a * a
    BY <2>2
  <2> QED
    BY <2>3 DEF x
<1>8. n * mm <= sq
  <2> DEFINE y == n * mm
             d == y - sq
  <2>1. (n * m) * (n * m) = n * (n * mm)
    BY <1>1, <1>3
  <2>2. n * y <= n * sq /\ y \in Int /\ n * y \in Int /\ n * sq \in Int /\ sum * sum \in Int
    <3>1. y \in Int /\ n * y \in Int /\ n * sq \in Int /\ sum * sum \in Int
      BY <1>1, <1>4
    <3> HIDE DEF y
    <3>2. (n * m) * (n * m) = n * y
      BY <2>1 DEF y
    <3> QED
      BY <1>1, <1>2, <1>7, <3>1, <3>2
  <2> HIDE DEF y
  <2>3. d \in Int /\ n * d = n * y - n * sq
    BY <1>1, <2>2
  <2> HIDE DEF d
  <2>4. n * d <= 0
    BY <2>2, <2>3
  <2>5. d <= 0
    BY <1>1, <2>3, <2>4
  <2> QED
    BY <1>1, <2>2, <2>5 DEF d, y
<1> HIDE DEF mm
<1>9. mm <= sq \div n /\ sq \div n \in Int
  <2> DEFINE c == sq \div n
  <2>1. c \in Int /\ sq = n * c + (sq % n) /\ sq % n \in 0 .. n - 1 /\ n * c \in Int /\ n * mm \in Int
    BY <1>1, <1>4
  <2> HIDE DEF c
  <2>2. ~ (c < mm)
    <3> SUFFICES ASSUME c < mm PROVE FALSE
      OBVIOUS
    <3>1. n * c + n <= n * mm
      BY <1>1, <1>4, <2>1, MultiplesApart
    <3> QED
      BY <1>1, <1>8, <2>1, <3>1
  <2> QED
    BY <1>4, <2>1, <2>2 DEF c
<1> QED
  BY <1>4, <1>5, <1>9

\* The percentile covers its share of the recent magnitudes, and the variance is not one
\* that had to be clamped.
THEOREM StatisticsKept == Spec => []StatisticsTrue
<1>1. Tallies => StatisticsTrue
  <2> SUFFICES ASSUME Tallies, NEW d \in Devices, stats[d].n # 0
               PROVE  PercentileCovers(stats[d]) /\ Variance(stats[d]) >= 0
    BY DEF StatisticsTrue
  <2> DEFINE s == stats[d]
             q == s.recent_abs_us
  <2>1. Tallied(s) /\ s.n # 0
    BY DEF Tallies
  <2>2. Variance(s) >= 0
    <3> HIDE DEF s
    <3> QED
      BY <2>1, VarianceNotNegative
  <2>3. q \in Seq(Nat) /\ q # <<>> /\ s.p99_abs_us = P99(q)
    BY <2>1 DEF Tallied
  <2>4. /\ 100 * Cardinality({i \in 1..Len(q) : q[i] <= P99(q)}) >= Percent * Len(q)
        /\ 100 * Cardinality({i \in 1..Len(q) : q[i] >= P99(q)}) >= (100 - Percent) * Len(q)
    <3> HIDE DEF q
    <3> QED
      BY <2>3, PercentileIs
  <2>5. PercentileCovers(s)
    BY <2>3, <2>4 DEF PercentileCovers
  <2> QED
    BY <2>2, <2>5
<1> QED
  BY <1>1, TalliesAlways, PTL

-----------------------------------------------------------------------------
(* Receptions are paired.                                                  *)

\* No line is more than a tick late, so no event overtakes those of the tick after the next.
InStep ==
  /\ \A k \in Kinds : \A i \in 1..Len(chan) : chan[i].tick <= read[k] + 2
  /\ \A k \in Kinds : \A h \in handled : h.tick <= read[k] + 2
  /\ \A i, j \in 1..Len(chan) : i < j => chan[i].tick <= chan[j].tick + 1
  /\ \A h \in handled : \A j \in 1..Len(chan) : h.tick <= chan[j].tick + 1

\* What is kept has been handled, and of what has been handled the newest transmission and
\* the one of the tick before are kept.
Remembered ==
  /\ \A h \in handled : h.tick \in Nat
  /\ \A d \in Devices : \A i \in 1..Len(tx_history[d]) :
       [device |-> d, kind |-> "tx", tick |-> tx_history[d][i].tick] \in handled
  /\ \A h \in handled :
       /\ h.kind = "tx" /\ h.device \in Devices
       => LET q == tx_history[h.device]
          IN  /\ q # <<>>
              /\ h.tick + 1 >= q[Len(q)].tick => \E i \in 1..Len(q) : q[i].tick = h.tick

LEMMA ReadInStep ==
  ASSUME Typed, InStep, Remembered, NEW k \in Kinds, Read(k) \/ Skip(k)
  PROVE  InStep'
<1>1. /\ read' = [read EXCEPT ![k] = @ + 1] /\ read \in [Kinds -> Nat]
      /\ \A l \in Kinds : read[l] + 1 >= read[k]
      /\ handled' = handled
  BY DEF Read, Skip, NextLine, Typed
<1>2. \A l \in Kinds : read[l] \in Nat /\ read'[l] \in Nat /\ read[l] <= read'[l]
                       /\ read[k] + 1 <= read'[l] + 2
  BY <1>1
<1>3. \A i \in 1..Len(chan) : chan[i].tick \in Nat
  BY EventTypes
<1>4. ASSUME NEW l \in Kinds, NEW i \in 1..Len(chan) PROVE chan[i].tick <= read'[l] + 2
  <2>1. chan[i].tick <= read[l] + 2
    BY DEF InStep
  <2> QED
    BY <1>2, <1>3, <2>1
<1>5. \A l \in Kinds : \A h \in handled : h.tick <= read'[l] + 2
  BY <1>2 DEF InStep, Remembered
<1>6. CASE Skip(k)
  <2>1. chan' = chan
    BY <1>6 DEF Skip
  <2> QED
    BY <1>1, <1>4, <1>5, <2>1 DEF InStep
<1>7. CASE Read(k)
  <2>1. PICK e \in Event : chan' = Append(chan, e) /\ e.tick = read[k] + 1
    BY <1>7, ReadAppends
  <2>2. /\ Len(chan') = Len(chan) + 1 /\ Len(chan) \in Nat
        /\ \A i \in 1..Len(chan) : chan'[i] = chan[i]
        /\ chan'[Len(chan) + 1] = e
    BY <2>1, AppendProperties, LenProperties DEF Typed
  <2>3. \A i \in 1..Len(chan') :
          \/ i \in 1..Len(chan) /\ chan'[i] = chan[i]
          \/ i = Len(chan) + 1 /\ chan'[i] = e
    BY <2>2
  <2>4. e.tick \in Nat
    BY DEF Event
  <2>5. \A l \in Kinds : \A i \in 1..Len(chan') : chan'[i].tick <= read'[l] + 2
    BY <1>2, <1>4, <2>1, <2>3
  <2>6. ASSUME NEW i \in 1..Len(chan'), NEW j \in 1..Len(chan'), i < j
        PROVE  chan'[i].tick <= chan'[j].tick + 1
    <3>1. i \in 1..Len(chan) /\ chan'[i] = chan[i]
      BY <2>2, <2>6
    <3>2. CASE j \in 1..Len(chan) /\ chan'[j] = chan[j]
      BY <2>6, <3>1, <3>2 DEF InStep
    <3>3. CASE chan'[j] = e
      <4>1. chan[i].tick <= read[k] + 2
        BY <3>1 DEF InStep
      <4> QED
        BY <1>2, <1>3, <2>1, <3>1, <3>3, <4>1
    <3> QED
      BY <2>3, <3>2, <3>3
  <2>7. ASSUME NEW h \in handled, NEW j \in 1..Len(chan') PROVE h.tick <= chan'[j].tick + 1
    <3>1. CASE j \in 1..Len(chan) /\ chan'[j] = chan[j]
      BY <3>1 DEF InStep
    <3>2. CASE chan'[j] = e
      <4>1. h.tick <= read[k] + 2 /\ h.tick \in Nat
        BY DEF InStep, Remembered
      <4> QED
        BY <1>2, <2>1, <3>2, <4>1
    <3> QED
      BY <2>3, <3>1, <3>2
  <2> QED
    BY <1>1, <1>5, <2>5, <2>6, <2>7 DEF InStep
<1> QED
  BY <1>6, <1>7

LEMMA ReceiveInStep ==
  ASSUME Typed, InStep, Receive, read' = read
  PROVE  InStep'
<1> DEFINE new == [device |-> chan[1].device, kind |-> chan[1].kind, tick |-> chan[1].tick]
<1>1. /\ Len(chan') = Len(chan) - 1 /\ Len(chan) \in Nat /\ 1 \in 1..Len(chan)
      /\ \A i \in 1..Len(chan') :
           chan'[i] = chan[i + 1] /\ i + 1 \in 1..Len(chan) /\ 1 < i + 1
  BY ReceiveTakes
<1>2. handled' = handled \cup {new} /\ new.tick = chan[1].tick
  BY DEF Receive
<1>3. \A k \in Kinds : \A i \in 1..Len(chan') : chan'[i].tick <= read'[k] + 2
  BY <1>1 DEF InStep
<1>4. \A k \in Kinds : \A h \in handled' : h.tick <= read'[k] + 2
  BY <1>1, <1>2 DEF InStep
<1>5. ASSUME NEW i \in 1..Len(chan'), NEW j \in 1..Len(chan'), i < j
      PROVE  chan'[i].tick <= chan'[j].tick + 1
  <2>1. i + 1 < j + 1
    BY <1>5
  <2> QED
    BY <1>1, <2>1 DEF InStep
<1>6. ASSUME NEW h \in handled', NEW j \in 1..Len(chan') PROVE h.tick <= chan'[j].tick + 1
  <2>1. CASE h \in handled
    BY <1>1, <2>1 DEF InStep
  <2>2. CASE h = new
    BY <1>1, <1>2, <2>2 DEF InStep
  <2> QED
    BY <1>2, <2>1, <2>2
<1> QED
  BY <1>3, <1>4, <1>5, <1>6 DEF InStep

\* The window holds the reports of a tick, and four windows hold a period.
Matched ==
  /\ \A e \in RxErrors, f \in TxErrors : Magnitude(e - f) <= match_window
  /\ \A f, g \in TxErrors : Period + g - f <= 4 * match_window

\* The cutoff spares the transmission of the tick before.
LEMMA TickBeforeSpared ==
  ASSUME Matched, NEW t \in Nat, NEW x \in Nat, NEW y \in Nat,
         Tells(x, t, TxErrors), Tells(y, t + 1, TxErrors)
  PROVE  x >= Cutoff(y)
<1>1. PICK f \in TxErrors : x = Period * t + f
  BY DEF Tells
<1>2. PICK g \in TxErrors : y = Period * (t + 1) + g
  BY DEF Tells
<1>3. Period \in Nat /\ match_window \in Nat /\ f \in Int /\ g \in Int
      /\ Period + g - f <= 4 * match_window
  BY MeterAssumption DEF Matched
<1> DEFINE p == Period * t
<1>4. p \in Nat /\ y = p + Period + g
  BY <1>2, <1>3
<1>5. x = p + f
  BY <1>1
<1> HIDE DEF p
<1>6. y - 4 * match_window <= x
  BY <1>3, <1>4, <1>5
<1> QED
  BY <1>3, <1>6 DEF Cutoff

LEMMA HandleTxRemembered ==
  ASSUME Matched, Typed, Truthful, Truthful', Ordered, Remembered, HandleTx
  PROVE  Remembered'
<1> DEFINE d == chan[1].device
           s == [tick |-> chan[1].tick, synced_ns |-> chan[1].synced_ns]
           q == tx_history[d]
           kept == tx_history'[d]
           new == [device |-> d, kind |-> "tx", tick |-> s.tick]
<1>1. handled' = handled \cup {new} /\ chan[1].kind = "tx" /\ 1 \in 1..Len(chan)
  BY ReceiveTakes DEF HandleTx, Receive
<1>2. PICK k \in 0..Len(q) : KeptFrom(q, s, k, kept)
  BY HandleTxKeeps
<1>3. d \in Devices /\ s \in Sent /\ \A o \in Devices \ {d} : tx_history'[o] = tx_history[o]
  BY HandleTxKeeps
<1>4. Tells(s.synced_ns, s.tick, TxErrors)
  BY <1>1 DEF Truthful
<1>5. s.tick \in Nat /\ s.synced_ns \in Nat /\ new.tick = s.tick /\ new.device = d
  BY <1>3 DEF Sent
<1>6. ASSUME NEW i \in 1..Len(q)
      PROVE  /\ q[i].tick \in Nat /\ q[i].synced_ns \in Nat /\ q[i].tick < s.tick
             /\ Tells(q[i].synced_ns, q[i].tick, TxErrors)
             /\ [device |-> d, kind |-> "tx", tick |-> q[i].tick] \in handled
  <2>1. q[i].tick \in Nat /\ q[i].synced_ns \in Nat
    BY <1>3, SentTypes
  <2>2. Line(chan[1]) = <<d, "tx">>
    BY <1>1 DEF Line
  <2>3. q[i].tick < chan[1].tick
    BY <1>1, <1>3, <2>2 DEF Ordered, HistoryBefore
  <2>4. Tells(q[i].synced_ns, q[i].tick, TxErrors)
    BY <1>3 DEF Truthful
  <2> QED
    BY <1>3, <2>1, <2>3, <2>4 DEF Remembered
<1>7. Len(q) \in Nat
  BY <1>3, LenProperties DEF Typed
<1>8. \A h \in handled : h.tick \in Nat
  BY DEF Remembered
<1>9. ASSUME NEW h \in handled, h.kind = "tx", h.device = d
      PROVE  /\ q # <<>>
             /\ h.tick + 1 >= q[Len(q)].tick => \E i \in 1..Len(q) : q[i].tick = h.tick
  BY <1>3, <1>9 DEF Remembered
<1>10. ASSUME NEW o \in Devices \ {d}, NEW i \in 1..Len(tx_history[o])
       PROVE  [device |-> o, kind |-> "tx", tick |-> tx_history[o][i].tick] \in handled
  BY DEF Remembered
<1> HIDE DEF d, s, q, kept, new
<1>11. /\ k \in Nat /\ k <= Len(q) /\ Len(kept) = Len(q) + 1 - k /\ Len(kept) >= 1
       /\ \A i \in 1..Len(kept) : kept[i] = IF i + k <= Len(q) THEN q[i + k] ELSE s
       /\ \A i \in 1..Len(q) : q[i].synced_ns >= Cutoff(s.synced_ns) => k < i
  BY <1>2, <1>7 DEF KeptFrom
<1>12. Len(kept) \in 1..Len(kept) /\ kept[Len(kept)] = s /\ kept # <<>>
  <2>1. Len(kept) \in 1..Len(kept) /\ ~ (Len(kept) + k <= Len(q))
    BY <1>7, <1>11
  <2>2. kept[Len(kept)] = s
    BY <1>11, <2>1
  <2> QED
    BY <2>1, <2>2
<1>13. ASSUME NEW o \in Devices, NEW i \in 1..Len(tx_history'[o])
       PROVE  [device |-> o, kind |-> "tx", tick |-> tx_history'[o][i].tick] \in handled'
  <2>1. CASE o = d
    <3>1. i \in 1..Len(kept) /\ tx_history'[o][i] = kept[i]
      BY <2>1 DEF kept
    <3>2. CASE i + k <= Len(q)
      <4>1. i + k \in 1..Len(q) /\ kept[i] = q[i + k]
        BY <1>7, <1>11, <3>1, <3>2
      <4> QED
        BY <1>1, <1>6, <2>1, <3>1, <4>1
    <3>3. CASE ~ (i + k <= Len(q))
      <4>1. kept[i] = s
        BY <1>11, <3>1, <3>3
      <4> QED
        BY <1>1, <2>1, <3>1, <4>1 DEF new
    <3> QED
      BY <3>2, <3>3
  <2>2. CASE o # d
    BY <1>1, <1>3, <1>10, <2>2
  <2> QED
    BY <2>1, <2>2
<1>14. ASSUME NEW h \in handled', h.kind = "tx", h.device = d, h.tick + 1 >= s.tick
       PROVE  \E i \in 1..Len(kept) : kept[i].tick = h.tick
  <2>1. CASE h = new
    BY <1>5, <1>12, <2>1
  <2>2. CASE h \in handled
    <3>1. q # <<>> /\ (h.tick + 1 >= q[Len(q)].tick => \E i \in 1..Len(q) : q[i].tick = h.tick)
      BY <1>9, <1>14, <2>2
    <3>2. Len(q) \in 1..Len(q)
      <4>1. q \in Seq(Sent)
        BY <1>3 DEF Typed, q
      <4>2. Len(q) # 0
        BY <3>1, <4>1, EmptySeq
      <4> QED
        BY <1>7, <4>2
    <3>3. h.tick \in Nat
      BY <1>8, <2>2
    <3>4. PICK i \in 1..Len(q) : q[i].tick = h.tick
      <4>1. q[Len(q)].tick \in Nat /\ q[Len(q)].tick < s.tick
        BY <1>6, <3>2
      <4>2. h.tick + 1 >= s.tick
        BY <1>14
      <4>3. h.tick + 1 >= q[Len(q)].tick
        BY <1>5, <3>3, <4>1, <4>2
      <4> QED
        BY <3>1, <4>3
    <3>5. s.tick = q[i].tick + 1
      <4>1. q[i].tick < s.tick
        BY <1>6
      <4>2. h.tick + 1 >= s.tick
        BY <1>14
      <4> QED
        BY <1>5, <3>3, <3>4, <4>1, <4>2
    <3>6. q[i].synced_ns >= Cutoff(s.synced_ns)
      BY <1>4, <1>5, <1>6, <3>5, TickBeforeSpared
    <3>7. k < i
      BY <1>11, <3>6
    <3>8. i - k \in 1..Len(kept) /\ (i - k) + k = i /\ i <= Len(q)
      BY <1>7, <1>11, <3>7
    <3>9. kept[i - k] = q[i]
      BY <1>11, <3>8
    <3> QED
      BY <3>4, <3>8, <3>9
  <2> QED
    BY <1>1, <2>1, <2>2
<1>15. \A h \in handled' : h.tick \in Nat
  BY <1>1, <1>5, <1>8
<1>16. ASSUME NEW h \in handled', h.kind = "tx", h.device \in Devices
       PROVE  LET r == tx_history'[h.device]
              IN  /\ r # <<>>
                  /\ h.tick + 1 >= r[Len(r)].tick => \E i \in 1..Len(r) : r[i].tick = h.tick
  <2>1. CASE h.device = d
    BY <1>12, <1>14, <1>16, <2>1 DEF kept
  <2>2. CASE h.device # d
    <3>1. h \in handled /\ tx_history'[h.device] = tx_history[h.device]
      BY <1>1, <1>3, <1>5, <1>16, <2>2
    <3> QED
      BY <1>16, <3>1 DEF Remembered
  <2> QED
    BY <2>1, <2>2
<1> QED
  BY <1>13, <1>15, <1>16 DEF Remembered

LEMMA RememberedAlways ==
  ASSUME Matched
  PROVE  Spec => [](InStep /\ Remembered)
<1>1. Init => InStep /\ Remembered
  <2> SUFFICES ASSUME Init PROVE InStep /\ Remembered
    OBVIOUS
  <2>1. chan = <<>> /\ handled = {} /\ \A d \in Devices : tx_history[d] = <<>>
    BY DEF Init
  <2>2. Len(chan) = 0 /\ \A d \in Devices : Len(tx_history[d]) = 0
    BY <2>1
  <2> QED
    BY <2>1, <2>2 DEF InStep, Remembered
<1>2. Typed /\ Truthful /\ Truthful' /\ Ordered /\ InStep /\ Remembered /\ [Next]_vars
        => InStep' /\ Remembered'
  <2> SUFFICES ASSUME Typed, Truthful, Truthful', Ordered, InStep, Remembered, [Next]_vars
               PROVE  InStep' /\ Remembered'
    OBVIOUS
  <2>1. ASSUME NEW k \in Kinds, Read(k) \/ Skip(k) PROVE InStep' /\ Remembered'
    <3>1. InStep'
      BY <2>1, ReadInStep
    <3>2. tx_history' = tx_history /\ handled' = handled
      BY <2>1 DEF Read, Skip
    <3> QED
      BY <3>1, <3>2 DEF Remembered
  <2>2. CASE HandleTx
    <3>1. InStep'
      BY <2>2, ReceiveInStep DEF HandleTx
    <3> QED
      BY <2>2, <3>1, HandleTxRemembered
  <2>3. CASE HandleRx
    <3>1. InStep'
      BY <2>3, ReceiveInStep DEF HandleRx
    <3>2. /\ tx_history' = tx_history
          /\ handled' = handled \cup
               {[device |-> chan[1].device, kind |-> chan[1].kind, tick |-> chan[1].tick]}
          /\ chan[1].kind # "tx" /\ chan[1].tick \in Nat
      BY <2>3, ReceiveTakes, EventTypes DEF HandleRx, Receive
    <3>3. Remembered'
      BY <3>2 DEF Remembered
    <3> QED
      BY <3>1, <3>3
  <2>4. CASE Finish
    BY <2>4 DEF Finish, InStep, Remembered
  <2>5. CASE UNCHANGED vars
    BY <2>5 DEF vars, InStep, Remembered
  <2> QED
    BY <2>1, <2>2, <2>3, <2>4, <2>5 DEF Next
<1> QED
  BY <1>1, <1>2, TypedAlways, TruthfulAlways, OrderedAlways, PTL DEF Spec

\* A reception whose transmission has been handled before is recorded, whatever was trimmed,
\* lost or late in between.
THEOREM ReceptionsPaired ==
  ASSUME Matched
  PROVE  Spec => ReceptionPaired
<1> DEFINE paired == \A e \in handled' \ handled :
                       /\ e.kind # "tx"
                       /\ [device |-> 1 - e.device, kind |-> "tx", tick |-> e.tick] \in handled
                       => stats'[1 - e.device].n = stats[1 - e.device].n + 1
<1>1. Typed /\ Truthful /\ Tallies /\ InStep /\ Remembered /\ [Next]_vars => [paired]_vars
  <2> SUFFICES ASSUME Typed, Truthful, Tallies, InStep, Remembered, Next,
                      NEW e \in handled' \ handled, e.kind # "tx",
                      [device |-> 1 - e.device, kind |-> "tx", tick |-> e.tick] \in handled
               PROVE  stats'[1 - e.device].n = stats[1 - e.device].n + 1
    OBVIOUS
  <2>1. HandleRx
    <3>1. handled' # handled
      OBVIOUS
    <3>2. ~ HandleTx
      BY DEF HandleTx, Receive
    <3> QED
      BY <3>1, <3>2 DEF Next, Read, Skip, Finish
  <2> DEFINE c == chan[1]
             o == 1 - c.device
             q == tx_history[o]
  <2>2. e.device = c.device /\ e.tick = c.tick
    <3>1. handled' = handled \cup {[device |-> c.device, kind |-> c.kind, tick |-> c.tick]}
      BY <2>1 DEF HandleRx, Receive
    <3>2. e = [device |-> c.device, kind |-> c.kind, tick |-> c.tick]
      BY <3>1
    <3> QED
      BY <3>2
  <2>3. c \in Event /\ c.kind # "tx" /\ 1 \in 1..Len(chan) /\ o \in Devices
    BY <2>1, ReceiveTakes, HandleRxTallies DEF HandleRx
  <2>4. c.tick \in Nat
    BY <2>3 DEF Event
  <2>5. /\ q # <<>>
        /\ c.tick + 1 >= q[Len(q)].tick => \E i \in 1..Len(q) : q[i].tick = c.tick
    <3> DEFINE h == [device |-> o, kind |-> "tx", tick |-> c.tick]
    <3>1. h \in handled /\ h.kind = "tx" /\ h.device = o /\ h.tick = c.tick
      BY <2>2
    <3> HIDE DEF h, o, c
    <3> QED
      BY <2>3, <3>1 DEF Remembered
  <2>6. q[Len(q)].tick <= c.tick + 1 /\ q[Len(q)].tick \in Nat
    <3>1. Len(q) \in 1..Len(q)
      <4>1. q \in Seq(Sent)
        BY <2>3 DEF Typed
      <4> HIDE DEF q
      <4> QED
        BY <2>5, <4>1, EmptySeq
    <3> DEFINE h == [device |-> o, kind |-> "tx", tick |-> q[Len(q)].tick]
    <3>2. h \in handled /\ h.tick = q[Len(q)].tick
      BY <2>3, <3>1 DEF Remembered
    <3> HIDE DEF h
    <3>3. h.tick <= c.tick + 1
      BY <2>3, <3>2 DEF InStep
    <3>4. h.tick \in Nat
      BY <3>2 DEF Remembered
    <3> QED
      BY <3>2, <3>3, <3>4
  <2>7. PICK i \in 1..Len(q) : q[i].tick = c.tick
    BY <2>4, <2>5, <2>6
  <2>8. PICK f \in RxErrors : c.synced_ns = Period * c.tick + f
    BY <2>3 DEF Truthful, Tells
  <2>9. PICK g \in TxErrors : q[i].synced_ns = Period * c.tick + g
    BY <2>3, <2>7 DEF Truthful, Tells
  <2>10. Magnitude(c.synced_ns - q[i].synced_ns) <= match_window
    <3> DEFINE p == Period * c.tick
    <3>1. p \in Nat /\ f \in Int /\ g \in Int /\ Magnitude(f - g) <= match_window
      <4>1. Magnitude(f - g) <= match_window
        BY DEF Matched
      <4>2. f \in Int /\ g \in Int /\ Period \in Nat
        BY MeterAssumption
      <4> QED
        BY <2>4, <4>1, <4>2
    <3>2. (p + f) - (p + g) = f - g
      <4> HIDE DEF p
      <4> QED
        BY <3>1
    <3>3. Magnitude((p + f) - (p + g)) <= match_window
      BY <3>1, <3>2
    <3> QED
      BY <2>8, <2>9, <3>3
  <2>11. Candidates(q, c.synced_ns) # {}
    BY <2>10 DEF Candidates
  <2>12. \E delta \in Int : stats'[o] = record(stats[o], delta)
    BY <2>1, <2>11, HandleRxTallies
  <2>13. Tallied(stats[o])
    BY <2>3 DEF Tallies
  <2> HIDE DEF o
  <2>14. stats'[o].n = stats[o].n + 1
    BY <2>12, <2>13, RecordFields
  <2> QED
    BY <2>2, <2>14 DEF o
<1> QED
  BY <1>1, TypedAlways, TruthfulAlways, TalliesAlways, RememberedAlways, PTL
     DEF Spec, ReceptionPaired

=============================================================================
