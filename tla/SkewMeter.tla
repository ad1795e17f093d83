----------------------------- MODULE SkewMeter ------------------------------
(***************************************************************************)
(* The skew meter, crates/skew-meter/src/main.rs: a thread per board reads *)
(* its serial line and sends what it can parse down one channel, and main  *)
(* pairs every reception with a transmission of the other board.  A board  *)
(* prints, for every tick of the rig, a line of each of its kinds: "tx",   *)
(* or the port of a reception.                                             *)
(***************************************************************************)
EXTENDS RustArith, FiniteSetsExt, Functions, Sequences

CONSTANTS
  Kinds,        \* the lines that are printed: a device and a kind
  Period,       \* environment: ns between ticks
  TxErrors,     \* environment: errors of a pulse_tx line, in ns
  RxErrors,     \* environment: errors of a pulse_rx line, in ns
  match_window, \* match_window_ns
  limit_us,     \* cli.limit_us
  NsPerUs,      \* 1_000
  Recent,       \* length of recent_abs_us (1_024)
  Percent,      \* its percentile (99)
  None,         \* still running
  MaxTick,      \* bound: ticks of the rig
  MaxQueued     \* bound: events in the channel

Devices == {0, 1}

ASSUME MeterAssumption ==
  /\ Kinds \subseteq Devices \X {"tx", "D5", "D34"}
  /\ \A e \in TxErrors \cup RxErrors : e \in Int /\ Period + e >= 0   \* times are u128
  /\ {Period, match_window, limit_us, NsPerUs, Recent, Percent} \subseteq Nat
  /\ {MaxTick, MaxQueued} \subseteq Nat
  /\ NsPerUs > 0 /\ Recent > 0 /\ Percent < 100
  /\ None \notin Int

VARIABLES
  read,         \* the tick of the last line read, for each kind
  chan,         \* events sent to main
  tx_history,   \* synced_ns of the transmissions kept, and their ticks
  stats,        \* stats_per_dir
  handled,      \* the lines whose events main has handled, for the properties
  pairs,        \* the receptions recorded, and with which tick, for the properties
  worst,        \* the greatest difference recorded, for the properties
  exit          \* exit status

vars == <<read, chan, tx_history, stats, handled, pairs, worst, exit>>

\* DirStats::default
NoStats == [n |-> 0, sum_us |-> 0, sum_sq_us |-> 0, max_abs_us |-> 0, recent_abs_us |-> <<>>,
            p99_abs_us |-> 0, mean_us |-> 0, stddev_us |-> 0]

Init ==
  /\ read = [k \in Kinds |-> 0]
  /\ chan = <<>>
  /\ tx_history = [d \in Devices |-> <<>>]
  /\ stats = [d \in Devices |-> NoStats]
  /\ handled = {}
  /\ pairs = {}
  /\ worst = 0
  /\ exit = None

-----------------------------------------------------------------------------
(* The readers *)

\* Lines are read in any order, but none more than a tick after it was due.
NextLine(k) ==
  /\ exit = None
  /\ read[k] < MaxTick
  /\ \A l \in Kinds : read[l] + 1 >= read[k]
  /\ read' = [read EXCEPT ![k] = @ + 1]

Errors(k) == IF k[2] = "tx" THEN TxErrors ELSE RxErrors

\* A line is read and parsed, and its event sent.
Read(k) ==
  /\ NextLine(k)
  /\ Len(chan) < MaxQueued
  /\ \E e \in Errors(k) :
       chan' = Append(chan, [device |-> k[1], kind |-> k[2], tick |-> read'[k],
                             synced_ns |-> Period * read'[k] + e])
  /\ UNCHANGED <<tx_history, stats, handled, pairs, worst, exit>>

\* A line is mangled, or its synced_ns is NONE: parse_line returns nothing.
Skip(k) ==
  /\ NextLine(k)
  /\ UNCHANGED <<chan, tx_history, stats, handled, pairs, worst, exit>>

-----------------------------------------------------------------------------
(* DirStats::record *)

MeanUs(s) == TruncDiv(s.sum_us, s.n)

Variance(s) == s.sum_sq_us \div s.n - MeanUs(s) * MeanUs(s)

\* f64::sqrt, truncated.
Sqrt(v) == CHOOSE r \in 0..v : r * r <= v /\ v < (r + 1) * (r + 1)

\* sort_unstable
Sorted(s) ==
  LET I == 1..Len(s)
      p == CHOOSE p \in Bijection(I, I) : \A i, j \in I : i < j => s[p[i]] <= s[p[j]]
  IN  [i \in I |-> s[p[i]]]

\* Faulty: the index of the percentile from the other end.
P99_of_smallest(s) == Sorted(s)[Len(s) - (Len(s) * Percent) \div 100]

\* The percentile of the recent magnitudes; as Percent < 100, its index is in range.
P99(s) == Sorted(s)[(Len(s) * Percent) \div 100 + 1]

\* Faulty: what leaves the recent magnitudes no longer counts.
MaxAbs_of_recent(s, recent) == Sorted(recent)[Len(recent)]

MaxAbs(s, recent) ==
  IF recent[Len(recent)] > s.max_abs_us THEN recent[Len(recent)] ELSE s.max_abs_us

Recents(q, abs) == IF Len(q) = Recent THEN Append(Tail(q), abs) ELSE Append(q, abs)

record(s, delta_ns) ==
  LET delta_us == TruncDiv(delta_ns, NsPerUs)
      recent   == Recents(s.recent_abs_us, Magnitude(delta_us))
      t == [s EXCEPT !.n = @ + 1,
                     !.sum_us = @ + delta_us,
                     !.sum_sq_us = @ + delta_us * delta_us,
                     !.max_abs_us = MaxAbs(s, recent),
                     !.recent_abs_us = recent,
                     !.p99_abs_us = P99(recent)]
      var == Variance(t)
  IN  [t EXCEPT !.mean_us = MeanUs(t),
                !.stddev_us = Sqrt(IF var < 0 THEN 0 ELSE var)]

-----------------------------------------------------------------------------
(* main *)

\* Faulty: nothing is trimmed.
Cutoff_zero(newest) == 0

\* Faulty: only what the newest transmission could be matched with is kept.
Cutoff_one_window(newest) == IF newest > match_window THEN newest - match_window ELSE 0

\* saturating_sub
Cutoff(newest) == IF newest > 4 * match_window THEN newest - 4 * match_window ELSE 0

\* The history without what precedes its first transmission from the cutoff on.
Trim(q) ==
  LET fresh == {i \in 1..Len(q) : q[i].synced_ns >= Cutoff(q[Len(q)].synced_ns)}
      first == CHOOSE i \in fresh : \A j \in fresh : i <= j
  IN  SubSeq(q, first, Len(q))

\* The next event is taken from the channel.
Receive ==
  /\ exit = None
  /\ chan # <<>>
  /\ chan' = Tail(chan)
  /\ handled' = handled \cup
       {[device |-> chan[1].device, kind |-> chan[1].kind, tick |-> chan[1].tick]}

HandleTx ==
  /\ Receive
  /\ chan[1].kind = "tx"
  /\ LET e == Head(chan)
     IN  tx_history' = [tx_history EXCEPT ![e.device] =
                          Trim(Append(@, [tick |-> e.tick, synced_ns |-> e.synced_ns]))]
  /\ UNCHANGED <<read, stats, pairs, worst, exit>>

\* Faulty: the closest transmission, however far.
Candidates_all(q, rx_sync) == 1..Len(q)

Candidates(q, rx_sync) ==
  {i \in 1..Len(q) : Magnitude(rx_sync - q[i].synced_ns) <= match_window}

\* The first of the closest transmissions.
Best(q, rx_sync) ==
  CHOOSE i \in Candidates(q, rx_sync) :
    \A j \in Candidates(q, rx_sync) :
      LET di == Magnitude(rx_sync - q[i].synced_ns)
          dj == Magnitude(rx_sync - q[j].synced_ns)
      IN  di < dj \/ (di = dj /\ i <= j)

\* A reception on any port is paired with a transmission of the other board, if one
\* that has been handled is within the window.
HandleRx ==
  /\ Receive
  /\ chan[1].kind # "tx"
  /\ LET e     == Head(chan)
         other == 1 - e.device
         q     == tx_history[other]
     IN  IF Candidates(q, e.synced_ns) = {}
         THEN UNCHANGED <<stats, pairs, worst>>
         ELSE LET tx    == q[Best(q, e.synced_ns)]
                  delta == e.synced_ns - tx.synced_ns
              IN  /\ stats' = [stats EXCEPT ![other] = record(@, delta)]
                  /\ pairs' = pairs \cup {[device |-> e.device, kind |-> e.kind, tick |-> e.tick,
                                           of |-> tx.tick]}
                  /\ worst' = IF Magnitude(delta) > worst THEN Magnitude(delta) ELSE worst
  /\ UNCHANGED <<read, tx_history, exit>>

\* The deadline passes, or both streams end.
Finish ==
  /\ exit = None
  /\ exit' = IF \E d \in Devices : stats[d].n # 0 /\ stats[d].max_abs_us > limit_us
             THEN 2 ELSE 0
  /\ UNCHANGED <<read, chan, tx_history, stats, handled, pairs, worst>>

Next == (\E k \in Kinds : Read(k) \/ Skip(k)) \/ HandleTx \/ HandleRx \/ Finish

Spec == Init /\ [][Next]_vars

-----------------------------------------------------------------------------
\* A recorded difference is that of two reports of one tick, whichever lines were lost
\* or came late: a reception is never paired with a neighbouring pulse (Candidates).
DeltasTrue == \A p \in pairs : p.of = p.tick

\* A reception whose transmission has been handled before is recorded: trimming the
\* history never takes the transmission away too early (Trim).
ReceptionPaired ==
  [][\A e \in handled' \ handled :
       /\ e.kind # "tx"
       /\ [device |-> 1 - e.device, kind |-> "tx", tick |-> e.tick] \in handled
       => stats'[1 - e.device].n = stats[1 - e.device].n + 1]_vars

\* The history of a board does not grow with the run (Cutoff).
HistoryBounded ==
  \A d \in Devices :
    Len(tx_history[d]) <= (4 * match_window + Max(TxErrors) - Min(TxErrors)) \div Period + 1

\* The exit status tells whether any difference, since the beginning and not only among
\* the recent ones, exceeded the limit by a whole microsecond or more (MaxAbs).
VerdictTrue ==
  exit # None
    => (exit = 2) = (worst >= (limit_us + 1) * NsPerUs)

PercentileCovers(s) ==
  LET among(C(_)) == Cardinality({i \in 1..Len(s.recent_abs_us) : C(s.recent_abs_us[i])})
      below(x) == x <= s.p99_abs_us
      above(x) == x >= s.p99_abs_us
  IN  /\ 100 * among(below) >= Percent * Len(s.recent_abs_us)
      /\ 100 * among(above) >= (100 - Percent) * Len(s.recent_abs_us)

\* The reported percentile covers its share of the recent magnitudes, and the share above
\* it is not empty by mistake (P99); the deviation is not that of a negative variance
\* clamped to 0, although the variance subtracts one rounded number from another (MeanUs).
StatisticsTrue ==
  \A d \in Devices :
    stats[d].n # 0 => PercentileCovers(stats[d]) /\ Variance(stats[d]) >= 0

=============================================================================
