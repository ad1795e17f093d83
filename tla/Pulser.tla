------------------------------- MODULE Pulser -------------------------------
(***************************************************************************)
(* The pulse rig of crates/clock-sync-test/src/main.rs: on every board a   *)
(* pulser raises two pins at each PULSE_PERIOD of synced time and reports  *)
(* when it did, and a reporter reports the edges that arrive, both on one  *)
(* cooperative executor.  D14 of a board is wired to D5 of the other one,  *)
(* and D32 to its own D34.  Synced and local time have one unit, and what  *)
(* the client answers is off by at most Err.                               *)
(***************************************************************************)
EXTENDS Integers, FiniteSets

CONSTANTS
  Boards,
  Period,       \* PULSE_PERIOD_NS
  Width,        \* PULSE_WIDTH_US
  MinLead,      \* the least lead of a planned pulse (5 ms)
  Slack,        \* what the coarse wait leaves to the busy one (80 us)
  Err,          \* environment: error of a synced time
  MaxPreempt,   \* environment: delay of a step that does not await
  MaxWake,      \* environment: how late the executor resumes a task
  MaxPoll,      \* environment: age of an edge when a free executor polls it
  None,         \* no pulse, edge or report
  MaxTime       \* bound: time

ASSUME PulserAssumption ==
  /\ IsFiniteSet(Boards)
  /\ {Period, Width, MinLead, Slack, Err, MaxPreempt, MaxWake, MaxPoll, MaxTime} \subseteq Nat
  /\ Period > 0 /\ Width > 0 /\ MinLead > 0
  /\ None \notin Int \cup [tick : Nat, at : Nat]

\* How late an edge may be for the local time it was planned for.
MaxTardy == (IF MaxWake > Slack THEN MaxWake - Slack ELSE 0) + MaxPreempt

\* The scheduling slack of a planned pulse covers the errors of the client, and what is
\* reported for a pulse, with its error, fits in half a period.
ASSUME RigAssumption ==
  /\ 2 * Err + MaxPreempt <= MinLead
  /\ 2 * (4 * Err + MaxTardy + MaxPreempt) < Period
  /\ 2 * Err + MaxTardy + Width + 2 * MaxPreempt + MinLead <= Period

VARIABLES
  now,          \* server time, which also counts local time
  rate_set,     \* boards that have set the rate of the extra timer
  extra_ready,  \* boards whose client answers synced_ns_at_extra_filtered
  pc,           \* where each pulser is
  from,         \* the earliest time at which it goes on
  by,           \* the latest
  next_tick,    \* the tick it works for
  target,       \* target_local_us
  actual,       \* actual_synced_ns, until it is printed
  pulse,        \* its last rising edge: the tick, and when it was
  latch,        \* the edge each input has latched and nobody has polled
  printed       \* the lines printed by the last step

pulserVars == <<pc, from, by, next_tick, target, actual>>
clientVars == <<rate_set, extra_ready>>
vars == <<now, clientVars, pulserVars, pulse, latch, printed>>

Ports == {"D5", "D34"}
Errors == -Err..Err

Init ==
  /\ now = 0
  /\ rate_set = {}
  /\ extra_ready = {}
  /\ pc = [b \in Boards |-> "converging"]
  /\ from = [b \in Boards |-> 0]
  /\ by = [b \in Boards |-> MaxTime]
  /\ next_tick = [b \in Boards |-> 0]
  /\ target = [b \in Boards |-> 0]
  /\ actual = [b \in Boards |-> None]
  /\ pulse = [b \in Boards |-> None]
  /\ latch = [b \in Boards |-> [p \in Ports |-> None]]
  /\ printed = {}

-----------------------------------------------------------------------------
(* The environment: time, the client and the executor. *)

\* The reporter runs while the pulser awaits.
ExecutorFree(b) == pc[b] \in {"converging", "sleeping"}

\* Every step is taken in its time.
Tick ==
  /\ now < MaxTime
  /\ \A b \in Boards : now < by[b]
  /\ \A b \in Boards, p \in Ports :
       ExecutorFree(b) /\ latch[b][p] # None => now < latch[b][p].at + MaxPoll
  /\ now' = now + 1
  /\ printed' = {}
  /\ UNCHANGED <<clientVars, pulserVars, pulse, latch>>

\* A beacon initialises the filter of the extra timer once its rate is known.
Beacon(b) ==
  /\ b \in rate_set \ extra_ready
  /\ extra_ready' = extra_ready \cup {b}
  /\ printed' = {}
  /\ UNCHANGED <<now, rate_set, pulserVars, pulse, latch>>

\* Board b goes on to pc l, where it stays from f to u.
GoTo(b, l, f, u) ==
  /\ pc' = [pc EXCEPT ![b] = l]
  /\ from' = [from EXCEPT ![b] = f]
  /\ by' = [by EXCEPT ![b] = u]

InTime(b, l) == pc[b] = l /\ now >= from[b]

-----------------------------------------------------------------------------
(* pulser *)

\* The wait ends when the estimator and the filter of Instant have converged: they
\* keep what they have, so neither query of the loop refuses again.
Begin(b) ==
  /\ InTime(b, "converging")
  /\ GoTo(b, "asking", now, now)
  /\ printed' = {}
  /\ UNCHANGED <<now, clientVars, next_tick, target, actual, pulse, latch>>

\* Faulty: the very next tick, however close.
NextTick_without_lead(now_ns) == (now_ns \div Period + 1) * Period

\* The next aligned tick that leaves time to prepare for it.
NextTick(now_ns) ==
  LET next == (now_ns \div Period + 1) * Period
  IN  IF next - now_ns < MinLead THEN next + Period ELSE next

\* Choose the tick, and convert it to local time.
Ask(b) ==
  /\ InTime(b, "asking")
  /\ \E e \in Errors, f \in Errors :
       LET tick == NextTick(now + e)
       IN  /\ now + e >= 0
           /\ next_tick' = [next_tick EXCEPT ![b] = tick]
           /\ target' = [target EXCEPT ![b] = tick + f]
  /\ GoTo(b, "planning", now, now + MaxPreempt)
  /\ printed' = {}
  /\ UNCHANGED <<now, clientVars, actual, pulse, latch>>

\* Faulty: the timer is trusted to the end.
CoarseWait_to_the_end(wait) == wait

\* Faulty: the whole wait is busy.
CoarseWait_none(wait) == 0

\* saturating_sub
CoarseWait(wait) == IF wait > Slack THEN wait - Slack ELSE 0

\* Local time is read again; a target that has passed is not waited for.
Plan(b) ==
  /\ InTime(b, "planning")
  /\ LET coarse_wait == CoarseWait(target[b] - now)
     IN  IF coarse_wait > 0
         THEN GoTo(b, "sleeping", now + coarse_wait, now + coarse_wait + MaxWake)
         ELSE GoTo(b, "spinning", target[b],
                   (IF target[b] > now THEN target[b] ELSE now) + MaxPreempt)
  /\ printed' = {}
  /\ UNCHANGED <<now, clientVars, next_tick, target, actual, pulse, latch>>

WakeUp(b) ==
  /\ InTime(b, "sleeping")
  /\ GoTo(b, "spinning", target[b],
          (IF target[b] > now THEN target[b] ELSE now) + MaxPreempt)
  /\ printed' = {}
  /\ UNCHANGED <<now, clientVars, next_tick, target, actual, pulse, latch>>

\* Both pins rise: the edge is latched by the other boards' D5 and by this one's D34.
Edge(b) ==
  /\ InTime(b, "spinning")
  /\ pulse' = [pulse EXCEPT ![b] = [tick |-> next_tick[b], at |-> now]]
  /\ latch' = [c \in Boards |-> [latch[c] EXCEPT ![IF c = b THEN "D34" ELSE "D5"] = pulse'[b]]]
  /\ GoTo(b, "high", now, now + MaxPreempt)
  /\ target' = [target EXCEPT ![b] = 0]
  /\ printed' = {}
  /\ UNCHANGED <<now, clientVars, next_tick, actual>>

\* synced_ns_at_extra_filtered answers a capture at time t with a synced time within
\* Err of it, which stands for them here.
ExtraFiltered(b, t) == IF b \in extra_ready THEN t ELSE None

\* Faulty: without an answer, the synced time is the one the tick was chosen at.
FallBack_to_plan(b) == next_tick[b] - Period

\* unwrap_or
FallBack(b) == next_tick[b]

\* The capture of the edge, its conversion, and the query's side effect on the rate.
Capture(b) ==
  /\ InTime(b, "high")
  /\ LET synced_ns == ExtraFiltered(b, now)
     IN  actual' = [actual EXCEPT ![b] = IF synced_ns = None THEN FallBack(b) ELSE synced_ns]
  /\ rate_set' = rate_set \cup {b}
  /\ GoTo(b, "pulsing", now + Width, now + Width + MaxPreempt)
  /\ printed' = {}
  /\ UNCHANGED <<now, extra_ready, next_tick, target, pulse, latch>>

\* The pins fall, the line is printed, and the loop begins again.
Release(b) ==
  /\ InTime(b, "pulsing")
  /\ printed' = {[tick |-> next_tick[b], synced_ns |-> actual[b]]}
  /\ actual' = [actual EXCEPT ![b] = None]
  /\ GoTo(b, "asking", now, now)
  /\ UNCHANGED <<now, clientVars, next_tick, target, pulse, latch>>

-----------------------------------------------------------------------------
(* reporter *)

\* log_event: what synced_ns an edge is reported with; the query sets the rate too.
Report(b, p) ==
  [tick |-> latch[b][p].tick, synced_ns |-> ExtraFiltered(b, latch[b][p].at)]

\* One turn of the loop: poll_ch0, then poll_ch1.
Poll(b) ==
  /\ ExecutorFree(b)
  /\ \E p \in Ports : latch[b][p] # None
  /\ printed' = {Report(b, p) : p \in {q \in Ports : latch[b][q] # None}}
  /\ latch' = [latch EXCEPT ![b] = [p \in Ports |-> None]]
  /\ rate_set' = rate_set \cup {b}
  /\ UNCHANGED <<now, extra_ready, pulserVars, pulse>>

pulser(b) ==
  Begin(b) \/ Ask(b) \/ Plan(b) \/ WakeUp(b) \/ Edge(b) \/ Capture(b) \/ Release(b)

\* The bound is reached.
Done ==
  /\ now = MaxTime
  /\ UNCHANGED vars

Next == Tick \/ Done \/ \E b \in Boards : Beacon(b) \/ pulser(b) \/ Poll(b)

Spec == Init /\ [][Next]_vars

-----------------------------------------------------------------------------
TypeOK ==
  /\ now \in 0..MaxTime
  /\ rate_set \subseteq Boards
  /\ extra_ready \subseteq Boards
  /\ pc \in [Boards -> {"converging", "asking", "planning", "sleeping", "spinning",
                        "high", "pulsing"}]
  /\ from \in [Boards -> Int]
  /\ by \in [Boards -> Int]
  /\ next_tick \in [Boards -> Nat]
  /\ \A b \in Boards : next_tick[b] % Period = 0
  /\ target \in [Boards -> Int]
  /\ pulse \in [Boards -> [tick : Nat, at : Nat] \cup {None}]
  /\ actual \in [Boards -> Int \cup {None}]
  /\ latch \in [Boards -> [Ports -> [tick : Nat, at : Nat] \cup {None}]]
  /\ printed \subseteq [tick : Nat, synced_ns : Int \cup {None}]

Distance(x, y) == IF x < y THEN y - x ELSE x - y

\* A board pulses at every tick once its pulser has begun: no tick is skipped, and none
\* served twice because the synced time read after a pulse is behind it (NextTick).
EveryTickOnce ==
  [][\A b \in Boards :
       pulse'[b] # pulse[b] /\ pulse[b] # None
         => pulse'[b].tick = pulse[b].tick + Period]_vars

\* Boards raise their pins for one tick at most this far apart, however the executor
\* wakes them up (Plan, WakeUp).
Agreement ==
  \A a, b \in Boards :
    pulse[a] # None /\ pulse[b] # None /\ pulse[a].tick = pulse[b].tick
      => Distance(pulse[a].at, pulse[b].at) <= 2 * Err + MaxTardy

\* Whatever a pulse is reported with, by the board that raised it or by one that saw it,
\* measured or fallen back to the tick, is within the same half period: the reports of
\* one pulse can be told from those of another (FallBack, Report).
ReportsNearTick ==
  \A line \in printed :
    line.synced_ns # None
      => line.synced_ns \in line.tick - Err .. line.tick + Err + MaxTardy + MaxPreempt

\* No edge is latched over one that has not been polled: pulsers that keep their
\* executors busy still let the reporter run between two pulses.
NoEdgeLost ==
  [][\A b \in Boards, p \in Ports :
       latch'[b][p] # latch[b][p] /\ latch[b][p] # None => latch'[b][p] = None]_vars
=============================================================================
