----------------------------- MODULE PulserProofs ---------------------------
(***************************************************************************)
(* What Pulser promises, for every number of boards, period and bound on   *)
(* the errors of the client and the delays of the executor; and, in the    *)
(* last two parts, what Firmware does, of the task connection and of the   *)
(* prompts that both programs for the boards start with.                   *)
(***************************************************************************)
EXTENDS Pulser, Firmware, IntegerTheorems, SequenceTheorems

-----------------------------------------------------------------------------
(* Ticks.                                                                  *)

LEMMA MaxTardyType ==
  MaxTardy \in Nat /\ MaxPreempt <= MaxTardy /\ MaxWake - Slack + MaxPreempt <= MaxTardy
  BY PulserAssumption DEF MaxTardy

\* A chosen tick is the first multiple of Period that is at least MinLead away.
LEMMA NextTickIsFirst ==
  ASSUME NEW x \in Nat
  PROVE  /\ NextTick(x) \in Nat
         /\ NextTick(x) % Period = 0
         /\ x + MinLead <= NextTick(x)
         /\ NextTick(x) - Period < x + MinLead
<1> DEFINE P == Period
           k == x \div P
           next == (k + 1) * P
<1>1. P \in Nat \ {0} /\ MinLead \in Nat \ {0} /\ MinLead <= P
  BY PulserAssumption, RigAssumption, MaxTardyType
<1>2. k \in Nat /\ x % P \in 0 .. P - 1 /\ x = P * k + (x % P)
  BY <1>1
<1>3. next = P * (k + 1) /\ next = P * k + P /\ next + P = P * (k + 2)
  BY <1>1, <1>2
<1>4. P * k \in Nat
  BY <1>1, <1>2
<1> HIDE DEF P, k, next
<1>5. next \in Nat /\ x < next /\ next <= x + P
  BY <1>1, <1>2, <1>3, <1>4
<1>6. next % P = 0
  <2>1. k + 1 \in Int
    BY <1>2
  <2> QED
    BY <1>1, <1>3, <2>1, MultipleLeavesNothing
<1>7. (next + P) % P = 0
  <2>1. next \in Int
    BY <1>5
  <2> QED
    BY <1>1, <1>6, <2>1, NextMultiple, Zenon
<1>8. NextTick(x) = IF next - x < MinLead THEN next + P ELSE next
  BY DEF NextTick, P, k, next
<1>9. CASE next - x < MinLead
  <2>1. NextTick(x) = next + P
    BY <1>8, <1>9
  <2> QED
    BY <1>1, <1>5, <1>7, <1>9, <2>1 DEF P
<1>10. CASE ~ (next - x < MinLead)
  <2>1. NextTick(x) = next
    BY <1>8, <1>10
  <2>2. next \in Nat /\ x + MinLead <= next /\ next - P < x + MinLead
    BY <1>1, <1>5, <1>10
  <2> QED
    BY <1>6, <2>1, <2>2 DEF P
<1> QED
  BY <1>9, <1>10

\* When the tick t is past or too close, and the one after it is not, that one is chosen.
LEMMA NextTickFollows ==
  ASSUME NEW x \in Nat, NEW t \in Nat, t % Period = 0,
         t < x + MinLead, x + MinLead <= t + Period
  PROVE  NextTick(x) = t + Period
<1>1. Period \in Nat \ {0} /\ MinLead \in Nat
  BY PulserAssumption
<1>2. (t + Period) % Period = 0 /\ t + Period \in Int
  <2>1. t \in Int /\ t + Period \in Int
    BY <1>1
  <2> QED
    BY <1>1, <2>1, NextMultiple, Zenon
<1>3. /\ NextTick(x) \in Int /\ NextTick(x) % Period = 0
      /\ x + MinLead <= NextTick(x) /\ NextTick(x) - Period < x + MinLead
  BY NextTickIsFirst
<1> DEFINE n == NextTick(x)
           u == t + Period
<1> HIDE DEF n
<1>4. n - u < Period /\ u - n < Period
  BY <1>1, <1>3 DEF n
<1>5. n % Period = u % Period /\ n \in Int /\ u \in Int
  BY <1>2, <1>3 DEF n
<1> HIDE DEF u
<1>6. n = u
  BY <1>1, <1>4, <1>5, OneInAWrap
<1> QED
  BY <1>6 DEF n, u

-----------------------------------------------------------------------------
(* The inductive invariant.                                                *)

\* When the pins of a tick may rise.
Near(tick) == tick - Err .. tick + Err + MaxTardy

\* What a pulse may be reported with.
Reported(tick) == tick - Err .. tick + Err + MaxTardy + MaxPreempt

\* A pulser that works for a tick is never late: its target is that of the tick, and its
\* deadline follows from the target.
Aimed(b) ==
  /\ pc[b] # "converging" => now <= by[b]
  /\ pc[b] \in {"planning", "sleeping", "spinning"} =>
       target[b] \in next_tick[b] - Err .. next_tick[b] + Err
  /\ pc[b] = "planning" => by[b] <= target[b]
  /\ pc[b] = "sleeping" => by[b] <= target[b] - Slack + MaxWake
  /\ pc[b] = "spinning" => from[b] = target[b] /\ by[b] <= target[b] + MaxTardy

\* The last pulse was raised near its tick.
Pulsed(b) ==
  pulse[b] # None => pulse[b].tick % Period = 0 /\ pulse[b].at \in Near(pulse[b].tick)

\* The pulser works for the tick that follows its last pulse's, or has just raised the
\* pulse and is done with it so soon that it finds the next tick ahead of it.
InTurn(b) ==
  /\ pc[b] = "converging" => pulse[b] = None
  /\ pc[b] \in {"planning", "sleeping", "spinning"} /\ pulse[b] # None =>
       next_tick[b] = pulse[b].tick + Period
  /\ pc[b] = "high" =>
       /\ pulse[b] # None
       /\ next_tick[b] = pulse[b].tick
       /\ from[b] = pulse[b].at
       /\ by[b] <= pulse[b].at + MaxPreempt
  /\ pc[b] = "pulsing" =>
       /\ pulse[b] # None
       /\ next_tick[b] = pulse[b].tick
       /\ actual[b] \in Reported(next_tick[b])
  /\ pc[b] = "pulsing" \/ (pc[b] = "asking" /\ pulse[b] # None) =>
       /\ from[b] >= pulse[b].at + Width
       /\ by[b] <= pulse[b].at + Width + 2 * MaxPreempt

BoardInv(b) == Aimed(b) /\ Pulsed(b) /\ InTurn(b)

\* Edges keep the time of their pulse until they are polled.
Latched ==
  \A b \in Boards, p \in Ports : latch[b][p] # None => latch[b][p].at \in Near(latch[b][p].tick)

Inv == TypeOK /\ Latched /\ \A b \in Boards : BoardInv(b)

-----------------------------------------------------------------------------
(* Steps.                                                                  *)

Places == {"converging", "asking", "planning", "sleeping", "spinning", "high", "pulsing"}

\* What GoTo does.
LEMMA Goes ==
  ASSUME TypeOK, NEW b \in Boards, NEW l \in Places, NEW f \in Int, NEW u \in Int,
         GoTo(b, l, f, u)
  PROVE  /\ pc' \in [Boards -> Places] /\ from' \in [Boards -> Int] /\ by' \in [Boards -> Int]
         /\ pc'[b] = l /\ from'[b] = f /\ by'[b] = u
         /\ \A c \in Boards \ {b} : pc'[c] = pc[c] /\ from'[c] = from[c] /\ by'[c] = by[c]
  BY DEF TypeOK, GoTo, Places

\* A board that takes no step keeps its invariant while time stands still.
LEMMA Untouched ==
  ASSUME NEW c \in Boards, BoardInv(c), now' = now, pc'[c] = pc[c], from'[c] = from[c],
         by'[c] = by[c], next_tick'[c] = next_tick[c], target'[c] = target[c],
         actual'[c] = actual[c], pulse'[c] = pulse[c]
  PROVE  BoardInv(c)'
  BY DEF BoardInv, Aimed, Pulsed, InTurn, Near, Reported, MaxTardy

LEMMA Numbers ==
  /\ Period \in Nat /\ Width \in Nat /\ MinLead \in Nat /\ Slack \in Nat /\ Err \in Nat
  /\ MaxPreempt \in Nat /\ MaxWake \in Nat /\ MaxPoll \in Nat /\ MaxTime \in Nat
  /\ MaxTardy \in Nat /\ None \notin Int
  BY PulserAssumption, MaxTardyType

LEMMA InitInv == Init => Inv
<1> SUFFICES ASSUME Init PROVE Inv
  OBVIOUS
<1>1. TypeOK
  <2>1. 0 % Period = 0
    BY PulserAssumption
  <2> QED
    BY <2>1, Numbers DEF Init, TypeOK
<1>2. Latched
  BY DEF Init, Latched
<1>3. ASSUME NEW b \in Boards PROVE BoardInv(b)
  BY DEF Init, BoardInv, Aimed, Pulsed, InTurn
<1> QED
  BY <1>1, <1>2, <1>3 DEF Inv

LEMMA TickInv == Inv /\ Tick => Inv'
<1> SUFFICES ASSUME Inv, Tick PROVE Inv'
  OBVIOUS
<1>1. TypeOK'
  BY Numbers DEF Inv, TypeOK, Tick, clientVars, pulserVars
<1>2. Latched'
  BY DEF Inv, Latched, Tick, Near, MaxTardy
<1>3. ASSUME NEW b \in Boards PROVE BoardInv(b)'
  <2>1. now < by[b] /\ now \in Int /\ by[b] \in Int /\ now' = now + 1
    BY DEF Tick, Inv, TypeOK
  <2>2. by' = by /\ from' = from /\ pc' = pc /\ next_tick' = next_tick /\ target' = target
        /\ actual' = actual /\ pulse' = pulse
    BY DEF Tick, pulserVars
  <2>3. now' <= by'[b]
    BY <2>1, <2>2
  <2> QED
    BY <2>2, <2>3 DEF Inv, BoardInv, Aimed, Pulsed, InTurn, Near, Reported, MaxTardy
<1> QED
  BY <1>1, <1>2, <1>3 DEF Inv

\* Steps of the client and of the reporter leave the pulsers alone.
LEMMA BeaconInv == ASSUME Inv, NEW b \in Boards, Beacon(b) PROVE Inv'
<1>1. TypeOK'
  BY DEF Inv, TypeOK, Beacon, pulserVars
<1>2. Latched'
  BY DEF Inv, Latched, Beacon, Near, MaxTardy
<1>3. ASSUME NEW c \in Boards PROVE BoardInv(c)'
  BY Untouched DEF Inv, Beacon, pulserVars
<1> QED
  BY <1>1, <1>2, <1>3 DEF Inv

LEMMA PollInv == ASSUME Inv, NEW b \in Boards, Poll(b) PROVE Inv'
<1>1. TypeOK'
  <2>1. latch' \in [Boards -> [Ports -> [tick : Nat, at : Nat] \cup {None}]]
    BY DEF Inv, TypeOK, Poll
  <2>2. printed' \subseteq [tick : Nat, synced_ns : Int \cup {None}]
    <3> SUFFICES ASSUME NEW p \in Ports, latch[b][p] # None
                 PROVE  Report(b, p) \in [tick : Nat, synced_ns : Int \cup {None}]
      BY DEF Poll
    <3>1. latch[b][p] \in [tick : Nat, at : Nat]
      BY DEF Inv, TypeOK
    <3> QED
      BY <3>1 DEF Report, ExtraFiltered
  <2>3. now' = now /\ extra_ready' = extra_ready /\ pulse' = pulse /\ pc' = pc /\ from' = from
        /\ by' = by /\ next_tick' = next_tick /\ target' = target /\ actual' = actual
        /\ rate_set' = rate_set \cup {b}
    BY DEF Poll, pulserVars
  <2> QED
    BY <2>1, <2>2, <2>3 DEF Inv, TypeOK
<1>2. Latched'
  BY DEF Inv, TypeOK, Latched, Poll, Near, MaxTardy
<1>3. ASSUME NEW c \in Boards PROVE BoardInv(c)'
  BY Untouched DEF Inv, Poll, pulserVars
<1> QED
  BY <1>1, <1>2, <1>3 DEF Inv

-----------------------------------------------------------------------------
(* Steps of a pulser.                                                      *)

\* A step of a pulser that leaves its pulse alone goes to a place that fits it.
LEMMA PulserMoves ==
  ASSUME Inv, NEW b \in Boards, NEW l \in Places, NEW f \in Int, NEW u \in Int,
         GoTo(b, l, f, u), BoardInv(b)', pulse' = pulse, latch' = latch,
         now' = now, rate_set' \subseteq Boards, extra_ready' = extra_ready,
         next_tick' \in [Boards -> Nat], next_tick'[b] % Period = 0,
         target' \in [Boards -> Int], actual' \in [Boards -> Int \cup {None}],
         \A c \in Boards \ {b} : /\ next_tick'[c] = next_tick[c]
                                 /\ target'[c] = target[c]
                                 /\ actual'[c] = actual[c],
         printed' \subseteq [tick : Nat, synced_ns : Int \cup {None}]
  PROVE  Inv'
<1>1. TypeOK
  BY DEF Inv
<1>2. TypeOK'
  <2>1. \A c \in Boards : next_tick'[c] % Period = 0
    BY <1>1 DEF TypeOK
  <2> QED
    BY <1>1, <2>1, Goes DEF TypeOK, Places
<1>3. Latched'
  BY DEF Inv, Latched, Near, MaxTardy
<1>4. ASSUME NEW c \in Boards, c # b PROVE BoardInv(c)'
  BY <1>1, <1>4, Goes, Untouched DEF Inv
<1> QED
  BY <1>2, <1>3, <1>4 DEF Inv

LEMMA BeginInv == ASSUME Inv, NEW b \in Boards, Begin(b) PROVE Inv'
<1>1. TypeOK /\ now \in Int /\ now \in Nat /\ BoardInv(b) /\ "asking" \in Places
  BY DEF Inv, TypeOK, Places
<1>2. GoTo(b, "asking", now, now)
  BY DEF Begin
<1>3. pc'[b] = "asking" /\ from'[b] = now /\ by'[b] = now /\ now' = now
  BY <1>1, <1>2, Goes DEF Begin
<1>4. pulse[b] = None /\ pulse' = pulse
  BY <1>1 DEF Begin, InTime, BoardInv, InTurn
<1>5. BoardInv(b)'
  BY <1>1, <1>3, <1>4 DEF BoardInv, Aimed, Pulsed, InTurn
<1> QED
  BY <1>1, <1>2, <1>5, PulserMoves DEF Begin, Inv, TypeOK, clientVars

\* The tick is the one after the last pulse's, and MaxPreempt before its target.
LEMMA AskInv == ASSUME Inv, NEW b \in Boards, Ask(b) PROVE Inv'
<1>1. TypeOK /\ now \in Int /\ now \in Nat /\ BoardInv(b) /\ "planning" \in Places
  BY DEF Inv, TypeOK, Places
<1> DEFINE tick == next_tick'[b]
<1>2. PICK e \in Errors, f \in Errors :
        /\ now + e >= 0
        /\ next_tick' = [next_tick EXCEPT ![b] = NextTick(now + e)]
        /\ target' = [target EXCEPT ![b] = NextTick(now + e) + f]
  BY DEF Ask
<1>3. e \in Int /\ -Err <= e /\ e <= Err /\ f \in Int /\ -Err <= f /\ f <= Err /\ now + e \in Nat
  BY <1>1, <1>2, Numbers DEF Errors
<1>4. tick = NextTick(now + e) /\ target'[b] = tick + f
  BY <1>1, <1>2 DEF TypeOK
<1>5. tick \in Nat /\ tick % Period = 0 /\ now + e + MinLead <= tick
  BY <1>3, <1>4, NextTickIsFirst
<1>6. GoTo(b, "planning", now, now + MaxPreempt) /\ now + MaxPreempt \in Int
  BY <1>1, Numbers DEF Ask
<1>7. pc'[b] = "planning" /\ from'[b] = now /\ by'[b] = now + MaxPreempt /\ now' = now
  BY <1>1, <1>6, Goes DEF Ask
<1>8. Aimed(b)'
  <2>1. target'[b] \in tick - Err .. tick + Err
    BY <1>3, <1>4, <1>5, Numbers
  <2>2. now + MaxPreempt <= target'[b]
    BY <1>1, <1>3, <1>4, <1>5, Numbers, RigAssumption
  <2> QED
    BY <1>1, <1>7, <2>1, <2>2, Numbers DEF Aimed
<1>9. pulse' = pulse /\ Pulsed(b)'
  BY <1>1 DEF Ask, BoardInv, Pulsed, Near, MaxTardy
<1>10. InTurn(b)'
  <2> SUFFICES ASSUME pulse[b] # None PROVE tick = pulse[b].tick + Period
    BY <1>7, <1>9 DEF InTurn
  <2> DEFINE t == pulse[b].tick
             up == pulse[b].at
  <2>1. t \in Nat /\ up \in Nat
    BY <1>1 DEF TypeOK
  <2>2. t % Period = 0 /\ up \in t - Err .. t + Err + MaxTardy
    BY <1>1 DEF BoardInv, Pulsed, Near
  <2>3. from[b] >= up + Width /\ by[b] <= up + Width + 2 * MaxPreempt
    BY <1>1 DEF Ask, InTime, BoardInv, InTurn
  <2>4. from[b] <= now /\ now <= by[b] /\ from[b] \in Int /\ by[b] \in Int
    BY <1>1 DEF Ask, InTime, BoardInv, Aimed, TypeOK
  <2> HIDE DEF t, up
  <2>5. up + Width <= now /\ now <= up + Width + 2 * MaxPreempt
    BY <1>1, <2>1, <2>3, <2>4, Numbers
  <2>6. t < now + e + MinLead
    BY <1>1, <1>3, <2>1, <2>2, <2>5, Numbers, RigAssumption, PulserAssumption
  <2>7. now + e + MinLead <= t + Period
    BY <1>1, <1>3, <2>1, <2>2, <2>5, Numbers, RigAssumption
  <2>8. NextTick(now + e) = t + Period
    BY <1>3, <2>1, <2>2, <2>6, <2>7, NextTickFollows
  <2> QED
    BY <1>4, <2>8 DEF t
<1>11. BoardInv(b)'
  BY <1>8, <1>9, <1>10 DEF BoardInv
<1>12. next_tick' \in [Boards -> Nat] /\ target' \in [Boards -> Int]
       /\ \A c \in Boards \ {b} : next_tick'[c] = next_tick[c] /\ target'[c] = target[c]
  <2>1. NextTick(now + e) \in Nat /\ NextTick(now + e) + f \in Int
    BY <1>3, <1>4, <1>5
  <2> QED
    BY <1>1, <1>2, <2>1 DEF TypeOK
<1> QED
  BY <1>1, <1>5, <1>6, <1>11, <1>12, PulserMoves DEF Ask, Inv, TypeOK, clientVars

\* A pulser begins to spin at most MaxTardy before it must have raised its pins.
LEMMA SpinInv ==
  ASSUME Inv, NEW b \in Boards, pc[b] \in {"planning", "sleeping"},
         now <= target[b] \/ now <= target[b] - Slack + MaxWake,
         GoTo(b, "spinning", target[b],
              (IF target[b] > now THEN target[b] ELSE now) + MaxPreempt),
         printed' = {},
         UNCHANGED <<now, clientVars, next_tick, target, actual, pulse, latch>>
  PROVE  Inv'
<1> DEFINE u == (IF target[b] > now THEN target[b] ELSE now) + MaxPreempt
<1>1. TypeOK /\ now \in Int /\ BoardInv(b) /\ "spinning" \in Places /\ target[b] \in Int
  BY DEF Inv, TypeOK, Places
<1>2. u \in Int /\ now <= u /\ u <= target[b] + MaxTardy
  BY <1>1, Numbers, MaxTardyType
<1> HIDE DEF u
<1>3. GoTo(b, "spinning", target[b], u)
  BY DEF u
<1>4. pc'[b] = "spinning" /\ from'[b] = target[b] /\ by'[b] = u
  BY <1>1, <1>2, <1>3, Goes
<1>5. now' = now /\ next_tick' = next_tick /\ target' = target /\ actual' = actual /\ pulse' = pulse
  OBVIOUS
<1>6. Aimed(b)'
  BY <1>1, <1>2, <1>4, <1>5 DEF BoardInv, Aimed, MaxTardy
<1>7. Pulsed(b)' /\ InTurn(b)'
  BY <1>1, <1>4, <1>5 DEF BoardInv, Pulsed, InTurn, Near, MaxTardy
<1>8. BoardInv(b)'
  BY <1>6, <1>7 DEF BoardInv
<1> QED
  BY <1>1, <1>2, <1>3, <1>8, PulserMoves DEF Inv, TypeOK, clientVars

LEMMA PlanInv == ASSUME Inv, NEW b \in Boards, Plan(b) PROVE Inv'
<1> DEFINE wait == CoarseWait(target[b] - now)
<1>1. TypeOK /\ now \in Int /\ BoardInv(b) /\ "sleeping" \in Places
      /\ target[b] \in Int /\ by[b] \in Int
  BY DEF Inv, TypeOK, Places
<1>2. pc[b] = "planning" /\ now <= target[b]
  BY <1>1 DEF Plan, InTime, BoardInv, Aimed
<1>3. CASE wait > 0
  <2>1. wait = target[b] - now - Slack
    BY <1>1, <1>3, Numbers DEF CoarseWait
  <2> DEFINE f == now + wait
             u == now + wait + MaxWake
  <2>2. f \in Int /\ u \in Int /\ now <= u /\ u = target[b] - Slack + MaxWake
    BY <1>1, <1>3, <2>1, Numbers
  <2>3. GoTo(b, "sleeping", f, u)
    BY <1>3 DEF Plan
  <2> HIDE DEF f, u
  <2>4. pc'[b] = "sleeping" /\ by'[b] = u
    BY <1>1, <2>2, <2>3, Goes
  <2>5. now' = now /\ next_tick' = next_tick /\ target' = target /\ actual' = actual
        /\ pulse' = pulse
    BY DEF Plan
  <2>6. BoardInv(b)'
    BY <1>1, <1>2, <2>2, <2>4, <2>5
       DEF BoardInv, Aimed, Pulsed, InTurn, Near, MaxTardy
  <2> QED
    BY <1>1, <2>2, <2>3, <2>6, PulserMoves DEF Plan, Inv, TypeOK, clientVars
<1>4. CASE ~ (wait > 0)
  BY <1>2, <1>4, SpinInv DEF Plan
<1> QED
  BY <1>3, <1>4

LEMMA WakeUpInv == ASSUME Inv, NEW b \in Boards, WakeUp(b) PROVE Inv'
<1>1. now \in Int /\ by[b] \in Int /\ target[b] \in Int
  BY DEF Inv, TypeOK
<1>2. pc[b] = "sleeping" /\ now <= by[b] /\ by[b] <= target[b] - Slack + MaxWake
  BY DEF WakeUp, InTime, Inv, BoardInv, Aimed
<1>3. now <= target[b] - Slack + MaxWake
  BY <1>1, <1>2, Numbers
<1> QED
  BY <1>2, <1>3, SpinInv DEF WakeUp

\* The pins rise no earlier than at the target and no later than the deadline.
LEMMA EdgeInv == ASSUME Inv, NEW b \in Boards, Edge(b) PROVE Inv'
<1> DEFINE edge == [tick |-> next_tick[b], at |-> now]
<1>1. TypeOK /\ now \in Int /\ now \in Nat /\ BoardInv(b) /\ "high" \in Places
      /\ target[b] \in Int /\ by[b] \in Int /\ next_tick[b] \in Nat /\ next_tick[b] % Period = 0
  BY DEF Inv, TypeOK, Places
<1>2. pc[b] = "spinning" /\ target[b] <= now /\ now <= target[b] + MaxTardy
  <2>1. pc[b] = "spinning" /\ target[b] <= now /\ now <= by[b] /\ by[b] <= target[b] + MaxTardy
    BY <1>1 DEF Edge, InTime, BoardInv, Aimed
  <2> QED
    BY <1>1, <2>1, Numbers
<1>3. now \in Near(next_tick[b])
  <2>1. target[b] \in next_tick[b] - Err .. next_tick[b] + Err
    BY <1>1, <1>2 DEF BoardInv, Aimed
  <2> QED
    BY <1>1, <1>2, <2>1, Numbers DEF Near
<1>4. edge \in [tick : Nat, at : Nat] /\ edge # None
  <2>1. edge \in [tick : Nat, at : Nat]
    BY <1>1
  <2> QED
    BY <2>1, PulserAssumption
<1>5. pulse' = [pulse EXCEPT ![b] = edge] /\ pulse'[b] = edge
  BY <1>1 DEF Edge, TypeOK
<1>6. GoTo(b, "high", now, now + MaxPreempt) /\ now + MaxPreempt \in Int
  BY <1>1, Numbers DEF Edge
<1>7. pc'[b] = "high" /\ from'[b] = now /\ by'[b] = now + MaxPreempt /\ now' = now
  BY <1>1, <1>6, Goes DEF Edge
<1> HIDE DEF edge
<1>8. latch' \in [Boards -> [Ports -> [tick : Nat, at : Nat] \cup {None}]]
      /\ \A c \in Boards, p \in Ports : latch'[c][p] \in {latch[c][p], edge}
  BY <1>1, <1>4, <1>5 DEF Edge, TypeOK, Ports
<1>9. TypeOK'
  <2>1. target' \in [Boards -> Int] /\ pulse' \in [Boards -> [tick : Nat, at : Nat] \cup {None}]
    BY <1>1, <1>4, <1>5 DEF Edge, TypeOK
  <2> QED
    BY <1>1, <1>6, <1>8, <2>1, Goes DEF Edge, TypeOK, clientVars, Places
<1>10. Latched'
  BY <1>3, <1>8 DEF Inv, Latched, Near, MaxTardy, edge
<1>11. BoardInv(b)'
  <2>1. next_tick'[b] = next_tick[b]
    BY DEF Edge
  <2>2. Aimed(b)'
    BY <1>1, <1>7, Numbers DEF Aimed
  <2>3. Pulsed(b)'
    BY <1>1, <1>3, <1>5 DEF Pulsed, edge, Near, MaxTardy
  <2>4. InTurn(b)'
    BY <1>1, <1>4, <1>5, <1>7, <2>1, Numbers DEF InTurn, edge
  <2> QED
    BY <2>2, <2>3, <2>4 DEF BoardInv
<1>12. ASSUME NEW c \in Boards, c # b PROVE BoardInv(c)'
  <2>1. pulse'[c] = pulse[c] /\ target'[c] = target[c] /\ next_tick'[c] = next_tick[c]
        /\ actual'[c] = actual[c]
    BY <1>1, <1>5, <1>12 DEF Edge, TypeOK
  <2> QED
    BY <1>1, <1>6, <1>7, <1>12, <2>1, Goes, Untouched DEF Inv
<1> QED
  BY <1>9, <1>10, <1>11, <1>12 DEF Inv

LEMMA CaptureInv == ASSUME Inv, NEW b \in Boards, Capture(b) PROVE Inv'
<1> DEFINE value == actual'[b]
           up == pulse[b].at
           tick == next_tick[b]
           f == now + Width
           u == now + Width + MaxPreempt
<1>1. TypeOK /\ now \in Int /\ now \in Nat /\ BoardInv(b) /\ "pulsing" \in Places
      /\ from[b] \in Int /\ by[b] \in Int /\ tick \in Nat
  BY DEF Inv, TypeOK, Places
<1>2. pc[b] = "high" /\ from[b] <= now /\ now <= by[b]
  BY <1>1 DEF Capture, InTime, BoardInv, Aimed
<1>3. pulse[b] # None /\ tick = pulse[b].tick /\ from[b] = up /\ by[b] <= up + MaxPreempt
  BY <1>1, <1>2 DEF BoardInv, InTurn
<1>4. up \in Nat /\ up \in tick - Err .. tick + Err + MaxTardy
  BY <1>1, <1>3 DEF TypeOK, BoardInv, Pulsed, Near
<1>5. up <= now /\ now <= up + MaxPreempt
  BY <1>1, <1>2, <1>3, <1>4, Numbers
<1>6. now \in Reported(tick) /\ tick \in Reported(tick)
  BY <1>1, <1>4, <1>5, Numbers DEF Reported
<1>7. value \in {now, tick}
  BY <1>1 DEF Capture, ExtraFiltered, FallBack, TypeOK
<1>8. actual' \in [Boards -> Int \cup {None}]
      /\ \A c \in Boards \ {b} : actual'[c] = actual[c]
  BY <1>1 DEF Capture, ExtraFiltered, FallBack, TypeOK
<1>9. GoTo(b, "pulsing", f, u) /\ f \in Int /\ u \in Int
  BY <1>1, Numbers DEF Capture
<1>10. now <= u /\ f >= up + Width /\ u <= up + Width + 2 * MaxPreempt
  BY <1>1, <1>4, <1>5, Numbers
<1> HIDE DEF f, u
<1>11. pc'[b] = "pulsing" /\ from'[b] = f /\ by'[b] = u /\ now' = now
  BY <1>1, <1>9, Goes DEF Capture
<1>12. pulse' = pulse /\ next_tick' = next_tick /\ target' = target
  BY DEF Capture
<1>13. BoardInv(b)'
  <2>1. Aimed(b)'
    BY <1>10, <1>11 DEF Aimed
  <2>2. Pulsed(b)'
    BY <1>1, <1>12 DEF BoardInv, Pulsed, Near, MaxTardy
  <2>3. InTurn(b)'
    BY <1>3, <1>6, <1>7, <1>10, <1>11, <1>12 DEF InTurn, Reported, MaxTardy
  <2> QED
    BY <2>1, <2>2, <2>3 DEF BoardInv
<1>14. /\ now' = now /\ latch' = latch /\ rate_set' \subseteq Boards /\ extra_ready' = extra_ready
       /\ next_tick' \in [Boards -> Nat] /\ next_tick'[b] % Period = 0
       /\ target' \in [Boards -> Int] /\ printed' = {}
       /\ \A c \in Boards \ {b} : next_tick'[c] = next_tick[c] /\ target'[c] = target[c]
  BY <1>1, <1>12 DEF Capture, TypeOK, clientVars
<1> HIDE DEF tick
<1> QED
  BY <1>1, <1>8, <1>9, <1>12, <1>13, <1>14, PulserMoves

LEMMA ReleaseInv == ASSUME Inv, NEW b \in Boards, Release(b) PROVE Inv'
<1>1. TypeOK /\ now \in Int /\ BoardInv(b) /\ "asking" \in Places
      /\ from[b] \in Int /\ by[b] \in Int
  BY DEF Inv, TypeOK, Places
<1>2. pc[b] = "pulsing" /\ from[b] <= now /\ now <= by[b]
  BY <1>1 DEF Release, InTime, BoardInv, Aimed
<1>3. /\ pulse[b] # None /\ next_tick[b] = pulse[b].tick
      /\ from[b] >= pulse[b].at + Width
      /\ by[b] <= pulse[b].at + Width + 2 * MaxPreempt
  BY <1>1, <1>2 DEF BoardInv, InTurn
<1>4. pulse[b].at \in Nat
  BY <1>1, <1>3 DEF TypeOK
<1>5. now >= pulse[b].at + Width /\ now <= pulse[b].at + Width + 2 * MaxPreempt
  BY <1>1, <1>2, <1>3, <1>4, Numbers
<1>6. GoTo(b, "asking", now, now)
  BY DEF Release
<1>7. pc'[b] = "asking" /\ from'[b] = now /\ by'[b] = now /\ now' = now
  BY <1>1, <1>6, Goes DEF Release
<1>8. pulse' = pulse /\ next_tick' = next_tick /\ target' = target
  BY DEF Release
<1>9. BoardInv(b)'
  BY <1>1, <1>3, <1>5, <1>7, <1>8
     DEF BoardInv, Aimed, Pulsed, InTurn, Near, MaxTardy
<1>10. actual' \in [Boards -> Int \cup {None}]
       /\ (\A c \in Boards \ {b} : actual'[c] = actual[c])
       /\ printed' \subseteq [tick : Nat, synced_ns : Int \cup {None}]
  BY <1>1 DEF Release, TypeOK
<1>11. /\ latch' = latch /\ rate_set' \subseteq Boards /\ extra_ready' = extra_ready
       /\ next_tick' \in [Boards -> Nat] /\ next_tick'[b] % Period = 0
       /\ target' \in [Boards -> Int]
       /\ \A c \in Boards \ {b} : next_tick'[c] = next_tick[c] /\ target'[c] = target[c]
  BY <1>1, <1>8 DEF Release, TypeOK, clientVars
<1> QED
  BY <1>1, <1>6, <1>7, <1>8, <1>9, <1>10, <1>11, PulserMoves

LEMMA NextInv == Inv /\ [Next]_vars => Inv'
<1> SUFFICES ASSUME Inv, [Next]_vars PROVE Inv'
  OBVIOUS
<1>1. CASE UNCHANGED vars
  BY <1>1 DEF vars, clientVars, pulserVars, Inv, TypeOK, Latched, BoardInv, Aimed, Pulsed,
              InTurn, Near, Reported, MaxTardy
<1>2. CASE Tick
  BY <1>2, TickInv
<1>3. ASSUME NEW b \in Boards, Beacon(b) \/ pulser(b) \/ Poll(b) PROVE Inv'
  BY <1>3, BeaconInv, BeginInv, AskInv, PlanInv, WakeUpInv, EdgeInv, CaptureInv, ReleaseInv,
     PollInv DEF pulser
<1> QED
  BY <1>1, <1>2, <1>3 DEF Next, Done

LEMMA Inductive == Spec => []Inv
  BY InitInv, NextInv, PTL DEF Spec

-----------------------------------------------------------------------------
(* The results.                                                            *)

\* The rig's variables keep their types, and a board works for multiples of the period.
THEOREM TypeCorrect == Spec => []TypeOK
<1>1. Inv => TypeOK
  BY DEF Inv
<1> QED
  BY <1>1, Inductive, PTL

\* Agreement, for any number of boards and whatever the bounds on errors and delays: the
\* pins that rise for one tick rise within 2 * Err + MaxTardy of each other.
THEOREM PulsesAgree == Spec => []Agreement
<1>1. Inv => Agreement
  <2> SUFFICES ASSUME Inv, NEW a \in Boards, NEW b \in Boards, pulse[a] # None,
                      pulse[b] # None, pulse[a].tick = pulse[b].tick
               PROVE  Distance(pulse[a].at, pulse[b].at) <= 2 * Err + MaxTardy
    BY DEF Agreement
  <2> DEFINE t == pulse[a].tick
             x == pulse[a].at
             y == pulse[b].at
  <2>1. t \in Nat /\ x \in Nat /\ y \in Nat
    BY DEF Inv, TypeOK
  <2>2. x \in t - Err .. t + Err + MaxTardy /\ y \in t - Err .. t + Err + MaxTardy
    BY DEF Inv, BoardInv, Pulsed, Near
  <2> HIDE DEF t, x, y
  <2>3. Distance(x, y) <= 2 * Err + MaxTardy
    BY <2>1, <2>2, Numbers DEF Distance
  <2> QED
    BY <2>3 DEF x, y
<1> QED
  BY <1>1, Inductive, PTL

\* EveryTickOnce: a pulser whose lead covers the errors of the synced time serves each tick
\* after the other, although it chooses the next one from a synced time that may be behind
\* the tick it has just served.
THEOREM TicksServedOnce == Spec => EveryTickOnce
<1>1. Inv /\ [Next]_vars =>
        [\A b \in Boards :
           pulse'[b] # pulse[b] /\ pulse[b] # None
             => pulse'[b].tick = pulse[b].tick + Period]_vars
  <2> SUFFICES ASSUME Inv, [Next]_vars, NEW b \in Boards, pulse'[b] # pulse[b], pulse[b] # None
               PROVE  pulse'[b].tick = pulse[b].tick + Period
    OBVIOUS
  <2>1. PICK c \in Boards : Edge(c)
    BY DEF Next, vars, Done, Tick, Beacon, Poll, pulser, Begin, Ask, Plan, WakeUp, Capture, Release
  <2>2. c = b /\ pulse'[b] = [tick |-> next_tick[b], at |-> now]
    BY <2>1 DEF Edge, Inv, TypeOK
  <2>3. next_tick[b] = pulse[b].tick + Period
    BY <2>1, <2>2 DEF Edge, InTime, Inv, BoardInv, InTurn
  <2> QED
    BY <2>2, <2>3
<1> QED
  BY <1>1, Inductive, PTL DEF Spec, EveryTickOnce

\* ReportsNearTick: the board that raised a pulse, measuring it or falling back, and the
\* boards that saw it report times that RigAssumption keeps within half a period.
THEOREM ReportsTellTicksApart == Spec => []ReportsNearTick
<1>1. Init => ReportsNearTick
  BY DEF Init, ReportsNearTick
<1>2. Inv /\ ReportsNearTick /\ [Next]_vars => ReportsNearTick'
  <2> SUFFICES ASSUME Inv, ReportsNearTick, [Next]_vars, NEW told \in printed',
                      told.synced_ns # None
               PROVE  told.synced_ns \in Reported(told.tick)
    BY DEF ReportsNearTick, Reported, MaxTardy
  <2>1. CASE UNCHANGED vars
    BY <2>1 DEF vars, ReportsNearTick, Reported
  <2>2. ASSUME NEW b \in Boards, Release(b) PROVE told.synced_ns \in Reported(told.tick)
    <3>1. told = [tick |-> next_tick[b], synced_ns |-> actual[b]]
      BY <2>2 DEF Release
    <3> QED
      BY <2>2, <3>1 DEF Release, InTime, Inv, BoardInv, InTurn
  <2>3. ASSUME NEW b \in Boards, Poll(b) PROVE told.synced_ns \in Reported(told.tick)
    <3>1. PICK p \in Ports : latch[b][p] # None /\ told = Report(b, p)
      BY <2>3 DEF Poll
    <3>2. told.tick = latch[b][p].tick /\ told.synced_ns = latch[b][p].at
      BY <3>1 DEF Report, ExtraFiltered
    <3>3. latch[b][p].tick \in Nat /\ latch[b][p].at \in Nat
          /\ latch[b][p].at \in Near(latch[b][p].tick)
      BY <3>1 DEF Inv, TypeOK, Latched
    <3> QED
      BY <3>2, <3>3, Numbers DEF Near, Reported
  <2>4. CASE printed' = {}
    BY <2>4
  <2> QED
    BY <2>1, <2>2, <2>3, <2>4 DEF Next, Done, Tick, Beacon, pulser, Begin, Ask, Plan, WakeUp,
                                  Edge, Capture
<1> QED
  BY <1>1, <1>2, Inductive, PTL DEF Spec

-----------------------------------------------------------------------------
(* No edge is lost.                                                        *)

\* The rig's period has room for an edge that is late, for its poll, and for the steps of a
\* pulser between two waits.
KeepsUp ==
  /\ 2 * Err + MaxTardy + MaxPoll + MaxPreempt + Slack < Period
  /\ 2 * Err + MaxTardy + Width + 3 * MaxPreempt + Slack < Period

\* How long a pulser stays where it is.
Paced(b) ==
  /\ pulse[b] # None => pulse[b].at <= now
  /\ pc[b] = "asking" => by[b] <= now
  /\ pc[b] = "planning" =>
       /\ by[b] <= now + MaxPreempt
       /\ pulse[b] # None => by[b] <= pulse[b].at + Width + 3 * MaxPreempt
  /\ pc[b] = "sleeping" => from[b] = target[b] - Slack
  /\ pc[b] = "spinning" => target[b] - Slack <= now

\* An edge e that board b has not polled is so recent that no board has reached the next
\* tick.  A pulser with a pulse behind it sleeps until the reporter has caught up: while it
\* spins, only edges of the tick it works for can wait.
Pending(b, e) ==
  /\ e.tick % Period = 0
  /\ now < e.tick + Period - Err
  /\ pulse[b] = None =>
       /\ pc[b] = "converging" => now <= e.at + MaxPoll
       /\ pc[b] = "asking" => by[b] <= e.at + MaxPoll
       /\ pc[b] = "planning" => by[b] <= e.at + MaxPoll + MaxPreempt
  /\ pulse[b] # None /\ pc[b] \in {"high", "pulsing", "asking", "planning"} =>
       pulse[b].tick <= e.tick
  /\ pc[b] = "sleeping" /\ e.tick < next_tick[b] => now < from[b]
  /\ pc[b] = "spinning" => next_tick[b] <= e.tick

\* An edge that waits is the last one of the board it comes from.
Wired(b) ==
  /\ latch[b]["D34"] # None => latch[b]["D34"] = pulse[b]
  /\ latch[b]["D5"] # None => \E c \in Boards \ {b} : latch[b]["D5"] = pulse[c]

Polled ==
  \A b \in Boards :
    /\ Paced(b)
    /\ Wired(b)
    /\ \A p \in Ports : latch[b][p] # None => Pending(b, latch[b][p])

Edges == [tick : Nat, at : Nat]

LEMMA TicksApart ==
  ASSUME NEW s \in Int, NEW t \in Int, s % Period = 0, t % Period = 0, s < t
  PROVE  s + Period <= t
<1>1. Period \in Nat \ {0}
  BY PulserAssumption
<1>2. CASE t - s < Period
  <2>1. s % Period = t % Period /\ s - t < Period
    BY <1>1
  <2>2. s = t
    BY <1>1, <1>2, <2>1, OneInAWrap
  <2> QED
    BY <2>2
<1> QED
  BY <1>1, <1>2

\* What Inv says of one board, in numbers.
LEMMA BoardNumbers ==
  ASSUME Inv, NEW b \in Boards
  PROVE  /\ now \in Int /\ from[b] \in Int /\ by[b] \in Int /\ target[b] \in Int
         /\ next_tick[b] \in Int /\ next_tick[b] % Period = 0
         /\ pc[b] \in Places
         /\ pc[b] # "converging" => now <= by[b]
         /\ pc[b] \in {"planning", "sleeping", "spinning"} =>
              /\ next_tick[b] - Err <= target[b]
              /\ target[b] <= next_tick[b] + Err
              /\ pulse[b] # None => next_tick[b] = pulse[b].tick + Period
         /\ pulse[b] # None =>
              /\ pulse[b] \in Edges
              /\ pulse[b].tick % Period = 0
              /\ pulse[b].tick - Err <= pulse[b].at
              /\ pulse[b].at <= pulse[b].tick + Err + MaxTardy
<1>1. TypeOK /\ BoardInv(b)
  BY DEF Inv
<1>2. pulse[b] # None => pulse[b].at \in Near(pulse[b].tick) /\ pulse[b].tick % Period = 0
  BY <1>1 DEF BoardInv, Pulsed
<1>3. pc[b] \in {"planning", "sleeping", "spinning"} =>
        target[b] \in next_tick[b] - Err .. next_tick[b] + Err
  BY <1>1 DEF BoardInv, Aimed
<1>4. next_tick[b] \in Nat /\ (pulse[b] # None => pulse[b] \in Edges)
  BY <1>1 DEF TypeOK, Edges
<1>5. pulse[b] # None => pulse[b].tick \in Int /\ pulse[b].at \in Int
  BY <1>4 DEF Edges
<1> QED
  BY <1>1, <1>2, <1>3, <1>4, <1>5, Numbers DEF TypeOK, BoardInv, Aimed, InTurn, Near, Places

\* An edge that is latched was raised near its tick.
LEMMA EdgeNumbers ==
  ASSUME Inv, NEW b \in Boards, NEW p \in Ports, latch[b][p] # None
  PROVE  /\ latch[b][p] \in Edges
         /\ latch[b][p].tick - Err <= latch[b][p].at
         /\ latch[b][p].at <= latch[b][p].tick + Err + MaxTardy
<1>1. latch[b][p] \in Edges
  BY DEF Inv, TypeOK, Edges
<1>2. latch[b][p].at \in Near(latch[b][p].tick)
  BY DEF Inv, Latched
<1> QED
  BY <1>1, <1>2, Numbers DEF Near, Edges

LEMMA InitPolled == Init => Polled
<1> SUFFICES ASSUME Init, NEW b \in Boards
             PROVE  Paced(b) /\ Wired(b) /\ \A p \in Ports : latch[b][p] = None
  BY DEF Polled
<1> QED
  BY DEF Init, Paced, Wired, Ports

\* A board that takes no step keeps its pace while time stands still.
LEMMA StillPaced ==
  ASSUME NEW c \in Boards, Paced(c), now' = now, pc'[c] = pc[c], from'[c] = from[c],
         by'[c] = by[c], target'[c] = target[c], pulse'[c] = pulse[c]
  PROVE  Paced(c)'
  BY DEF Paced

LEMMA StillPending ==
  ASSUME NEW c \in Boards, NEW e, Pending(c, e), now' = now, pc'[c] = pc[c],
         from'[c] = from[c], by'[c] = by[c], next_tick'[c] = next_tick[c],
         pulse'[c] = pulse[c]
  PROVE  Pending(c, e)'
  BY DEF Pending

\* A step of a pulser that raises no pins concerns its own pace and its own edges.
LEMMA PulserPolled ==
  ASSUME Inv, Polled, NEW b \in Boards, NEW l \in Places, NEW f \in Int, NEW u \in Int,
         GoTo(b, l, f, u), now' = now, pulse' = pulse, latch' = latch,
         \A c \in Boards \ {b} : next_tick'[c] = next_tick[c] /\ target'[c] = target[c],
         Paced(b)',
         \A p \in Ports : latch[b][p] # None => Pending(b, latch[b][p])'
  PROVE  Polled'
<1>1. \A c \in Boards \ {b} : pc'[c] = pc[c] /\ from'[c] = from[c] /\ by'[c] = by[c]
  BY Goes DEF Inv
<1>2. ASSUME NEW c \in Boards PROVE Wired(c)'
  BY DEF Polled, Wired
<1>3. ASSUME NEW c \in Boards, c # b PROVE Paced(c)'
  BY <1>1, <1>3, StillPaced DEF Polled
<1>4. ASSUME NEW c \in Boards, c # b, NEW p \in Ports, latch'[c][p] # None
      PROVE  Pending(c, latch[c][p])'
  BY <1>1, <1>4, StillPending DEF Polled
<1>5. ASSUME NEW c \in Boards, NEW p \in Ports, latch'[c][p] # None
      PROVE  Pending(c, latch[c][p])'
  BY <1>4, <1>5
<1> QED
  BY <1>2, <1>3, <1>5 DEF Polled, Pending

LEMMA BeginPolled == ASSUME Inv, Polled, NEW b \in Boards, Begin(b) PROVE Polled'
<1>1. GoTo(b, "asking", now, now) /\ now \in Int /\ "asking" \in Places /\ TypeOK
  BY DEF Begin, Inv, TypeOK, Places
<1>2. pc'[b] = "asking" /\ by'[b] = now
  BY <1>1, Goes
<1>3. pulse[b] = None /\ pc[b] = "converging"
  BY DEF Begin, InTime, Inv, BoardInv, InTurn
<1>4. /\ now' = now /\ pulse' = pulse /\ latch' = latch
      /\ next_tick' = next_tick /\ target' = target
  BY DEF Begin
<1>5. Paced(b)'
  BY <1>1, <1>2, <1>3, <1>4 DEF Paced
<1>6. ASSUME NEW p \in Ports, latch[b][p] # None PROVE Pending(b, latch[b][p])'
  <2>1. Pending(b, latch[b][p])
    BY <1>6 DEF Polled
  <2> QED
    BY <1>2, <1>3, <1>4, <2>1 DEF Pending
<1> QED
  BY <1>1, <1>4, <1>5, <1>6, PulserPolled

LEMMA AskPolled == ASSUME Inv, Polled, NEW b \in Boards, Ask(b) PROVE Polled'
<1>1. GoTo(b, "planning", now, now + MaxPreempt) /\ now \in Int /\ now + MaxPreempt \in Int
      /\ "planning" \in Places /\ TypeOK
  BY Numbers DEF Ask, Inv, TypeOK, Places
<1>2. pc'[b] = "planning" /\ by'[b] = now + MaxPreempt
  BY <1>1, Goes
<1>3. pc[b] = "asking" /\ now <= by[b] /\ by[b] \in Int
  BY BoardNumbers DEF Ask, InTime
<1>4. /\ now' = now /\ pulse' = pulse /\ latch' = latch
      /\ \A c \in Boards \ {b} : next_tick'[c] = next_tick[c] /\ target'[c] = target[c]
  BY DEF Ask, Inv, TypeOK
<1>5. Paced(b)'
  <2>1. Paced(b)
    BY DEF Polled
  <2>2. pulse[b] # None => pulse[b].at \in Int /\ by[b] <= pulse[b].at + Width + 2 * MaxPreempt
    BY <1>3 DEF Inv, TypeOK, BoardInv, InTurn
  <2>3. pulse[b] # None => now + MaxPreempt <= pulse[b].at + Width + 3 * MaxPreempt
    BY <1>1, <1>3, <2>2, Numbers
  <2> QED
    BY <1>1, <1>2, <1>4, <2>1, <2>3 DEF Paced
<1>6. ASSUME NEW p \in Ports, latch[b][p] # None PROVE Pending(b, latch[b][p])'
  <2> DEFINE e == latch[b][p]
  <2>1. Pending(b, e) /\ e \in Edges
    BY <1>6, EdgeNumbers DEF Polled
  <2>2. e.at \in Int
    BY <2>1 DEF Edges
  <2>3. e' = e
    BY <1>4
  <2> HIDE DEF e
  <2>4. pulse[b] = None => now + MaxPreempt <= e.at + MaxPoll + MaxPreempt
    BY <1>1, <1>3, <2>1, <2>2, Numbers DEF Pending
  <2>5. Pending(b, e)'
    BY <1>2, <1>3, <1>4, <2>1, <2>3, <2>4 DEF Pending
  <2> QED
    BY <2>5 DEF e
<1> QED
  BY <1>1, <1>4, <1>5, <1>6, PulserPolled

\* A pulser begins to spin only when the edges of the tick before have been polled.
LEMMA SpinPolled ==
  ASSUME Inv, Polled, NEW b \in Boards, NEW u \in Int, GoTo(b, "spinning", target[b], u),
         target[b] - Slack <= now,
         \A p \in Ports : latch[b][p] # None => next_tick[b] <= latch[b][p].tick,
         UNCHANGED <<now, next_tick, target, pulse, latch>>
  PROVE  Polled'
<1>1. target[b] \in Int /\ "spinning" \in Places /\ TypeOK
  BY DEF Inv, TypeOK, Places
<1>2. pc'[b] = "spinning"
  BY <1>1, Goes
<1>3. Paced(b)'
  BY <1>2 DEF Polled, Paced
<1>4. ASSUME NEW p \in Ports, latch[b][p] # None PROVE Pending(b, latch[b][p])'
  <2>1. Pending(b, latch[b][p])
    BY <1>4 DEF Polled
  <2> QED
    BY <1>2, <1>4, <2>1 DEF Pending
<1> QED
  BY <1>1, <1>3, <1>4, PulserPolled

\* An edge of an earlier tick, late and polled late, is still a wait ahead of the target.
LEMMA EarlierEdge ==
  ASSUME KeepsUp, Inv, NEW b \in Boards, pc[b] \in {"planning", "sleeping", "spinning"},
         NEW e \in Edges, e.tick % Period = 0, e.tick < next_tick[b],
         e.at <= e.tick + Err + MaxTardy
  PROVE  /\ e.tick + Period <= next_tick[b]
         /\ e.at + MaxPoll + MaxPreempt < target[b] - Slack
<1>1. e.tick \in Int /\ e.at \in Int
  BY DEF Edges
<1>2. /\ next_tick[b] \in Int /\ next_tick[b] % Period = 0 /\ target[b] \in Int
      /\ next_tick[b] - Err <= target[b]
  BY BoardNumbers
<1>3. e.tick + Period <= next_tick[b]
  BY <1>1, <1>2, TicksApart
<1> QED
  BY <1>1, <1>2, <1>3, Numbers DEF KeepsUp

LEMMA PlanPolled == ASSUME KeepsUp, Inv, Polled, NEW b \in Boards, Plan(b) PROVE Polled'
<1> DEFINE wait == CoarseWait(target[b] - now)
<1>1. now \in Int /\ target[b] \in Int /\ by[b] \in Int /\ now <= by[b] /\ pc[b] = "planning"
  BY BoardNumbers DEF Plan, InTime
<1>2. now' = now /\ next_tick' = next_tick /\ target' = target /\ pulse' = pulse /\ latch' = latch
  BY DEF Plan
<1>3. CASE wait > 0
  <2> DEFINE f == now + wait
             u == now + wait + MaxWake
  <2>1. f \in Int /\ u \in Int /\ f = target[b] - Slack /\ now < f
    BY <1>1, <1>3, Numbers DEF CoarseWait
  <2>2. GoTo(b, "sleeping", f, u) /\ "sleeping" \in Places /\ TypeOK
    BY <1>3 DEF Plan, Inv, Places
  <2> HIDE DEF f, u
  <2>3. pc'[b] = "sleeping" /\ from'[b] = f
    BY <2>1, <2>2, Goes
  <2>4. Paced(b)'
    BY <1>2, <2>1, <2>3 DEF Polled, Paced
  <2>5. ASSUME NEW p \in Ports, latch[b][p] # None PROVE Pending(b, latch[b][p])'
    <3>1. Pending(b, latch[b][p])
      BY <2>5 DEF Polled
    <3> QED
      BY <1>2, <2>1, <2>3, <3>1 DEF Pending
  <2> QED
    BY <1>2, <2>1, <2>2, <2>4, <2>5, PulserPolled
<1>4. CASE ~ (wait > 0)
  <2> DEFINE u == (IF target[b] > now THEN target[b] ELSE now) + MaxPreempt
  <2>1. u \in Int /\ target[b] - Slack <= now
    BY <1>1, <1>4, Numbers DEF CoarseWait
  <2>2. GoTo(b, "spinning", target[b], u)
    BY <1>4 DEF Plan
  <2> HIDE DEF u
  <2>3. ASSUME NEW p \in Ports, latch[b][p] # None PROVE next_tick[b] <= latch[b][p].tick
    <3> DEFINE e == latch[b][p]
    <3>1. Pending(b, e) /\ e \in Edges /\ e.at <= e.tick + Err + MaxTardy
      BY <2>3, EdgeNumbers DEF Polled
    <3> HIDE DEF e
    <3>2. e.tick \in Int /\ e.at \in Int /\ e.tick % Period = 0 /\ next_tick[b] \in Int
      BY <3>1, BoardNumbers DEF Edges, Pending
    <3>3. ASSUME e.tick < next_tick[b] PROVE FALSE
      <4>1. e.at + MaxPoll + MaxPreempt < target[b] - Slack
        BY <1>1, <3>1, <3>2, <3>3, EarlierEdge
      <4>2. CASE pulse[b] = None
        <5>1. by[b] <= e.at + MaxPoll + MaxPreempt
          BY <1>1, <3>1, <4>2 DEF Pending
        <5> QED
          BY <1>1, <2>1, <3>2, <4>1, <5>1, Numbers
      <4>3. CASE pulse[b] # None
        <5>1. /\ by[b] <= pulse[b].at + Width + 3 * MaxPreempt
              /\ pulse[b] \in Edges
              /\ pulse[b].at <= pulse[b].tick + Err + MaxTardy
              /\ next_tick[b] = pulse[b].tick + Period
              /\ next_tick[b] - Err <= target[b]
          BY <1>1, <4>3, BoardNumbers DEF Polled, Paced
        <5>2. pulse[b].at \in Int /\ pulse[b].tick \in Int
          BY <5>1 DEF Edges
        <5> QED
          BY <1>1, <2>1, <5>1, <5>2, Numbers DEF KeepsUp
      <4> QED
        BY <4>2, <4>3
    <3>4. next_tick[b] <= e.tick
      BY <3>2, <3>3
    <3> QED
      BY <3>4 DEF e
  <2> QED
    BY <1>2, <2>1, <2>2, <2>3, SpinPolled
<1> QED
  BY <1>3, <1>4

LEMMA WakeUpPolled == ASSUME Inv, Polled, NEW b \in Boards, WakeUp(b) PROVE Polled'
<1> DEFINE u == (IF target[b] > now THEN target[b] ELSE now) + MaxPreempt
<1>1. now \in Int /\ target[b] \in Int /\ from[b] \in Int /\ next_tick[b] \in Int
  BY BoardNumbers
<1>2. pc[b] = "sleeping" /\ from[b] <= now /\ from[b] = target[b] - Slack
  BY <1>1 DEF WakeUp, InTime, Polled, Paced
<1>3. u \in Int /\ GoTo(b, "spinning", target[b], u)
  BY <1>1, Numbers DEF WakeUp
<1>4. ASSUME NEW p \in Ports, latch[b][p] # None PROVE next_tick[b] <= latch[b][p].tick
  <2>1. Pending(b, latch[b][p]) /\ latch[b][p] \in Edges
    BY <1>4, EdgeNumbers DEF Polled
  <2>2. latch[b][p].tick \in Int
    BY <2>1 DEF Edges
  <2> QED
    BY <1>1, <1>2, <2>1, <2>2 DEF Pending
<1> HIDE DEF u
<1> QED
  BY <1>2, <1>3, <1>4, SpinPolled DEF WakeUp

LEMMA CapturePolled == ASSUME Inv, Polled, NEW b \in Boards, Capture(b) PROVE Polled'
<1> DEFINE f == now + Width
           u == now + Width + MaxPreempt
<1>1. now \in Int /\ f \in Int /\ u \in Int /\ pc[b] = "high" /\ pulse[b] # None
  BY BoardNumbers, Numbers DEF Capture, InTime, Inv, BoardInv, InTurn
<1>2. GoTo(b, "pulsing", f, u) /\ "pulsing" \in Places /\ TypeOK
  BY DEF Capture, Inv, Places
<1>3. /\ now' = now /\ pulse' = pulse /\ latch' = latch
      /\ next_tick' = next_tick /\ target' = target
  BY DEF Capture
<1> HIDE DEF f, u
<1>4. pc'[b] = "pulsing"
  BY <1>1, <1>2, Goes
<1>5. Paced(b)'
  BY <1>3, <1>4 DEF Polled, Paced
<1>6. ASSUME NEW p \in Ports, latch[b][p] # None PROVE Pending(b, latch[b][p])'
  <2>1. Pending(b, latch[b][p])
    BY <1>6 DEF Polled
  <2> QED
    BY <1>1, <1>3, <1>4, <2>1 DEF Pending
<1> QED
  BY <1>1, <1>2, <1>3, <1>5, <1>6, PulserPolled

LEMMA ReleasePolled == ASSUME Inv, Polled, NEW b \in Boards, Release(b) PROVE Polled'
<1>1. now \in Int /\ pc[b] = "pulsing" /\ pulse[b] # None
  BY BoardNumbers DEF Release, InTime, Inv, BoardInv, InTurn
<1>2. GoTo(b, "asking", now, now) /\ "asking" \in Places /\ TypeOK
  BY DEF Release, Inv, Places
<1>3. /\ now' = now /\ pulse' = pulse /\ latch' = latch
      /\ next_tick' = next_tick /\ target' = target
  BY DEF Release
<1>4. pc'[b] = "asking" /\ by'[b] = now
  BY <1>1, <1>2, Goes
<1>5. Paced(b)'
  BY <1>1, <1>3, <1>4 DEF Polled, Paced
<1>6. ASSUME NEW p \in Ports, latch[b][p] # None PROVE Pending(b, latch[b][p])'
  <2>1. Pending(b, latch[b][p])
    BY <1>6 DEF Polled
  <2> QED
    BY <1>1, <1>3, <1>4, <2>1 DEF Pending
<1> QED
  BY <1>1, <1>2, <1>3, <1>5, <1>6, PulserPolled

LEMMA PollPolled == ASSUME Inv, Polled, NEW b \in Boards, Poll(b) PROVE Polled'
<1>1. /\ now' = now /\ pulse' = pulse /\ pc' = pc /\ from' = from /\ by' = by
      /\ next_tick' = next_tick /\ target' = target
  BY DEF Poll, pulserVars
<1>2. \A c \in Boards, p \in Ports : latch'[c][p] = latch[c][p] \/ latch'[c][p] = None
  BY DEF Poll, Inv, TypeOK
<1>3. ASSUME NEW c \in Boards PROVE Paced(c)'
  BY <1>1, StillPaced DEF Polled
<1>4. ASSUME NEW c \in Boards PROVE Wired(c)'
  <2>1. Wired(c) /\ "D34" \in Ports /\ "D5" \in Ports
    BY DEF Polled, Ports
  <2>2. latch'[c]["D34"] # None => latch'[c]["D34"] = pulse'[c]
    BY <1>1, <1>2, <2>1 DEF Wired
  <2>3. latch'[c]["D5"] # None => \E d \in Boards \ {c} : latch'[c]["D5"] = pulse'[d]
    BY <1>1, <1>2, <2>1 DEF Wired
  <2> QED
    BY <2>2, <2>3 DEF Wired
<1>5. ASSUME NEW c \in Boards, NEW p \in Ports, latch'[c][p] # None
      PROVE  Pending(c, latch[c][p])'
  <2>1. latch'[c][p] = latch[c][p]
    BY <1>2, <1>5
  <2>2. Pending(c, latch[c][p])
    BY <1>5, <2>1 DEF Polled
  <2> QED
    BY <1>1, <2>1, <2>2 DEF Pending
<1> QED
  BY <1>3, <1>4, <1>5 DEF Polled

\* Time does not run past the poll of an edge where the reporter is free, and where it is
\* not the pulser is done before the next tick.
LEMMA TickPolled == ASSUME KeepsUp, Inv, Polled, Tick PROVE Polled'
<1>1. /\ now' = now + 1 /\ pulse' = pulse /\ pc' = pc /\ from' = from /\ by' = by
      /\ next_tick' = next_tick /\ target' = target /\ latch' = latch
  BY DEF Tick, pulserVars
<1>2. ASSUME NEW b \in Boards PROVE now < by[b] /\ now \in Int /\ by[b] \in Int
  BY BoardNumbers DEF Tick
<1>3. ASSUME NEW b \in Boards PROVE Wired(b)'
  BY <1>1 DEF Polled, Wired
<1>4. ASSUME NEW b \in Boards PROVE Paced(b)'
  <2>1. Paced(b)
    BY DEF Polled
  <2>2. pulse[b] # None => pulse[b].at \in Int
    BY BoardNumbers DEF Edges
  <2>3. target[b] \in Int
    BY BoardNumbers
  <2> QED
    BY <1>1, <1>2, <2>1, <2>2, <2>3, Numbers DEF Paced
<1>5. ASSUME NEW b \in Boards, NEW p \in Ports, latch[b][p] # None
      PROVE  Pending(b, latch[b][p])'
  <2> DEFINE e == latch[b][p]
             t == now + 1
  <2>1. /\ Pending(b, e) /\ e \in Edges
        /\ e.tick - Err <= e.at /\ e.at <= e.tick + Err + MaxTardy
    BY <1>5, EdgeNumbers DEF Polled
  <2>2. e.tick \in Int /\ e.at \in Int /\ e.tick % Period = 0
    BY <2>1 DEF Edges, Pending
  <2>3. ExecutorFree(b) => now < e.at + MaxPoll
    BY <1>5 DEF Tick
  <2>4. e' = e
    BY <1>1
  <2> HIDE DEF e
  <2>5. t <= by[b] /\ t \in Int
    BY <1>2
  <2>6. pc[b] \in {"converging", "sleeping"} => t <= e.at + MaxPoll
    BY <1>2, <2>2, <2>3, Numbers DEF ExecutorFree
  <2>7. pc[b] # "asking"
    BY <1>2 DEF Polled, Paced
  <2>8. pc[b] = "sleeping" /\ e.tick < next_tick[b] => t < from[b]
    <3> SUFFICES ASSUME pc[b] = "sleeping", e.tick < next_tick[b] PROVE t < from[b]
      OBVIOUS
    <3>1. e.at + MaxPoll + MaxPreempt < target[b] - Slack
      BY <2>1, <2>2, EarlierEdge
    <3>2. from[b] = target[b] - Slack /\ target[b] \in Int
      BY BoardNumbers DEF Polled, Paced
    <3> QED
      BY <2>2, <2>5, <2>6, <3>1, <3>2, Numbers
  <2>9. t < e.tick + Period - Err
    <3>1. CASE pc[b] \in {"converging", "sleeping"}
      BY <2>1, <2>2, <2>5, <2>6, <3>1, Numbers DEF KeepsUp
    <3>2. CASE pc[b] = "planning" /\ pulse[b] = None
      <4>1. by[b] <= e.at + MaxPoll + MaxPreempt
        BY <2>1, <3>2 DEF Pending
      <4> QED
        BY <1>2, <2>1, <2>2, <2>5, <4>1, Numbers DEF KeepsUp
    <3>3. CASE pc[b] \in {"planning", "high", "pulsing"} /\ pulse[b] # None
      <4>1. /\ pulse[b] \in Edges /\ pulse[b].at <= pulse[b].tick + Err + MaxTardy
            /\ pulse[b].tick <= e.tick
        BY <2>1, <3>3, BoardNumbers DEF Pending
      <4>2. pulse[b].at \in Int /\ pulse[b].tick \in Int
        BY <4>1 DEF Edges
      <4>3. by[b] <= pulse[b].at + Width + 3 * MaxPreempt
        <5>1. CASE pc[b] = "planning"
          BY <3>3, <5>1 DEF Polled, Paced
        <5>2. CASE pc[b] = "high"
          <6>1. by[b] <= pulse[b].at + MaxPreempt
            BY <5>2 DEF Inv, BoardInv, InTurn
          <6> QED
            BY <1>2, <4>2, <6>1, Numbers
        <5>3. CASE pc[b] = "pulsing"
          <6>1. by[b] <= pulse[b].at + Width + 2 * MaxPreempt
            BY <5>3 DEF Inv, BoardInv, InTurn
          <6> QED
            BY <1>2, <4>2, <6>1, Numbers
        <5> QED
          BY <3>3, <5>1, <5>2, <5>3
      <4> QED
        BY <1>2, <2>2, <2>5, <4>1, <4>2, <4>3, Numbers DEF KeepsUp
    <3>4. CASE pc[b] = "spinning"
      <4>1. /\ target[b] \in Int /\ next_tick[b] \in Int /\ target[b] <= next_tick[b] + Err
            /\ next_tick[b] <= e.tick
        BY <2>1, <3>4, BoardNumbers DEF Pending
      <4>2. by[b] <= target[b] + MaxTardy
        BY <3>4 DEF Inv, BoardInv, Aimed
      <4> QED
        BY <1>2, <2>2, <2>5, <4>1, <4>2, Numbers DEF KeepsUp
    <3>5. pc[b] \in {"high", "pulsing"} => pulse[b] # None
      BY DEF Inv, BoardInv, InTurn
    <3>6. pc[b] \in Places
      BY BoardNumbers
    <3> QED
      BY <2>7, <3>1, <3>2, <3>3, <3>4, <3>5, <3>6 DEF Places
  <2>10. Pending(b, e)'
    BY <1>1, <2>1, <2>4, <2>6, <2>7, <2>8, <2>9 DEF Pending
  <2> QED
    BY <2>10 DEF e
<1>6. ASSUME NEW b \in Boards, NEW p \in Ports, latch'[b][p] # None
      PROVE  Pending(b, latch[b][p])'
  BY <1>1, <1>5, <1>6
<1> QED
  BY <1>3, <1>4, <1>6 DEF Polled

\* An edge that is raised now is not behind what the boards are doing.
LEMMA NewEdge ==
  ASSUME KeepsUp, Inv, Polled, NEW c \in Boards, NEW e \in Edges, e.tick % Period = 0,
         e.at = now, e.tick - Err <= now, now <= e.tick + Err + MaxTardy
  PROVE  Pending(c, e)
<1>1. e.tick \in Int /\ now \in Int /\ by[c] \in Int /\ Paced(c)
  BY BoardNumbers DEF Edges, Polled
<1>2. now < e.tick + Period - Err
  BY <1>1, Numbers DEF KeepsUp
<1>3. /\ pc[c] = "converging" => now <= e.at + MaxPoll
      /\ pc[c] = "asking" => by[c] <= e.at + MaxPoll
      /\ pc[c] = "planning" => by[c] <= e.at + MaxPoll + MaxPreempt
  BY <1>1, Numbers DEF Paced
<1>4. pulse[c] # None => pulse[c].tick <= e.tick
  <2> SUFFICES ASSUME pulse[c] # None, ~ (pulse[c].tick <= e.tick) PROVE FALSE
    OBVIOUS
  <2>1. /\ pulse[c] \in Edges /\ pulse[c].tick % Period = 0
        /\ pulse[c].tick - Err <= pulse[c].at /\ pulse[c].at <= now
    BY <1>1, BoardNumbers DEF Paced
  <2>2. pulse[c].tick \in Int /\ pulse[c].at \in Int
    BY <2>1 DEF Edges
  <2>3. e.tick < pulse[c].tick
    BY <1>1, <2>2
  <2>4. e.tick + Period <= pulse[c].tick
    BY <1>1, <2>1, <2>2, <2>3, TicksApart
  <2> QED
    BY <1>1, <2>1, <2>2, <2>4, Numbers DEF KeepsUp
<1>5. ASSUME pc[c] \in {"sleeping", "spinning"}, e.tick < next_tick[c]
      PROVE  now < target[c] - Slack
  <2>1. e.at + MaxPoll + MaxPreempt < target[c] - Slack /\ target[c] \in Int
    BY <1>5, EarlierEdge, BoardNumbers
  <2> QED
    BY <1>1, <2>1, Numbers
<1>6. pc[c] = "sleeping" /\ e.tick < next_tick[c] => now < from[c]
  BY <1>1, <1>5 DEF Paced
<1>7. pc[c] = "spinning" => next_tick[c] <= e.tick
  <2>1. next_tick[c] \in Int /\ target[c] \in Int
    BY BoardNumbers
  <2> QED
    BY <1>1, <1>5, <2>1, Numbers DEF Paced
<1> QED
  BY <1>2, <1>3, <1>4, <1>6, <1>7 DEF Pending

LEMMA EdgePolled == ASSUME KeepsUp, Inv, Polled, NEW b \in Boards, Edge(b) PROVE Polled'
<1> DEFINE e == [tick |-> next_tick[b], at |-> now]
<1>1. /\ pc[b] = "spinning" /\ target[b] <= now /\ now <= target[b] + MaxTardy
      /\ now \in Nat /\ next_tick[b] \in Nat /\ next_tick[b] % Period = 0
      /\ next_tick[b] - Err <= target[b] /\ target[b] <= next_tick[b] + Err
      /\ target[b] \in Int
  <2>1. pc[b] = "spinning" /\ from[b] <= now /\ now \in Nat /\ next_tick[b] \in Nat
    BY DEF Edge, InTime, Inv, TypeOK
  <2>2. from[b] = target[b] /\ by[b] <= target[b] + MaxTardy
    BY <2>1 DEF Inv, BoardInv, Aimed
  <2> QED
    BY <2>1, <2>2, BoardNumbers, Numbers
<1>2. e \in Edges /\ e # None /\ e.tick % Period = 0 /\ e.at = now
      /\ e.tick - Err <= now /\ now <= e.tick + Err + MaxTardy
  <2>1. e \in Edges
    BY <1>1 DEF Edges
  <2>2. e # None
    BY <2>1, PulserAssumption DEF Edges
  <2>3. next_tick[b] - Err <= now /\ now <= next_tick[b] + Err + MaxTardy
    BY <1>1, Numbers
  <2> QED
    BY <1>1, <2>1, <2>2, <2>3
<1>3. pulse'[b] = e /\ \A c \in Boards \ {b} : pulse'[c] = pulse[c]
  BY DEF Edge, Inv, TypeOK
<1>4. GoTo(b, "high", now, now + MaxPreempt) /\ now + MaxPreempt \in Int /\ TypeOK
      /\ "high" \in Places /\ now \in Int
  BY <1>1, Numbers DEF Edge, Inv, Places
<1>5. pc'[b] = "high" /\ now' = now /\ next_tick' = next_tick
      /\ \A c \in Boards \ {b} : /\ pc'[c] = pc[c] /\ from'[c] = from[c] /\ by'[c] = by[c]
                                 /\ target'[c] = target[c]
  <2>1. pc'[b] = "high" /\ \A c \in Boards \ {b} : pc'[c] = pc[c] /\ from'[c] = from[c]
                                                   /\ by'[c] = by[c]
    BY <1>4, Goes
  <2>2. now' = now /\ next_tick' = next_tick /\ \A c \in Boards \ {b} : target'[c] = target[c]
    BY <1>4 DEF Edge, TypeOK
  <2> QED
    BY <2>1, <2>2
<1>6. /\ latch'[b]["D34"] = e /\ latch'[b]["D5"] = latch[b]["D5"]
      /\ \A c \in Boards \ {b} : /\ latch'[c]["D5"] = e
                                 /\ latch'[c]["D34"] = latch[c]["D34"]
  <2>1. latch' = [c \in Boards |-> [latch[c] EXCEPT ![IF c = b THEN "D34" ELSE "D5"] = e]]
    BY <1>3 DEF Edge
  <2>2. latch \in [Boards -> [Ports -> Edges \cup {None}]]
    BY DEF Inv, TypeOK, Edges
  <2> HIDE DEF e
  <2> QED
    BY <2>1, <2>2 DEF Ports
<1> HIDE DEF e
<1>7. ASSUME NEW c \in Boards PROVE Paced(c)'
  <2>1. CASE c = b
    BY <1>2, <1>3, <1>4, <1>5, <2>1 DEF Paced
  <2>2. CASE c # b
    BY <1>3, <1>5, <2>2, StillPaced DEF Polled
  <2> QED
    BY <2>1, <2>2
<1>8. ASSUME NEW c \in Boards PROVE Wired(c)'
  <2>1. Wired(c)
    BY DEF Polled
  <2>2. CASE c = b
    BY <1>3, <1>6, <2>1, <2>2 DEF Wired
  <2>3. CASE c # b
    BY <1>3, <1>6, <2>1, <2>3 DEF Wired
  <2> QED
    BY <2>2, <2>3
<1>9. ASSUME NEW c \in Boards, NEW p \in Ports, latch'[c][p] # None
      PROVE  Pending(c, latch[c][p])'
  <2> DEFINE d == latch'[c][p]
  <2>1. d = e \/ d = latch[c][p]
    BY <1>6 DEF Ports
  <2> HIDE DEF d
  <2>2. CASE d = e
    <3>1. CASE c = b
      <4>1. now < e.tick + Period - Err
        <5>1. e.tick \in Int
          BY <1>2 DEF Edges
        <5> QED
          BY <1>1, <1>2, <5>1, Numbers DEF KeepsUp
      <4>2. pulse'[b].tick <= e.tick
        BY <1>2, <1>3 DEF Edges
      <4> QED
        BY <1>2, <1>3, <1>5, <2>2, <3>1, <4>1, <4>2 DEF Pending, d
    <3>2. CASE c # b
      <4>1. Pending(c, e)
        BY <1>2, NewEdge
      <4> QED
        BY <1>3, <1>5, <2>2, <3>2, <4>1 DEF Pending, d
    <3> QED
      BY <3>1, <3>2
  <2>3. CASE d = latch[c][p]
    <3>1. Pending(c, d)
      BY <1>9, <2>3 DEF Polled, d
    <3>2. CASE c = b
      <4>1. pulse'[b].tick <= d.tick
        <5>1. next_tick[b] <= d.tick
          BY <1>1, <3>1, <3>2 DEF Pending
        <5>2. e.tick = next_tick[b]
          BY DEF e
        <5> QED
          BY <1>3, <5>1, <5>2
      <4> QED
        BY <1>2, <1>3, <1>5, <3>1, <3>2, <4>1 DEF Pending, d
    <3>3. CASE c # b
      BY <1>3, <1>5, <3>1, <3>3 DEF Pending, d
    <3> QED
      BY <3>2, <3>3
  <2> QED
    BY <2>1, <2>2, <2>3
<1> QED
  BY <1>7, <1>8, <1>9 DEF Polled

LEMMA PolledAlways ==
  ASSUME KeepsUp
  PROVE  Spec => [](Inv /\ Polled)
<1>1. Inv /\ Polled /\ [Next]_vars => Polled'
  <2> SUFFICES ASSUME Inv, Polled, [Next]_vars PROVE Polled'
    OBVIOUS
  <2>1. CASE UNCHANGED vars
    BY <2>1 DEF vars, clientVars, pulserVars, Polled, Paced, Wired, Pending
  <2>2. CASE Tick
    BY <2>2, TickPolled
  <2>3. ASSUME NEW b \in Boards, Beacon(b) PROVE Polled'
    BY <2>3 DEF Beacon, pulserVars, Polled, Paced, Wired, Pending
  <2>4. ASSUME NEW b \in Boards, pulser(b) \/ Poll(b) PROVE Polled'
    BY <2>4, BeginPolled, AskPolled, PlanPolled, WakeUpPolled, EdgePolled, CapturePolled,
       ReleasePolled, PollPolled DEF pulser
  <2> QED
    BY <2>1, <2>2, <2>3, <2>4 DEF Next, Done
<1> QED
  BY <1>1, InitPolled, Inductive, PTL DEF Spec

\* D14 of every board is wired to D5 of the other.
TwoBoards == \A a, b, c \in Boards : a # c /\ b # c => a = b

\* NoEdgeLost: an edge is polled before the next one is latched over it, on the board that
\* raises it and on the other one, however long pulsers keep their executors busy, if the
\* period has room for what they do between two waits.
THEOREM EdgesPolledInTime ==
  ASSUME KeepsUp, TwoBoards
  PROVE  Spec => NoEdgeLost
<1>1. Inv /\ Polled /\ [Next]_vars =>
        [\A b \in Boards, p \in Ports :
           latch'[b][p] # latch[b][p] /\ latch[b][p] # None => latch'[b][p] = None]_vars
  <2> SUFFICES ASSUME Inv, Polled, Next, NEW c \in Boards, NEW p \in Ports,
                      latch'[c][p] # latch[c][p], latch[c][p] # None
               PROVE  latch'[c][p] = None
    OBVIOUS
  <2>1. CASE \E b \in Boards : Poll(b)
    BY <2>1 DEF Poll, Inv, TypeOK
  <2>2. ASSUME NEW b \in Boards, Edge(b) PROVE FALSE
    <3> DEFINE e == latch[c][p]
    <3>1. e = pulse[b]
      <4>1. latch' = [d \in Boards |->
                        [latch[d] EXCEPT ![IF d = b THEN "D34" ELSE "D5"] = pulse'[b]]]
        BY <2>2 DEF Edge
      <4>2. latch \in [Boards -> [Ports -> Edges \cup {None}]] /\ Wired(c)
        BY DEF Inv, TypeOK, Edges, Polled
      <4>3. (c = b /\ p = "D34") \/ (c # b /\ p = "D5")
        BY <4>1, <4>2 DEF Ports
      <4> QED
        BY <4>2, <4>3 DEF Wired, TwoBoards
    <3>2. Pending(c, e) /\ e \in Edges /\ e # None
      BY EdgeNumbers DEF Polled
    <3> HIDE DEF e
    <3>3. pc[b] = "spinning" /\ from[b] <= now /\ from[b] = target[b]
      BY <2>2 DEF Edge, InTime, Inv, BoardInv, Aimed
    <3>4. /\ next_tick[b] = e.tick + Period /\ next_tick[b] - Err <= target[b]
          /\ target[b] \in Int /\ now \in Int
      BY <3>1, <3>2, <3>3, BoardNumbers
    <3>5. e.tick \in Int /\ now < e.tick + Period - Err
      BY <3>2 DEF Pending, Edges
    <3> QED
      BY <3>3, <3>4, <3>5, Numbers
  <2>3. CASE latch' = latch
    BY <2>3
  <2> QED
    BY <2>1, <2>2, <2>3 DEF Next, Tick, Done, vars, Beacon, pulser, Begin, Ask, Plan, WakeUp,
                            Capture, Release
<1> QED
  BY <1>1, PolledAlways, PTL DEF Spec, NoEdgeLost

-----------------------------------------------------------------------------
(* The programs' common start: what Firmware and Station promise, for every  *)
(* set of access points and letters, and any number of prompts.              *)

\* The backspaces and the letters among the bytes after the i-th, up to the j-th.
Backspaces(s, i, j) == {k \in i+1..j : s[k] = "BS"}
Typed(s, i, j) == {k \in i+1..j : s[k] \in Letters}

\* Places of the letters of s that no backspace takes back.
Kept(s) ==
  {i \in 1..Len(s) :
     /\ s[i] \in Letters
     /\ \A j \in i+1..Len(s) :
          Cardinality(Backspaces(s, i, j)) <= Cardinality(Typed(s, i, j))}

KeptAfter(s, i) == {k \in Kept(s) : k > i}

\* Of what was typed after a letter that is kept, as many letters are kept as were typed more than
\* there are backspaces.
Stacked(s) ==
  \A i \in Kept(s) :
    Cardinality(Typed(s, i, Len(s)))
      = Cardinality(Backspaces(s, i, Len(s))) + Cardinality(KeptAfter(s, i))

Leaves(s, out) ==
  /\ out \in Seq(Letters)
  /\ Len(out) = Cardinality(Kept(s))
  /\ \A i \in Kept(s) : out[Cardinality({j \in Kept(s) : j <= i})] = s[i]

Bytes == Letters \cup {"CR", "BS"}

LEMMA NoLetter == "CR" \notin Letters /\ "BS" \notin Letters
  BY FirmwareAssumption DEF FirmwareAssumption

\* Sets of places are finite.
LEMMA PlacesFinite ==
  ASSUME NEW n \in Nat, NEW S, S \subseteq 1..n
  PROVE  IsFiniteSet(S) /\ Cardinality(S) \in Nat /\ (S = {} <=> Cardinality(S) = 0)
<1>1. IsFiniteSet(1..n)
  BY FS_Interval
<1>2. IsFiniteSet(S)
  BY <1>1, FS_Subset
<1> QED
  BY <1>2, FS_CardinalityType, FS_EmptySet

LEMMA AppendedByte ==
  ASSUME NEW s \in Seq(Bytes), NEW b \in Bytes
  PROVE  LET n == Len(s)
             u == Append(s, b)
         IN  /\ n \in Nat /\ u \in Seq(Bytes) /\ Len(u) = n + 1
             /\ u[n + 1] = b
             /\ \A k \in 1..n : u[k] = s[k]
  BY AppendProperties, LenProperties

\* What one more byte adds to the backspaces and letters after a place.
LEMMA OneMoreTyped ==
  ASSUME NEW s \in Seq(Bytes), NEW b \in Bytes, NEW i \in 1..Len(s)
  PROVE  LET n == Len(s)
             u == Append(s, b)
         IN  /\ \A j \in i+1..n : /\ Backspaces(u, i, j) = Backspaces(s, i, j)
                                  /\ Typed(u, i, j) = Typed(s, i, j)
             /\ Cardinality(Backspaces(s, i, n)) \in Nat
             /\ Cardinality(Typed(s, i, n)) \in Nat
             /\ Cardinality(Backspaces(u, i, n + 1))
                  = Cardinality(Backspaces(s, i, n)) + (IF b = "BS" THEN 1 ELSE 0)
             /\ Cardinality(Typed(u, i, n + 1))
                  = Cardinality(Typed(s, i, n)) + (IF b \in Letters THEN 1 ELSE 0)
<1> DEFINE n == Len(s)
           u == Append(s, b)
           B == Backspaces(s, i, n)
           L == Typed(s, i, n)
<1>1. n \in Nat /\ i \in Nat /\ u[n + 1] = b /\ \A k \in 1..n : u[k] = s[k]
  BY AppendedByte, LenProperties
<1> HIDE DEF n, u
<1>2. ASSUME NEW j \in i+1..n
      PROVE  Backspaces(u, i, j) = Backspaces(s, i, j) /\ Typed(u, i, j) = Typed(s, i, j)
  <2>1. \A k \in i+1..j : k \in 1..n
    BY <1>1
  <2> QED
    BY <1>1, <2>1 DEF Backspaces, Typed
<1>3. B \subseteq 1..n /\ L \subseteq 1..n
  BY <1>1 DEF Backspaces, Typed
<1>4. IsFiniteSet(B) /\ Cardinality(B) \in Nat /\ IsFiniteSet(L) /\ Cardinality(L) \in Nat
  BY <1>1, <1>3, PlacesFinite
<1>5. n + 1 \notin B /\ n + 1 \notin L
  BY <1>1, <1>3
<1>6. i+1..n + 1 = (i+1..n) \cup {n + 1} /\ \A k \in i+1..n : k \in 1..n
  BY <1>1, i <= n DEF n
<1>7. /\ Backspaces(u, i, n + 1) = IF b = "BS" THEN B \cup {n + 1} ELSE B
      /\ Typed(u, i, n + 1) = IF b \in Letters THEN L \cup {n + 1} ELSE L
  BY <1>1, <1>6 DEF Backspaces, Typed
<1> HIDE DEF B, L
<1>8. /\ Cardinality(B \cup {n + 1}) = Cardinality(B) + 1
      /\ Cardinality(L \cup {n + 1}) = Cardinality(L) + 1
  BY <1>4, <1>5, FS_AddElement
<1>9. /\ Cardinality(Backspaces(u, i, n + 1)) = Cardinality(B) + (IF b = "BS" THEN 1 ELSE 0)
      /\ Cardinality(Typed(u, i, n + 1)) = Cardinality(L) + (IF b \in Letters THEN 1 ELSE 0)
  BY <1>4, <1>7, <1>8
<1> QED
  BY <1>2, <1>4, <1>9 DEF n, u, B, L

\* Which places are kept after one more byte: those that were and, if it is a backspace, are
\* not the last one; and its own, if it is a letter.
LEMMA KeptWithOneMore ==
  ASSUME NEW s \in Seq(Bytes), NEW b \in Bytes, Stacked(s)
  PROVE  LET n == Len(s)
             u == Append(s, b)
         IN  /\ b \in Letters => Kept(u) = Kept(s) \cup {n + 1}
             /\ b = "CR" => Kept(u) = Kept(s)
             /\ b = "BS" => Kept(u) = {i \in Kept(s) : KeptAfter(s, i) # {}}
<1> DEFINE n == Len(s)
           u == Append(s, b)
           G(i) == Cardinality(Typed(s, i, n))
           T(i) == Cardinality(Backspaces(s, i, n))
           A(i) == Cardinality(KeptAfter(s, i))
           g == IF b \in Letters THEN 1 ELSE 0
           t == IF b = "BS" THEN 1 ELSE 0
<1>1. n \in Nat /\ Len(u) = n + 1 /\ u[n + 1] = b /\ \A k \in 1..n : u[k] = s[k]
  BY AppendedByte
<1>2. ASSUME NEW i \in 1..n
      PROVE  i \in Kept(u) <=> i \in Kept(s) /\ T(i) + t <= G(i) + g
  <2>1. /\ \A j \in i+1..n : /\ Backspaces(u, i, j) = Backspaces(s, i, j)
                             /\ Typed(u, i, j) = Typed(s, i, j)
        /\ Cardinality(Backspaces(u, i, n + 1)) = T(i) + t
        /\ Cardinality(Typed(u, i, n + 1)) = G(i) + g
    BY OneMoreTyped
  <2>2. i+1..n + 1 = (i+1..n) \cup {n + 1}
    BY <1>1
  <2> HIDE DEF n, u, G, T, g, t
  <2>3. i \in Kept(u)
          <=> /\ u[i] \in Letters
              /\ \A j \in i+1..n + 1 :
                   Cardinality(Backspaces(u, i, j)) <= Cardinality(Typed(u, i, j))
    BY <1>1, i \in 1..n + 1 DEF Kept
  <2>4. i \in Kept(s)
          <=> /\ s[i] \in Letters
              /\ \A j \in i+1..n :
                   Cardinality(Backspaces(s, i, j)) <= Cardinality(Typed(s, i, j))
    BY DEF Kept, n
  <2> QED
    BY <1>1, <2>1, <2>2, <2>3, <2>4
<1>3. n + 1 \in Kept(u) <=> b \in Letters
  <2> HIDE DEF n, u
  <2>1. n + 1 + 1..n + 1 = {} /\ n + 1 \in 1..n + 1
    BY <1>1
  <2> QED
    BY <1>1, <2>1 DEF Kept
<1>4. Kept(u) \subseteq 1..n + 1 /\ Kept(s) \subseteq 1..n
  BY <1>1 DEF Kept
<1>5. ASSUME NEW i \in Kept(s)
      PROVE  G(i) = T(i) + A(i) /\ T(i) \in Nat /\ A(i) \in Nat
             /\ (A(i) = 0 <=> KeptAfter(s, i) = {})
  <2>1. T(i) \in Nat
    BY <1>4, OneMoreTyped
  <2>2. A(i) \in Nat /\ (A(i) = 0 <=> KeptAfter(s, i) = {})
    BY <1>1, <1>4, PlacesFinite DEF KeptAfter
  <2> QED
    BY <2>1, <2>2 DEF Stacked
<1> HIDE DEF n, u, G, T, A
<1>6. CASE b \in Letters
  <2>1. g = 1 /\ t = 0
    BY <1>6, NoLetter
  <2>2. \A i \in 1..n : i \in Kept(u) <=> i \in Kept(s)
    BY <1>2, <1>5, <2>1
  <2> QED
    BY <1>1, <1>3, <1>4, <1>6, <2>2, NoLetter DEF n, u
<1>7. CASE b = "CR"
  <2>1. g = 0 /\ t = 0 /\ b \notin Letters /\ b # "BS"
    BY <1>7, NoLetter
  <2>2. \A i \in 1..n : i \in Kept(u) <=> i \in Kept(s)
    BY <1>2, <1>5, <2>1
  <2>3. n + 1 \notin Kept(u)
    BY <1>3, <2>1
  <2>4. Kept(u) \subseteq 1..n
    BY <1>1, <1>4, <2>3
  <2>5. Kept(u) = Kept(s)
    BY <1>4, <2>2, <2>4
  <2> QED
    BY <2>1, <2>5 DEF n, u
<1>8. CASE b = "BS"
  <2>1. g = 0 /\ t = 1 /\ b \notin Letters /\ b # "CR"
    BY <1>8, NoLetter
  <2>2. \A i \in 1..n : i \in Kept(u) <=> i \in Kept(s) /\ KeptAfter(s, i) # {}
    BY <1>2, <1>5, <2>1
  <2> QED
    BY <1>1, <1>3, <1>4, <1>8, <2>1, <2>2 DEF n, u
<1> QED
  BY <1>6, <1>7, <1>8 DEF Bytes

\* The last place that is kept.
LEMMA LastKept ==
  ASSUME NEW n \in Nat, NEW K, K \subseteq 1..n, K # {}
  PROVE  \E m \in K : \A k \in K : k <= m
<1> DEFINE S == {n - k : k \in K}
<1>1. S \subseteq Nat /\ S # {}
  <2>1. \A k \in K : n - k \in Nat
    OBVIOUS
  <2> QED
    BY <2>1
<1>2. PICK d \in S : \A e \in S : d <= e
  BY <1>1, LeastElement
<1>3. PICK m \in K : d = n - m
  OBVIOUS
<1>4. \A k \in K : n - m <= n - k
  BY <1>2, <1>3
<1> QED
  BY <1>4

\* Every byte keeps the letters that are kept in line with those there are after each, and
\* does to the line what it does to them.
LEMMA EditedAsKept ==
  ASSUME NEW s \in Seq(Bytes), NEW b \in Bytes, NEW out,
         Stacked(s), Leaves(s, out)
  PROVE  Stacked(Append(s, b)) /\ Leaves(Append(s, b), Edited(out, b))
<1> DEFINE n == Len(s)
           u == Append(s, b)
           K == Kept(s)
           new == Edited(out, b)
           Rank(S, i) == Cardinality({j \in S : j <= i})
<1>1. n \in Nat /\ Len(u) = n + 1 /\ u[n + 1] = b /\ \A k \in 1..n : u[k] = s[k]
  BY AppendedByte
<1>2. K \subseteq 1..n /\ IsFiniteSet(K) /\ Cardinality(K) \in Nat
  <2>1. K \subseteq 1..n
    BY DEF Kept
  <2> QED
    BY <1>1, <2>1, PlacesFinite
<1>3. /\ out \in Seq(Letters) /\ Len(out) = Cardinality(K)
      /\ \A i \in K : out[Rank(K, i)] = s[i]
  BY DEF Leaves
<1>4. /\ b \in Letters => Kept(u) = K \cup {n + 1}
      /\ b = "CR" => Kept(u) = K
      /\ b = "BS" => Kept(u) = {i \in K : KeptAfter(s, i) # {}}
  BY KeptWithOneMore
<1>5. ASSUME NEW i \in 1..n
      PROVE  /\ Cardinality(Backspaces(s, i, n)) \in Nat
             /\ Cardinality(Typed(s, i, n)) \in Nat
             /\ Cardinality(Backspaces(u, i, n + 1))
                  = Cardinality(Backspaces(s, i, n)) + (IF b = "BS" THEN 1 ELSE 0)
             /\ Cardinality(Typed(u, i, n + 1))
                  = Cardinality(Typed(s, i, n)) + (IF b \in Letters THEN 1 ELSE 0)
  BY OneMoreTyped
<1>6. ASSUME NEW i \in K
      PROVE  /\ Cardinality(Typed(s, i, n))
                  = Cardinality(Backspaces(s, i, n)) + Cardinality(KeptAfter(s, i))
             /\ IsFiniteSet(KeptAfter(s, i)) /\ Cardinality(KeptAfter(s, i)) \in Nat
  BY <1>1, <1>2, PlacesFinite DEF Stacked, KeptAfter
<1>7. ASSUME NEW i \in K
      PROVE  Rank(K, i) \in 1..Cardinality(K)
  <2> DEFINE R == {j \in K : j <= i}
  <2>1. IsFiniteSet(R) /\ Cardinality(R) \in Nat /\ Cardinality(R) <= Cardinality(K)
    BY <1>1, <1>2, PlacesFinite, FS_Subset
  <2>2. R # {}
    BY <1>2
  <2>3. Cardinality(R) # 0
    BY <2>1, <2>2, FS_EmptySet
  <2> HIDE DEF R
  <2> QED
    BY <1>2, <2>1, <2>3 DEF R
<1> HIDE DEF n, u, K, new
<1>8. CASE b \in Letters
  <2>1. b # "CR" /\ b # "BS" /\ Kept(u) = K \cup {n + 1}
    BY <1>4, <1>8, NoLetter
  <2>2. new = Append(out, b)
    BY <2>1 DEF new, Edited
  <2>3. n + 1 \notin K
    BY <1>1, <1>2
  <2>4. Cardinality(Kept(u)) = Cardinality(K) + 1
    BY <1>2, <2>1, <2>3, FS_AddElement
  <2>10. ASSUME NEW j \in Kept(u) PROVE j \in Nat /\ j <= n + 1
    <3>1. CASE j \in K
      BY <1>1, <1>2, <3>1
    <3>2. CASE j = n + 1
      BY <1>1, <3>2
    <3> QED
      BY <2>1, <3>1, <3>2
  <2>5. ASSUME NEW i \in K PROVE KeptAfter(u, i) = KeptAfter(s, i) \cup {n + 1}
    BY <1>1, <1>2, <2>1 DEF KeptAfter, K
  <2>6. ASSUME NEW i \in K PROVE Cardinality(KeptAfter(u, i)) = Cardinality(KeptAfter(s, i)) + 1
    <3>1. n + 1 \notin KeptAfter(s, i)
      BY <2>3 DEF KeptAfter, K
    <3> QED
      BY <1>6, <2>5, <3>1, FS_AddElement
  <2>7. Stacked(u)
    <3> SUFFICES ASSUME NEW i \in Kept(u)
                 PROVE  Cardinality(Typed(u, i, n + 1))
                          = Cardinality(Backspaces(u, i, n + 1)) + Cardinality(KeptAfter(u, i))
      BY <1>1 DEF Stacked
    <3>1. CASE i \in K
      BY <1>2, <1>5, <1>6, <1>8, <2>1, <2>6, <3>1
    <3>2. CASE i = n + 1
      <4>1. n + 1 + 1..n + 1 = {}
        BY <1>1
      <4>2. Typed(u, i, n + 1) = {} /\ Backspaces(u, i, n + 1) = {}
        BY <3>2, <4>1 DEF Typed, Backspaces
      <4>4. KeptAfter(u, i) = {}
        <5> SUFFICES ASSUME NEW j \in Kept(u), j > n + 1 PROVE FALSE
          BY <3>2 DEF KeptAfter
        <5> QED
          BY <1>1, <2>10
      <4>5. Cardinality(Typed(u, i, n + 1)) = 0 /\ Cardinality(Backspaces(u, i, n + 1)) = 0
        BY <4>2, FS_EmptySet
      <4>6. Cardinality(KeptAfter(u, i)) = 0
        BY <4>4, FS_EmptySet
      <4> QED
        BY <4>5, <4>6
    <3> QED
      BY <2>1, <3>1, <3>2
  <2>8. new \in Seq(Letters) /\ Len(new) = Cardinality(K) + 1
        /\ new[Cardinality(K) + 1] = b
        /\ \A k \in 1..Cardinality(K) : new[k] = out[k]
    BY <1>3, <1>8, <2>2, AppendProperties
  <2>9. ASSUME NEW i \in Kept(u) PROVE new[Rank(Kept(u), i)] = u[i]
    <3>1. CASE i \in K
      <4>1. {j \in Kept(u) : j <= i} = {j \in K : j <= i}
        BY <1>1, <1>2, <2>1, <3>1
      <4> QED
        BY <1>1, <1>2, <1>3, <1>7, <2>8, <3>1, <4>1
    <3>2. CASE i = n + 1
      <4>2. {j \in Kept(u) : j <= i} = Kept(u)
        BY <2>10, <3>2
      <4> QED
        BY <1>1, <2>4, <2>8, <3>2, <4>2
    <3> QED
      BY <2>1, <3>1, <3>2
  <2> QED
    BY <2>4, <2>7, <2>8, <2>9 DEF Leaves, u, new
<1>9. CASE b = "CR"
  <2>1. b # "BS" /\ b \notin Letters /\ Kept(u) = K
    BY <1>4, <1>9, NoLetter
  <2>2. new = out
    BY <1>9 DEF new, Edited
  <2>3. \A i \in K : KeptAfter(u, i) = KeptAfter(s, i)
    BY <2>1 DEF KeptAfter, K
  <2>4. Stacked(u)
    <3> SUFFICES ASSUME NEW i \in K
                 PROVE  Cardinality(Typed(u, i, n + 1))
                          = Cardinality(Backspaces(u, i, n + 1)) + Cardinality(KeptAfter(u, i))
      BY <1>1, <2>1 DEF Stacked
    <3> QED
      BY <1>2, <1>5, <1>6, <2>1, <2>3
  <2> QED
    BY <1>1, <1>2, <1>3, <2>1, <2>2, <2>4 DEF Leaves, u, new
<1>10. CASE b = "BS"
  <2>1. b # "CR" /\ b \notin Letters /\ Kept(u) = {i \in K : KeptAfter(s, i) # {}}
    BY <1>4, <1>10, NoLetter
  <2>2. CASE K = {}
    <3>1. Kept(u) = {} /\ Cardinality(K) = 0
      BY <2>1, <2>2, FS_EmptySet
    <3>2. out = <<>>
      BY <1>3, <3>1, EmptySeq
    <3>3. new = out
      BY <1>10, <2>1, <3>2 DEF new, Edited
    <3> QED
      BY <1>3, <2>2, <3>1, <3>3 DEF Stacked, Leaves, u, new
  <2>3. CASE K # {}
    <3>1. PICK m \in K : \A k \in K : k <= m
      BY <1>1, <1>2, <2>3, LastKept
    <3>2. ASSUME NEW i \in K PROVE KeptAfter(s, i) = {} <=> i = m
      BY <1>2, <3>1 DEF KeptAfter, K
    <3>3. Kept(u) = K \ {m}
      BY <2>1, <3>2
    <3>4. Cardinality(Kept(u)) = Cardinality(K) - 1 /\ Cardinality(K) \in Nat \ {0}
      <4>1. Cardinality(K) # 0
        BY <1>2, <2>3, FS_EmptySet
      <4> QED
        BY <1>2, <3>3, <4>1, FS_RemoveElement
    <3>5. ASSUME NEW i \in K \ {m}
          PROVE  Cardinality(KeptAfter(u, i)) = Cardinality(KeptAfter(s, i)) - 1
      <4>1. m \in KeptAfter(s, i)
        BY <1>2, <3>1 DEF KeptAfter, K
      <4>2. KeptAfter(u, i) = KeptAfter(s, i) \ {m}
        BY <3>3 DEF KeptAfter, K
      <4>3. IsFiniteSet(KeptAfter(s, i)) /\ Cardinality(KeptAfter(s, i)) \in Nat
        BY <1>6
      <4>4. Cardinality(KeptAfter(s, i) \ {m}) = Cardinality(KeptAfter(s, i)) - 1
        BY <4>1, <4>3, FS_RemoveElement
      <4> QED
        BY <4>2, <4>4
    <3>6. Stacked(u)
      <4> SUFFICES ASSUME NEW i \in K \ {m}
                   PROVE  Cardinality(Typed(u, i, n + 1))
                            = Cardinality(Backspaces(u, i, n + 1)) + Cardinality(KeptAfter(u, i))
        BY <1>1, <3>3 DEF Stacked
      <4> QED
        BY <1>2, <1>5, <1>6, <1>10, <2>1, <3>5
    <3>7. out # <<>> /\ Len(out) = Cardinality(K)
      BY <1>3, <3>4, EmptySeq
    <3>8. new = SubSeq(out, 1, Len(out) - 1)
      BY <1>10, <2>1, <3>7 DEF new, Edited
    <3>9. /\ new \in Seq(Letters) /\ Len(new) = Cardinality(K) - 1
          /\ \A k \in 1..Cardinality(K) - 1 : new[k] = out[k]
      <4> DEFINE c == Cardinality(K) - 1
      <4>1. c \in Nat /\ 1 \in Int /\ c \in Int /\ Len(out) - 1 = c
        BY <3>4, <3>7
      <4>2. \A k \in 1..c : out[k] \in Letters
        <5>1. \A k \in 1..c : k \in 1..Len(out)
          BY <3>4, <3>7
        <5> QED
          BY <1>3, <5>1, ElementOfSeq
      <4> HIDE DEF c
      <4>3. /\ SubSeq(out, 1, c) \in Seq(Letters)
            /\ Len(SubSeq(out, 1, c)) = IF 1 <= c THEN c - 1 + 1 ELSE 0
            /\ \A k \in 1..c - 1 + 1 : SubSeq(out, 1, c)[k] = out[1 + k - 1]
        BY <4>1, <4>2, SubSeqProperties
      <4>4. Len(SubSeq(out, 1, c)) = c /\ \A k \in 1..c : SubSeq(out, 1, c)[k] = out[k]
        BY <4>1, <4>3
      <4>5. new = SubSeq(out, 1, c)
        BY <3>8, <4>1
      <4> QED
        BY <4>3, <4>4, <4>5 DEF c
    <3>10. ASSUME NEW i \in K \ {m} PROVE new[Rank(Kept(u), i)] = u[i]
      <4>1. {j \in Kept(u) : j <= i} = {j \in K : j <= i}
        BY <1>2, <3>1, <3>3
      <4>2. {j \in K : j <= i} \subseteq Kept(u)
        BY <4>1
      <4>3. IsFiniteSet(Kept(u))
        BY <1>2, <3>3, FS_RemoveElement
      <4>4. Rank(K, i) <= Cardinality(K) - 1
        BY <3>4, <4>2, <4>3, FS_Subset
      <4>5. Rank(K, i) \in 1..Cardinality(K)
        BY <1>7
      <4> DEFINE r == Rank(K, i)
      <4>6. r \in 1..Cardinality(K) - 1
        BY <3>4, <4>4, <4>5
      <4>7. out[r] = s[i] /\ u[i] = s[i]
        BY <1>1, <1>2, <1>3
      <4>8. Rank(Kept(u), i) = r
        BY <4>1
      <4> HIDE DEF r
      <4> QED
        BY <3>9, <4>6, <4>7, <4>8
    <3> QED
      BY <3>3, <3>4, <3>6, <3>9, <3>10 DEF Leaves, u, new
  <2> QED
    BY <2>2, <2>3
<1> QED
  BY <1>8, <1>9, <1>10 DEF Bytes

\* What is typed at a prompt, with the line it leaves.
LineKept ==
  /\ typed \in Seq(Bytes)
  /\ Stacked(typed)
  /\ Leaves(typed, line)

\* The line that is being read holds what its editing keys left of it (LinesAsEdited).
THEOREM LinesKept == FirmwareSpec => []LinesAsEdited
<1>1. Stacked(<<>>) /\ Leaves(<<>>, <<>>)
  <2>1. Len(<<>>) = 0 /\ <<>> \in Seq(Letters)
    BY EmptySeq
  <2>2. Kept(<<>>) = {}
    BY <2>1 DEF Kept
  <2>3. Cardinality({}) = 0
    BY FS_EmptySet
  <2> QED
    BY <2>1, <2>2, <2>3 DEF Stacked, Leaves
<1>2. FirmwareInit => LineKept
  BY <1>1, EmptySeq DEF FirmwareInit, LineKept
<1>3. LineKept /\ [FirmwareNext]_firmwareVars => LineKept'
  <2> SUFFICES ASSUME LineKept, [FirmwareNext]_firmwareVars
               PROVE  LineKept'
    OBVIOUS
  <2>1. CASE ReadByte
    <3>1. PICK b \in Bytes : line' = Edited(line, b) /\ typed' = Append(typed, b)
      BY <2>1 DEF ReadByte, Bytes
    <3>2. typed' \in Seq(Bytes)
      BY <3>1, AppendProperties DEF LineKept
    <3>3. Stacked(typed') /\ Leaves(typed', line')
      BY <3>1, EditedAsKept DEF LineKept
    <3> QED
      BY <3>2, <3>3 DEF LineKept
  <2>2. CASE ReadLine
    BY <1>1, <2>2, EmptySeq DEF ReadLine, LineKept
  <2>3. CASE UNCHANGED <<line, typed>>
    BY <2>3 DEF LineKept
  <2>4. CASE Radio /\ UNCHANGED <<mainVars, netVars>>
    BY <2>3, <2>4 DEF mainVars
  <2>5. CASE connection /\ UNCHANGED <<mainVars, netVars>>
    BY <2>3, <2>5 DEF mainVars
  <2>6. CASE net_task
    BY <2>3, <2>6 DEF net_task, FollowLink, Dhcp, Transmit, mainVars
  <2>7. CASE ReadError \/ ReadAgain
    BY <2>3, <2>7 DEF ReadError, ReadAgain
  <2>8. CASE Look \/ Install \/ Beat \/ SendTo
    BY <2>3, <2>8 DEF Look, Install, Beat, SendTo, Main
  <2>9. CASE UNCHANGED firmwareVars
    BY <2>3, <2>9 DEF firmwareVars, mainVars
  <2> QED
    BY <2>1, <2>2, <2>4, <2>5, <2>6, <2>7, <2>8, <2>9 DEF FirmwareNext, mainTask
<1>4. LineKept => LinesAsEdited
  <2>1. Kept(typed) = {i \in 1..Len(typed) : Survives(i)}
    BY DEF Kept, Backspaces, Typed, Survives
  <2> QED
    BY <2>1 DEF LineKept, Leaves, LinesAsEdited
<1> QED
  BY <1>2, <1>3, <1>4, PTL DEF FirmwareSpec

-----------------------------------------------------------------------------
(* The task connection and the radio. *)

\* Nothing is associated from a disconnection that connection has seen, or an attempt that
\* failed, to the next attempt, because the radio joins only for an attempt that is under way
\* and each clears the events of the one before; connection starts after the prompts.
StationSound ==
  /\ sta \in {"stopped", "idle", "connecting", "connected"}
  /\ events \subseteq {"StaConnected", "StaDisconnected"}
  /\ "StaDisconnected" \in events => sta \in {"stopped", "idle"}
  /\ at \in {"retrying", "pausing", "configure", "connect", "spawned"}
       => sta \in {"stopped", "idle"}
  /\ sta = "connecting" => at = "connecting" /\ events = {}
  /\ main \in {"reading", "waiting"} => at = "spawned"

LEMMA StationKept ==
  ASSUME StationSound, [FirmwareNext]_firmwareVars
  PROVE  StationSound' /\ (sta = "connected" => sta' # "connecting")
<1> USE DEF StationSound
<1>1. CASE ReadByte \/ ReadError \/ ReadAgain
  BY <1>1 DEF ReadByte, ReadError, ReadAgain, stationVars, radioVars
<1>2. CASE ReadLine
  BY <1>2 DEF ReadLine, FirstOfConnection, radioVars
<1>3. CASE Look \/ Install \/ Beat \/ SendTo
  BY <1>3 DEF Look, Install, Beat, SendTo, Main, AfterLook, AfterSend,
              stationVars, radioVars
<1>4. CASE net_task
  BY <1>4 DEF net_task, FollowLink, Dhcp, Transmit, mainVars, stationVars,
              radioVars
<1>5. CASE Radio /\ UNCHANGED mainVars
  <2> USE DEF mainVars
  <2>1. CASE ComeAndGo
    BY <1>5, <2>1 DEF ComeAndGo
  <2>2. CASE Join
    BY <1>5, <2>2 DEF Join
  <2>3. CASE Disconnect
    BY <1>5, <2>3 DEF Disconnect
  <2> QED
    BY <1>5, <2>1, <2>2, <2>3 DEF Radio
<1>6. CASE connection /\ UNCHANGED mainVars
  <2> USE DEF StepTo, radioVars, mainVars
  <2>1. CASE Test
    BY <1>6, <2>1 DEF Test, AfterTest
  <2>2. CASE Listen
    BY <1>6, <2>2 DEF Listen
  <2>3. CASE Hear
    BY <1>6, <2>3 DEF Hear
  <2>4. CASE Pause \/ Retry
    BY <1>6, <2>4 DEF Pause, Retry
  <2>5. CASE Configure
    BY <1>6, <2>5 DEF Configure
  <2>6. CASE Connect
    BY <1>6, <2>6 DEF Connect
  <2>7. CASE Attempted
    BY <1>6, <2>7 DEF Attempted, AfterAttempt
  <2> QED
    BY <1>6, <2>1, <2>2, <2>3, <2>4, <2>5, <2>6, <2>7 DEF connection
<1>7. CASE UNCHANGED firmwareVars
  BY <1>7 DEF firmwareVars, mainVars, stationVars, radioVars
<1> QED
  BY <1>1, <1>2, <1>3, <1>4, <1>5, <1>6, <1>7 DEF FirmwareNext, mainTask

\* connect_async is never called over an association that stands (ConnectsOnlyWhenDown).
THEOREM ConnectsOnlyDown == FirmwareSpec => ConnectsOnlyWhenDown
<1>1. FirmwareInit => StationSound
  BY DEF FirmwareInit, StationInit, StationSound
<1>2. StationSound /\ [FirmwareNext]_firmwareVars => StationSound'
  BY StationKept
<1>3. StationSound /\ [FirmwareNext]_firmwareVars
        => [sta = "connected" => sta' # "connecting"]_firmwareVars
  BY StationKept
<1> QED
  BY <1>1, <1>2, <1>3, PTL DEF FirmwareSpec, ConnectsOnlyWhenDown

=============================================================================
