------------------------------- MODULE Station ------------------------------
(***************************************************************************)
(* The task connection of clock-sync-test and clock-sync-firmware, which   *)
(* keeps the board associated, over the radio (esp-radio, external).  The  *)
(* radio's driver preempts the executor: an event can come between any two *)
(* steps of the task.                                                      *)
(***************************************************************************)
EXTENDS Naturals

CONSTANTS
  Aps,     \* access points with the configured ssid
  Bssid,   \* the one connection is pinned to, NoAp in clock-sync-firmware
  NoAp

ASSUME StationAssumption == Bssid \in Aps \cup {NoAp} /\ NoAp \notin Aps

VARIABLES
  onAir,    \* access points in reach
  sta,      \* sta_state: "stopped", "idle", "connecting" or "connected"
  ap,       \* the access point associated with
  events,   \* events the radio has recorded since they were cleared
  at,       \* where connection is
  missed    \* for the properties: a disconnection was forgotten before it was awaited

radioVars == <<onAir, sta, ap, events>>
stationVars == <<radioVars, at, missed>>

StationInit ==
  /\ onAir = {}
  /\ sta = "stopped"
  /\ ap = NoAp
  /\ events = {}
  /\ at = "spawned"
  /\ missed = FALSE

-----------------------------------------------------------------------------
(* The radio and the air. *)

Acceptable == IF Bssid = NoAp THEN Aps ELSE {Bssid}

ComeAndGo ==
  /\ \E a \in Aps : onAir' = IF a \in onAir THEN onAir \ {a} ELSE onAir \cup {a}
  /\ UNCHANGED <<sta, ap, events, at, missed>>

Join ==
  /\ sta = "connecting"
  /\ \E a \in onAir \cap Acceptable : ap' = a
  /\ sta' = "connected"
  /\ events' = events \cup {"StaConnected"}
  /\ UNCHANGED <<onAir, at, missed>>

\* An attempt fails, or an association ends, with or without a cause to be seen here.
Disconnect ==
  /\ sta \in {"connecting", "connected"}
  /\ sta' = "idle"
  /\ ap' = NoAp
  /\ events' = events \cup {"StaDisconnected"}
  /\ UNCHANGED <<onAir, at, missed>>

\* Attempts end, and an access point that is gone is noticed.
DisconnectInTime == Disconnect /\ (sta = "connecting" \/ ap \notin onAir)

-----------------------------------------------------------------------------
(* connection *)

StepTo(from, to) == at = from /\ at' = to

\* Faulty: an association is not looked for.
AfterTest_always(connected) == "configure"

AfterTest(connected) == IF connected THEN "listen" ELSE "configure"

Test ==
  /\ StepTo("test", AfterTest(sta = "connected"))
  /\ UNCHANGED <<radioVars, missed>>

\* wait_for_event begins: an event recorded before may be forgotten.
Listen ==
  /\ StepTo("listen", "listening")
  /\ events' \in {events, events \ {"StaDisconnected"}}
  /\ missed' = (missed \/ (events' # events /\ sta # "connected"))
  /\ UNCHANGED <<onAir, sta, ap>>

\* wait_for_event ends.
Hear ==
  /\ StepTo("listening", "pausing")
  /\ "StaDisconnected" \in events
  /\ events' = events \ {"StaDisconnected"}
  /\ UNCHANGED <<onAir, sta, ap, missed>>

Pause ==
  /\ StepTo("pausing", "configure")
  /\ UNCHANGED <<radioVars, missed>>

\* The radio is configured and started, once.
Configure ==
  /\ StepTo("configure", "connect")
  /\ sta' = IF sta = "stopped" THEN "idle" ELSE sta
  /\ UNCHANGED <<onAir, ap, events, missed>>

\* connect_async begins: what was recorded before is cleared.
Connect ==
  /\ StepTo("connect", "connecting")
  /\ sta' = "connecting"
  /\ ap' = NoAp
  /\ events' = {}
  /\ UNCHANGED <<onAir, missed>>

\* Faulty: a disconnection is awaited after an attempt that failed too.
AfterAttempt_listens(ok) == "listen"

AfterAttempt(ok) == IF ok THEN "test" ELSE "retrying"

\* connect_async ends.
Attempted ==
  /\ events # {}
  /\ StepTo("connecting", AfterAttempt("StaDisconnected" \notin events))
  /\ events' = {}
  /\ UNCHANGED <<onAir, sta, ap, missed>>

Retry ==
  /\ StepTo("retrying", "test")
  /\ UNCHANGED <<radioVars, missed>>

connection ==
  \/ Test
  \/ Listen
  \/ Hear
  \/ Pause
  \/ Configure
  \/ Connect
  \/ Attempted
  \/ Retry

Radio == ComeAndGo \/ Join \/ Disconnect

=============================================================================
