------------------------------ MODULE Firmware ------------------------------
(***************************************************************************)
(* crates/clock-sync-firmware/src/main.rs: main asks for the network on    *)
(* the serial line, starts the connection, waits for an address, installs  *)
(* the client and sends heartbeats, while connection and net_task run on   *)
(* the same executor.  clock-sync-test starts in the same way, with a      *)
(* fixed network.                                                          *)
(***************************************************************************)
EXTENDS Station, Sequences, FiniteSets

CONSTANTS
  Letters,    \* bytes that stand for themselves
  Prompts,    \* lines asked for; the last one is the server's address
  MaxTx,      \* heartbeats the socket's buffer holds
  MaxTyped    \* bound: bytes typed at a prompt

ASSUME FirmwareAssumption ==
  /\ Letters \cap {"LF", "CR", "BS"} = {}
  /\ {Prompts, MaxTx} \subseteq Nat \ {0}
  /\ MaxTyped \in Nat

VARIABLES
  main,      \* where main is
  asked,     \* lines read
  line,      \* out, of read_line
  typed,     \* what was typed for it, for the properties
  link,      \* stack.is_link_up
  address,   \* stack.config_v4
  tx         \* heartbeats in the socket's buffer

mainVars == <<main, asked, line, typed>>
netVars == <<link, address, tx>>
firmwareVars == <<stationVars, mainVars, netVars>>

FirmwareInit ==
  /\ StationInit
  /\ main = "reading"
  /\ asked = 0
  /\ line = <<>>
  /\ typed = <<>>
  /\ link = FALSE
  /\ address = FALSE
  /\ tx = 0

-----------------------------------------------------------------------------
(* read_line *)

\* Faulty: a backspace discards the line.
Edited_anew(out, b) ==
  CASE b = "CR" -> out
    [] b = "BS" -> <<>>
    [] OTHER    -> Append(out, b)

\* What a byte before the LF does to the line.
Edited(out, b) ==
  CASE b = "CR"                 -> out
    [] b = "BS" /\ out = <<>>   -> out
    [] b = "BS" /\ out # <<>>   -> SubSeq(out, 1, Len(out) - 1)
    [] OTHER                    -> Append(out, b)

ReadByte ==
  /\ main = "reading"
  /\ Len(typed) < MaxTyped
  /\ \E b \in Letters \cup {"CR", "BS"} :
       /\ line' = Edited(line, b)
       /\ typed' = Append(typed, b)
  /\ UNCHANGED <<stationVars, main, asked, netVars>>

ReadError ==
  /\ main = "reading"
  /\ main' = "waiting"
  /\ UNCHANGED <<stationVars, asked, line, typed, netVars>>

ReadAgain ==
  /\ main = "waiting"
  /\ main' = "reading"
  /\ UNCHANGED <<stationVars, asked, line, typed, netVars>>

\* Faulty: connection is spawned after the waits of main.
FirstOfConnection_later == "spawned"

\* Where connection is when main goes on to its waits.
FirstOfConnection == "test"

\* The LF: the next prompt, or connection and net_task are spawned.
ReadLine ==
  /\ main = "reading"
  /\ asked' = asked + 1
  /\ line' = <<>>
  /\ typed' = <<>>
  /\ IF asked' < Prompts
     THEN UNCHANGED <<main, at>>
     ELSE main' = "linking" /\ at' = FirstOfConnection
  /\ UNCHANGED <<radioVars, missed, netVars>>

-----------------------------------------------------------------------------
(* net_task (external): the stack follows the radio, loses its address with the link, and
   sends what the socket holds when it has both. *)

FollowLink ==
  /\ link # (sta = "connected")
  /\ link' = (sta = "connected")
  /\ address' = FALSE
  /\ UNCHANGED <<stationVars, mainVars, tx>>

Dhcp ==
  /\ link
  /\ ~address
  /\ address' = TRUE
  /\ UNCHANGED <<stationVars, mainVars, link, tx>>

Transmit ==
  /\ tx > 0
  /\ address
  /\ tx' = tx - 1
  /\ UNCHANGED <<stationVars, mainVars, link, address>>

-----------------------------------------------------------------------------
(* main, after the prompts *)

Main(to) ==
  /\ main' = to
  /\ UNCHANGED <<stationVars, asked, line, typed, link, address>>

AfterLook(up) == IF up THEN "configuring" ELSE "linking"

\* The wait for the link, a look every 200 ms.
Look ==
  /\ main = "linking"
  /\ Main(AfterLook(link))
  /\ UNCHANGED tx

\* The wait for an address ends, and the client is installed; without a server's address
\* there are no heartbeats.
Install ==
  /\ main = "configuring"
  /\ address
  /\ \E to \in {"resting", "reporting"} : Main(to)
  /\ UNCHANGED tx

\* A second has passed: the heartbeat is made up from the client's answers.
Beat ==
  /\ main = "resting"
  /\ Main("sending")
  /\ UNCHANGED tx

\* Faulty: an error ends the heartbeats.
AfterSend_ends(ok) == IF ok THEN "resting" ELSE "reporting"

\* An error is logged.
AfterSend(ok) == "resting"

\* send_to waits for room in the buffer.
SendTo ==
  /\ main = "sending"
  /\ tx < MaxTx
  /\ \E ok \in BOOLEAN :
       /\ Main(AfterSend(ok))
       /\ tx' = IF ok THEN tx + 1 ELSE tx

mainTask ==
  \/ ReadByte
  \/ ReadError
  \/ ReadAgain
  \/ ReadLine
  \/ Look
  \/ Install
  \/ Beat
  \/ SendTo

net_task == FollowLink \/ Dhcp \/ Transmit

FirmwareNext ==
  \/ Radio /\ UNCHANGED <<mainVars, netVars>>
  \/ connection /\ UNCHANGED <<mainVars, netVars>>
  \/ net_task
  \/ mainTask

\* The executor runs every task that can go on; nobody has to type.  An attempt to connect
\* ends, an access point that is gone is noticed, and a network that stays in reach lets the
\* station join and gives it an address.
Fairness ==
  /\ WF_firmwareVars(connection /\ UNCHANGED <<mainVars, netVars>>)
  /\ WF_firmwareVars(ReadAgain \/ Look \/ Install \/ Beat \/ SendTo)
  /\ WF_firmwareVars(FollowLink)
  /\ WF_firmwareVars(Transmit)
  /\ WF_firmwareVars(DisconnectInTime /\ UNCHANGED <<mainVars, netVars>>)
  /\ SF_firmwareVars(Join /\ UNCHANGED <<mainVars, netVars>>)
  /\ SF_firmwareVars(Dhcp)

FirmwareSpec == FirmwareInit /\ [][FirmwareNext]_firmwareVars /\ Fairness

-----------------------------------------------------------------------------
\* The letter at i survives if no backspace is left for it by the letters after it.
Survives(i) ==
  /\ typed[i] \in Letters
  /\ \A j \in i+1..Len(typed) :
       Cardinality({k \in i+1..j : typed[k] = "BS"})
         <= Cardinality({k \in i+1..j : typed[k] \in Letters})

\* The line read is what the editing keys left of the bytes typed: in order, every letter
\* that was not taken back, and nothing else (Edited).
LinesAsEdited ==
  LET kept == {i \in 1..Len(typed) : Survives(i)}
  IN  /\ Len(line) = Cardinality(kept)
      /\ \A i \in kept : line[Cardinality({j \in kept : j <= i})] = typed[i]

\* connect_async is never called over an association that stands (Test): the event the
\* radio records with it ends the attempt, and the board would drop out of the network.
ConnectsOnlyWhenDown == [][sta = "connected" => sta' # "connecting"]_firmwareVars

\* An access point that will do stays in reach once the prompts are answered.
Reachable == <>[](onAir \cap Acceptable # {} /\ asked = Prompts)

\* Then the board is associated again and again, however often it is thrown out, unless a
\* disconnection came between the test of the state and the wait for the event, and was
\* forgotten (Listen): connection then waits for the next one, which cannot come.
Reconnects == Reachable => []<>(sta = "connected") \/ <>missed

\* If it is thrown out only so often, main gets past its waits, whatever the link did before.
Installs ==
  Reachable /\ <>[][sta = "connected" => sta' = "connected"]_firmwareVars =>
    <>(main \in {"resting", "reporting", "sending"}) \/ <>missed

\* Once the association stands, no heartbeat waits forever for room in a buffer that filled
\* while the board was off the network, and after an error the next one is sent.
HeartbeatsResume ==
  <>[](sta = "connected") =>
    (main = "sending" ~> main = "resting") /\ (main = "resting" ~> main = "sending")

=============================================================================
