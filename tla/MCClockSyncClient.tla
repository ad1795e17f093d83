------------------------- MODULE MCClockSyncClient --------------------------
EXTENDS ClockSyncClient, TLC

CONSTANTS ap1, ap2

MCApBase == [a \in AP |-> IF a = ap1 THEN 7 ELSE 12]

\* mac_tsf_us is the clock of the stamps, or follows the access point's TSF.
MCOneClock == [a \in Network |-> 5]
MCTracking == [a \in Network |-> ApBase[a]]
=============================================================================
