----------------------------- MODULE SyncPacket -----------------------------
(***************************************************************************)
(* The wire format of crates/clock-sync/src/lib.rs, as operators: a packet *)
(* is MAGIC, then its sequence number and its time in little-endian bytes, *)
(* and is searched for in a frame of which only that much is known.  A     *)
(* byte has Base values here, and the fields have a few bytes.             *)
(***************************************************************************)
EXTENDS Integers, Sequences

CONSTANTS
  Base,     \* values of a byte
  MAGIC,    \* the first bytes of a packet
  SeqLen,   \* bytes of seq (4)
  NsLen,    \* bytes of send_unix_ns (16)
  None      \* no packet

SIZE == Len(MAGIC) + SeqLen + NsLen

\* What the byte after i others counts.
Weight[i \in 0..SeqLen + NsLen] == IF i = 0 THEN 1 ELSE Base * Weight[i - 1]

to_le_bytes(n, len) == [i \in 1..len |-> (n \div Weight[i - 1]) % Base]

\* Faulty: the first byte counts most.
from_le_bytes_big(s) ==
  LET value[i \in 0..Len(s)] == IF i = 0 THEN 0 ELSE value[i - 1] * Base + s[i]
  IN  value[Len(s)]

from_le_bytes(s) ==
  LET value[i \in 0..Len(s)] == IF i = 0 THEN 0 ELSE value[i - 1] + s[i] * Weight[i - 1]
  IN  value[Len(s)]

to_bytes(p) == MAGIC \o to_le_bytes(p.seq, SeqLen) \o to_le_bytes(p.send_unix_ns, NsLen)

MagicAt(buf, i) == SubSeq(buf, i, i + Len(MAGIC) - 1) = MAGIC

parse(buf) ==
  IF Len(buf) < SIZE \/ ~MagicAt(buf, 1)
  THEN None
  ELSE [seq |-> from_le_bytes(SubSeq(buf, Len(MAGIC) + 1, Len(MAGIC) + SeqLen)),
        send_unix_ns |-> from_le_bytes(SubSeq(buf, Len(MAGIC) + SeqLen + 1, SIZE))]

\* Faulty: a packet at the very end of the frame is not looked at.
Places_but_last(buf) == {i \in 1..Len(buf) - SIZE : MagicAt(buf, i)}

\* Where a packet could start.
Places(buf) == {i \in 1..Len(buf) - SIZE + 1 : MagicAt(buf, i)}

\* The first place decides.
find_in_frame(buf) ==
  IF Places(buf) = {}
  THEN None
  ELSE parse(SubSeq(buf, CHOOSE i \in Places(buf) : \A j \in Places(buf) : i <= j, Len(buf)))

=============================================================================
