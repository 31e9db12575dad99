------------------------------ MODULE RxAssembly ------------------------------
(***************************************************************************)
(* The receive window at work: the loop that polls the chip's flags,       *)
(* drains its FIFO into asmBuf while a telegram comes in, reads the rest   *)
(* at its end and hands the packet to the scan (FrameScan.tla).            *)
(*                                                                         *)
(* The chip receives on while the loop runs: bytes arrive and flags rise   *)
(* between any two of its steps, most of all while a packet is scanned,    *)
(* which takes longer than a telegram.  The loop decides on one snapshot   *)
(* of the high flag byte per round.                                        *)
(***************************************************************************)
EXTENDS Integers, FiniteSets

CONSTANTS
  OnAir,     \* what a sync may announce: telegrams, and noise
  Fifo,      \* bytes the chip's FIFO holds (64)
  Threshold, \* FIFO level from which register 0x6E shows a drain flag (32)
  Drain,     \* bytes a drain reads at most (32)
  DrainCap,  \* no drain once this much is assembled (96)
  Buf,       \* sizeof(asmBuf) (128)
  RestMax,   \* sizeof(buf): most bytes the final read takes (64)
  Fallback,  \* need of a packet without a credible L: sv.r46 (73)
  Lump,      \* granularity at which bytes arrive (1 on air)
  Counter    \* bytes after which the chip ends a packet: register 0x46 (111)

ASSUME AssemblyAssumption ==
  /\ OnAir \subseteq [form : {"prefix", "plain", "noise"}, L : 10..240]
  /\ {Fifo, Threshold, Drain, DrainCap, Buf, RestMax, Fallback, Lump, Counter} \subseteq Nat \ {0}
  /\ Drain <= RestMax /\ DrainCap + Drain <= Buf /\ Fallback <= Buf

VARIABLES
  pc,                   \* "poll", "drain", "end" or "scan"
  hi,                   \* snapshot of 0x6D: PKT_DONE seen in this round
  asmLen, asmActive,    \* assembly so far, and whether one is going on
  head,                 \* what asmBuf starts with (known once it has bytes)
  handed,               \* the packet last handed to the scan
  receiving, air, count, \* chip: in a packet, the telegram, bytes of it so far
  level,                \* chip: FIFO level
  syncOk, pktDone, rxTmo, \* chip: latched flags
  intact, fresh, cut    \* history: no byte of this telegram was lost or made up
                        \* and no flag left over cuts it; asmBuf was not handed
                        \* over yet; RX_TMO caused the last hand-over

loop == <<pc, hi, asmLen, asmActive, head, handed>>
chip == <<receiving, air, count, level, syncOk, pktDone, rxTmo>>
hist == <<intact, fresh, cut>>
vars == <<loop, chip, hist>>

------------------------------------------------------------------------------
(* Telegrams: with the 2-byte sync the chip puts the rest of the access    *)
(* code, 54 CD, in front of the L byte; other senders and noise do not.    *)

SmallerOf(a, b) == IF a < b THEN a ELSE b
FrameSize(L) == 12 + (L - 9) + 2 * ((L - 9 + 15) \div 16)

Silence == [form |-> "none", L |-> 10]

\* Bytes of a telegram up to its last CRC, the prefix included.
Size(t) ==
  CASE t.form = "prefix" -> 2 + FrameSize(t.L)
    [] t.form = "plain"  -> FrameSize(t.L)
    [] OTHER             -> 0

\* Mutant of Need: a garbage L byte is believed.
NeedUncapped(default) ==
  IF asmLen > 0 /\ head.form \in {"prefix", "plain"} THEN Size(head) ELSE default

\* What the drain and the end of the packet take for the need, once asmBuf
\* has a first drain in it; a garbage L is capped at the buffer.
Need(default) ==
  SmallerOf(IF asmLen > 0 /\ head.form \in {"prefix", "plain"} THEN Size(head) ELSE default,
            Buf)

Nothing == [len |-> 0, fresh |-> TRUE, intact |-> TRUE, head |-> Silence,
            afterCut |-> FALSE]

Init ==
  /\ pc = "poll" /\ hi = FALSE
  /\ asmLen = 0 /\ asmActive = FALSE /\ head = Silence /\ handed = Nothing
  /\ receiving = FALSE /\ air = Silence /\ count = 0 /\ level = 0
  /\ syncOk \in BOOLEAN /\ pktDone \in BOOLEAN /\ rxTmo \in BOOLEAN
  /\ intact = FALSE /\ fresh = FALSE /\ cut = FALSE

------------------------------------------------------------------------------
(* The chip.                                                               *)

\* A sync word starts a packet.  Bytes of an earlier one may still be there.
Sync ==
  /\ ~receiving
  /\ receiving' = TRUE
  /\ air' \in OnAir
  /\ count' = 0
  /\ syncOk' = TRUE
  /\ intact' = FALSE
  /\ UNCHANGED <<loop, level, pktDone, rxTmo, fresh, cut>>

\* Bytes arrive; a full FIFO loses them.
Arrive ==
  LET n == SmallerOf(Lump, Counter - count)
  IN  /\ receiving /\ n > 0
      /\ count' = count + n
      /\ level' = SmallerOf(level + n, Fifo)
      /\ intact' = (intact /\ level + n <= Fifo)
      /\ UNCHANGED <<loop, receiving, air, syncOk, pktDone, rxTmo, fresh, cut>>

\* The payload counter is reached.
Complete ==
  /\ receiving /\ count = Counter
  /\ pktDone' = TRUE
  /\ receiving' = FALSE
  /\ UNCHANGED <<loop, air, count, level, syncOk, rxTmo, hist>>

\* After the end of a telegram shorter than the counter the carrier is gone.
Timeout ==
  /\ receiving /\ count < Counter /\ count >= Size(air)
  /\ rxTmo' = TRUE
  /\ receiving' = FALSE
  /\ UNCHANGED <<loop, air, count, level, syncOk, pktDone, hist>>

Chip == Sync \/ Arrive \/ Complete \/ Timeout

------------------------------------------------------------------------------
(* The loop.                                                               *)

\* Mutant of Poll: a sync goes on with the assembly of the last packet.
PollKeepingAssembly ==
  /\ pc = "poll"
  /\ hi' = pktDone
  /\ syncOk' = FALSE
  /\ IF syncOk
     THEN /\ asmActive' = TRUE
          /\ fresh' = (fresh \/ asmLen = 0)
          /\ intact' = (count = level /\ receiving /\ ~rxTmo)
     ELSE UNCHANGED <<asmActive, intact, fresh>>
  /\ pc' = "drain"
  /\ UNCHANGED <<asmLen, head, handed, receiving, air, count, level, pktDone, rxTmo, cut>>

\* Read 0x6D; a sync clears its flag and starts the assembly over.  (The
\* next sync cannot follow within the two register accesses.)
Poll ==
  /\ pc = "poll"
  /\ hi' = pktDone
  /\ syncOk' = FALSE
  /\ IF syncOk
     THEN /\ asmLen' = 0 /\ asmActive' = TRUE
          /\ fresh' = TRUE /\ UNCHANGED cut
          /\ intact' = (count = level /\ receiving /\ ~rxTmo)
     ELSE UNCHANGED <<asmLen, asmActive, hist>>
  /\ pc' = "drain"
  /\ UNCHANGED <<head, handed, receiving, air, count, level, pktDone, rxTmo>>

\* readFifo(n) returns what is there, and junk for the rest.
ReadFifo(n) ==
  /\ level' = IF n <= level THEN level - n ELSE 0
  /\ intact' = (intact /\ n <= level)

\* The bytes the drain may take: not beyond the telegram, nor 32 at a time.
Room ==
  LET need == Need(DrainCap)
  IN  SmallerOf(IF need > asmLen THEN need - asmLen ELSE 0, Drain)

Draining == asmActive /\ ~hi /\ asmLen < DrainCap /\ level >= Threshold

DrainFifo ==
  /\ pc = "drain"
  /\ IF Draining /\ Room > 0
     THEN /\ ReadFifo(Room)
          /\ asmLen' = asmLen + Room
          /\ head' = IF asmLen = 0 THEN air ELSE head
     ELSE UNCHANGED <<level, asmLen, head, intact>>
  /\ pc' = "end"
  /\ UNCHANGED <<hi, asmActive, handed, receiving, air, count, syncOk, pktDone, rxTmo, fresh, cut>>

\* Mutant of Rest: the read buffer is taken for as large as asmBuf.
RestUnchecked ==
  LET need == Need(Fallback)
  IN  IF need > asmLen THEN need - asmLen ELSE 0

\* Mutant of Rest: the telegram's own length is not looked at.
RestFixed ==
  IF Fallback > asmLen /\ Fallback - asmLen <= RestMax THEN Fallback - asmLen ELSE 0

\* Bytes missing from the telegram, if the read buffer can take them.
Rest ==
  LET need == Need(Fallback)
  IN  IF need > asmLen /\ need - asmLen <= RestMax THEN need - asmLen ELSE 0

NotEnded ==
  /\ pc = "end"
  /\ ~hi /\ ~(asmActive /\ rxTmo)
  /\ pc' = "poll"
  /\ UNCHANGED <<hi, asmLen, asmActive, head, handed, chip, hist>>

\* Mutant of Ended: PKT_DONE stays latched.
EndedLatched ==
  /\ pc = "end"
  /\ hi \/ (asmActive /\ rxTmo)
  /\ rxTmo' = (hi /\ rxTmo)
  /\ asmLen' = asmLen + Rest
  /\ handed' = [len |-> asmLen + Rest, fresh |-> fresh,
                intact |-> intact /\ Rest <= level, head |-> head,
                afterCut |-> cut]
  /\ level' = 0
  /\ intact' = FALSE /\ fresh' = FALSE /\ cut' = ~hi
  /\ asmActive' = FALSE
  /\ pc' = "scan"
  /\ UNCHANGED <<hi, head, receiving, air, count, syncOk, pktDone>>

\* PKT_DONE in the snapshot, or RX_TMO now: read the rest, hand the packet
\* over, turn the FIFO to reading and clear it.  Only a timeout restarts RX.
Ended ==
  /\ pc = "end"
  /\ hi \/ (asmActive /\ rxTmo)
  /\ IF hi
     THEN pktDone' = FALSE /\ UNCHANGED rxTmo
     ELSE rxTmo' = FALSE /\ UNCHANGED pktDone
  /\ asmLen' = asmLen + Rest
  /\ handed' = [len |-> asmLen + Rest, fresh |-> fresh,
                intact |-> intact /\ Rest <= level, head |-> head,
                afterCut |-> cut]
  /\ level' = 0
  /\ intact' = FALSE /\ fresh' = FALSE /\ cut' = ~hi
  /\ asmActive' = FALSE
  /\ pc' = "scan"
  /\ UNCHANGED <<hi, head, receiving, air, count, syncOk>>

\* The CRC scan of FrameScan.tla, however long it takes.
Scan ==
  /\ pc = "scan"
  /\ handed' = Nothing
  /\ pc' = "poll"
  /\ UNCHANGED <<hi, asmLen, asmActive, head, chip, hist>>

\* The window is over or a transmission ends it; all flags are cleared, but
\* rxPacket, called before the next window, may raise them again; the next
\* window opens with an empty FIFO and new locals.
Reopen ==
  /\ pc = "poll"
  /\ hi' = FALSE /\ asmLen' = 0 /\ asmActive' = FALSE /\ head' = Silence
  /\ receiving' = FALSE /\ air' = Silence /\ count' = 0 /\ level' = 0
  /\ syncOk' \in BOOLEAN /\ pktDone' \in BOOLEAN /\ rxTmo' \in BOOLEAN
  /\ intact' = FALSE /\ fresh' = FALSE /\ cut' = FALSE
  /\ UNCHANGED <<pc, handed>>

Loop == Poll \/ DrainFifo \/ NotEnded \/ Ended \/ Scan

Next == Chip \/ Loop \/ Reopen
Spec == Init /\ [][Next]_vars

\* The window loop runs on; the chip and the air owe nothing.
FairSpec == Spec /\ WF_vars(Loop)

------------------------------------------------------------------------------
(* Properties.                                                             *)

TypeOK ==
  /\ pc \in {"poll", "drain", "end", "scan"} /\ hi \in BOOLEAN
  /\ asmLen \in 0..Buf /\ asmActive \in BOOLEAN
  /\ head \in OnAir \cup {Silence} /\ air \in OnAir \cup {Silence}
  /\ handed.len \in Nat
  /\ count \in 0..Counter /\ level \in 0..Fifo
  /\ receiving \in BOOLEAN
  /\ syncOk \in BOOLEAN /\ pktDone \in BOOLEAN /\ rxTmo \in BOOLEAN
  /\ intact \in BOOLEAN /\ fresh \in BOOLEAN /\ cut \in BOOLEAN

\* asmBuf and the read buffer are never overrun, whatever L byte the air
\* brings (main.cpp:2058 tells of a crash loop this once was).
BuffersHold ==
  /\ handed.len <= Buf
  /\ pc = "drain" /\ Draining => Room <= RestMax
  /\ pc = "end" => Rest <= RestMax /\ asmLen + Rest <= Buf

\* What is handed over was assembled since the last hand-over, or is empty:
\* no telegram is scanned and sent twice.  The one exception: PKT_DONE after
\* a packet that RX_TMO had ended, for asmLen is reset by a sync only.
NoReplay == handed.len > 0 /\ ~handed.fresh => handed.afterCut

\* A telegram none of whose bytes was lost is handed over up to its last CRC
\* and without the noise behind it, except the part of a first drain that
\* exceeds a very short one.
TelegramWhole ==
  (handed.intact /\ handed.len > 0 /\ handed.head.form \in {"prefix", "plain"})
    => handed.len = IF Size(handed.head) < Drain
                    THEN Drain ELSE SmallerOf(Size(handed.head), Buf)

\* An ended packet does not stay in the chip.
EndTaken == pktDone ~> ~pktDone
=============================================================================
