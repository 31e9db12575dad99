------------------------------- MODULE SwimTool -------------------------------
(***************************************************************************)
(* The ESP32 that reads the flash of the dongle's STM8 over SWIM, the one- *)
(* wire debug interface: the tool's command loop, connect(), the commands  *)
(* SRST, ROTF and WOTF frame by frame, and the two pins.  The target       *)
(* answers, refuses or stays silent as it likes, but it cannot acknowledge *)
(* a frame in which it does not find every bit.                            *)
(***************************************************************************)
EXTENDS Integers, Sequences

CONSTANTS FlashSize,  \* bytes a dump reads
          BlockSize   \* most bytes one ROTF reads, at most 255

VARIABLES
  _ok,           \* Stm8Swim::_ok
  pc, job,       \* where the command stands, what the bus is used for
  frames, acked, toRead, failed,  \* frames to send, none refused yet, bytes to read, result < 0
  remaining,     \* bytes the dump still has to read
  nrst, swim,    \* pins: output register and output enable
  critical,      \* interrupts are disabled
  answered       \* history: the target gave every answer connect() asked for

bus  == <<job, frames, acked, toRead, failed>>
pins == <<nrst, swim>>
vars == <<_ok, pc, bus, remaining, pins, critical, answered>>

Driven(level) == [out |-> level, en |-> TRUE]
ReleasedFrom(pin) == [pin EXCEPT !.en = FALSE]

FlashStart  == 32768
OptionStart == 18432
SwimCsr     == 32640
Srst == 0
Rotf == 1
Wotf == 2

\* begin(): NRST driven high, SWIM released.
Init ==
  /\ _ok = FALSE
  /\ pc = "idle" /\ job = "none"
  /\ frames = <<>> /\ acked = TRUE /\ toRead = 0 /\ failed = FALSE
  /\ remaining = 0
  /\ nrst = Driven("high") /\ swim = ReleasedFrom(Driven("high"))
  /\ critical = FALSE /\ answered = FALSE

------------------------------------------------------------------------------
(* Frames on the wire.                                                     *)

\* The n low bits of a value, the highest first.
Bits(v, n) == [i \in 1..n |-> (v \div 2 ^ (n - i)) % 2]
Command(op) == [data |-> FALSE, bits |-> Bits(op, 4)]
Data(v)     == [data |-> TRUE, bits |-> Bits(v, 9)]

\* write_bit_sync raises the line ahead of a bit if its argument prev_bit is
\* 0; write_byte gives it the bit that follows, and 0 for the last.
RaisedAhead(bits, i) == (IF i < Len(bits) THEN bits[i + 1] ELSE 0) = 0

\* A bit begins with a falling edge: the bit before was a one, which has
\* raised the line itself, or the line was raised ahead.  The parity bit has
\* one always.
Readable(bits) == \A i \in 2..Len(bits) : bits[i - 1] = 0 => RaisedAhead(bits, i)

\* len, three address bytes and what is to be written.
Spec4(len, addr) ==
  <<Data(len), Data((addr \div 65536) % 256), Data((addr \div 256) % 256), Data(addr % 256)>>

------------------------------------------------------------------------------
(* Bus operations of the class.                                            *)

\* send_command begins with interrupts disabled and the line driven high.
Send(j, fs, n) ==
  /\ job' = j /\ frames' = fs /\ acked' = TRUE /\ toRead' = n /\ failed' = FALSE
  /\ swim' = Driven("high") /\ critical' = TRUE
  /\ pc' = "send"

\* What an unconnected object does with it.
Refuse(j) ==
  /\ job' = j /\ frames' = <<>> /\ acked' = TRUE /\ toRead' = 0 /\ failed' = TRUE
  /\ UNCHANGED <<swim, critical>>
  /\ pc' = "done"

softReset(j) == Send(j, <<Command(Srst)>>, 0)

readBlock(j, addr, len) ==
  IF _ok /\ len > 0 THEN Send(j, <<Command(Rotf)>> \o Spec4(len, addr), len) ELSE Refuse(j)

writeByte(j, addr, v) ==
  IF _ok THEN Send(j, <<Command(Wotf)>> \o Spec4(1, addr) \o <<Data(v)>>, 0) ELSE Refuse(j)

readByte(j, addr) == readBlock(j, addr, 1)

\* write_byte, the line released for the target's answer.
Acknowledged ==
  /\ pc = "send" /\ frames # <<>> /\ Readable(Head(frames).bits)
  /\ frames' = Tail(frames)
  /\ swim' = IF Len(frames) > 1 THEN Driven("high") ELSE ReleasedFrom(swim)
  /\ UNCHANGED <<_ok, pc, job, acked, toRead, failed, remaining, nrst, critical, answered>>

\* NACK: a command fails, a data byte is sent again, for as long as it takes.
Refused ==
  /\ pc = "send" /\ frames # <<>>
  /\ IF Head(frames).data
     THEN UNCHANGED <<pc, swim, critical, failed, frames>>
     ELSE /\ failed' = TRUE /\ frames' = <<>>
          /\ swim' = ReleasedFrom(swim) /\ critical' = FALSE /\ pc' = "done"
  /\ acked' = FALSE
  /\ UNCHANGED <<_ok, job, toRead, remaining, nrst, answered>>

Silent ==
  /\ pc = "send" /\ frames # <<>>
  /\ failed' = TRUE /\ frames' = <<>> /\ acked' = FALSE
  /\ swim' = ReleasedFrom(swim) /\ critical' = FALSE /\ pc' = "done"
  /\ UNCHANGED <<_ok, job, toRead, remaining, nrst, answered>>

\* read_byte: a byte, answered with its parity; or a header bit of 0, a
\* wrong parity, a bit that never came.
ReadByteOk ==
  /\ pc = "send" /\ frames = <<>> /\ toRead > 0
  /\ toRead' = toRead - 1 /\ swim' = ReleasedFrom(Driven("high"))
  /\ UNCHANGED <<_ok, pc, job, frames, acked, failed, remaining, nrst, critical, answered>>
ReadByteBad ==
  /\ pc = "send" /\ frames = <<>> /\ toRead > 0
  /\ failed' = TRUE /\ toRead' = 0
  /\ UNCHANGED <<_ok, pc, job, frames, acked, remaining, pins, critical, answered>>

Transferred ==
  /\ pc = "send" /\ frames = <<>> /\ toRead = 0
  /\ critical' = FALSE /\ pc' = "done"
  /\ UNCHANGED <<_ok, bus, remaining, pins, answered>>

------------------------------------------------------------------------------
(* connect().                                                              *)

cmdConnect ==
  /\ pc = "idle"
  /\ _ok' = FALSE
  /\ nrst' = Driven("low")
  /\ answered' = FALSE
  /\ pc' = "entry"
  /\ UNCHANGED <<bus, remaining, swim, critical>>

\* The entry pulses, then the target pulls the line low and lets it go; if
\* it never does one of the two, connect() returns, NRST still low.
SwimEntryTimeout ==
  /\ pc = "entry"
  /\ swim' = ReleasedFrom(Driven("high"))
  /\ pc' = "idle"
  /\ UNCHANGED <<_ok, bus, remaining, nrst, critical, answered>>
SwimEntry ==
  /\ pc = "entry"
  /\ softReset("srst")
  /\ UNCHANGED <<_ok, remaining, nrst, answered>>

SrstDone ==
  /\ pc = "done" /\ job = "srst"
  /\ answered' = acked
  /\ IF failed
     THEN pc' = "idle" /\ UNCHANGED <<bus, swim, critical>>
     ELSE writeByte("csr", SwimCsr, 160)
  /\ UNCHANGED <<_ok, remaining, nrst>>

CsrDone ==
  /\ pc = "done" /\ job = "csr"
  /\ answered' = (answered /\ acked)
  /\ IF failed
     THEN UNCHANGED <<nrst, _ok>>
     ELSE nrst' = ReleasedFrom(nrst) /\ _ok' = TRUE
  /\ pc' = "idle"
  /\ UNCHANGED <<bus, remaining, swim, critical>>

------------------------------------------------------------------------------
(* The other commands of the loop.                                         *)

\* H and R: block after block until one fails.
NextBlock(rem) ==
  /\ remaining' = rem
  /\ IF rem > 0
     THEN readBlock("dump", FlashStart + FlashSize - rem, IF rem < BlockSize THEN rem ELSE BlockSize)
     ELSE pc' = "idle" /\ UNCHANGED <<bus, swim, critical>>
dumpFlash ==
  /\ pc = "idle"
  /\ NextBlock(FlashSize)
  /\ UNCHANGED <<_ok, nrst, answered>>
BlockDone ==
  /\ pc = "done" /\ job = "dump"
  /\ NextBlock(IF failed \/ remaining < BlockSize THEN 0 ELSE remaining - BlockSize)
  /\ UNCHANGED <<_ok, nrst, answered>>

\* I: status, the first flash bytes, the option bytes, each read whether or
\* not the one before could be.
cmdInfo ==
  /\ pc = "idle"
  /\ readByte("csr info", SwimCsr)
  /\ UNCHANGED <<_ok, remaining, nrst, answered>>
InfoFlash ==
  /\ pc = "done" /\ job = "csr info"
  /\ readBlock("flash info", FlashStart, 16)
  /\ UNCHANGED <<_ok, remaining, nrst, answered>>
dumpOptionBytes ==
  /\ pc = "done" /\ job = "flash info"
  /\ readBlock("status", OptionStart, 128)
  /\ UNCHANGED <<_ok, remaining, nrst, answered>>

\* S; C again, W, ? and anything else touch nothing.
cmdStatus ==
  /\ pc = "idle" /\ _ok
  /\ readByte("status", SwimCsr)
  /\ UNCHANGED <<_ok, remaining, nrst, answered>>
StatusDone ==
  /\ pc = "done" /\ job = "status"
  /\ pc' = "idle"
  /\ UNCHANGED <<_ok, bus, remaining, pins, critical, answered>>

\* B: a pulse on NRST, which is then released.
cmdBslEntry ==
  /\ pc = "idle"
  /\ nrst' = ReleasedFrom(Driven("low"))
  /\ UNCHANGED <<_ok, pc, bus, remaining, swim, critical, answered>>

\* D: pulls NRST and SWIM both ways, then begin().
cmdDiagnostic ==
  /\ pc = "idle"
  /\ nrst' = Driven("high") /\ swim' = ReleasedFrom(Driven("low"))
  /\ UNCHANGED <<_ok, pc, bus, remaining, critical, answered>>

Next ==
  \/ Acknowledged \/ Refused \/ Silent \/ ReadByteOk \/ ReadByteBad \/ Transferred
  \/ cmdConnect \/ SwimEntryTimeout \/ SwimEntry \/ SrstDone \/ CsrDone
  \/ dumpFlash \/ BlockDone \/ cmdInfo \/ InfoFlash \/ dumpOptionBytes
  \/ cmdStatus \/ StatusDone \/ cmdBslEntry \/ cmdDiagnostic

Spec == Init /\ [][Next]_vars

------------------------------------------------------------------------------
(* Properties.                                                             *)

\* stm8_swim.h:25: connect() returns true if the target acknowledged.  Of a
\* connect() that has ended, then: if every answer it asked for came, the
\* object is connected.
AcknowledgedConnects == pc = "idle" /\ answered => _ok
=============================================================================
