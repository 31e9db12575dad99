----------------------------- MODULE RegisterFile -----------------------------
(***************************************************************************)
(* What everything above the SPI bus relies on: registers and a FIFO that  *)
(* are accessed one at a time, each access taking effect at one instant    *)
(* between its call and its return.  The chip changes its flags, and fills *)
(* or empties its FIFO, whenever it likes.                                 *)
(***************************************************************************)
EXTENDS Sequences

CONSTANTS Addr, Byte, Ones,  \* addresses, values, the value with all bits set
          Kept,              \* addresses the chip does not write itself
          Turned(_)          \* the registers turn the FIFO to being written

VARIABLES regs, fifo,  \* the chip
          access,      \* the access in progress
          done, value, \* has it taken effect, and what does it bring
          reply        \* what the last access returned, until the next one

vars == <<regs, fifo, access, done, value, reply>>

NoAccess == [op |-> "none"]

Accesses ==
       [op : {"write"}, a : Addr, v : Byte] \cup [op : {"read"}, a : Addr]
  \cup [op : {"push"}, v : Byte] \cup [op : {"pop"}]

Init ==
  /\ regs \in [Addr -> Byte] /\ fifo = <<>>
  /\ access = NoAccess /\ ~done /\ value = <<>> /\ reply = <<>>

Call ==
  /\ access = NoAccess
  /\ access' \in Accesses /\ reply' = <<>>
  /\ UNCHANGED <<regs, fifo, done, value>>

Pending(op) == access.op = op /\ ~done

Write ==
  /\ Pending("write")
  /\ regs' = [regs EXCEPT ![access.a] = access.v]
  /\ done'
  /\ UNCHANGED <<fifo, access, value, reply>>

Read ==
  /\ Pending("read")
  /\ done' /\ value' = regs[access.a]
  /\ UNCHANGED <<regs, fifo, access, reply>>

\* A byte written to a FIFO turned the other way is lost.
Push ==
  /\ Pending("push")
  /\ fifo' = IF Turned(regs) THEN Append(fifo, access.v) ELSE fifo
  /\ done'
  /\ UNCHANGED <<regs, access, value, reply>>

\* An empty FIFO, or one turned the other way, reads as ones.
Pop ==
  /\ Pending("pop")
  /\ done'
  /\ IF fifo = <<>> \/ Turned(regs)
     THEN value' = Ones /\ UNCHANGED fifo
     ELSE value' = Head(fifo) /\ fifo' = Tail(fifo)
  /\ UNCHANGED <<regs, access, reply>>

Return ==
  /\ done
  /\ reply' = value
  /\ access' = NoAccess /\ ~done' /\ value' = <<>>
  /\ UNCHANGED <<regs, fifo>>

Flags ==
  /\ regs' \in [Addr -> Byte] /\ \A a \in Kept : regs'[a] = regs[a]
  /\ UNCHANGED <<fifo, access, done, value, reply>>

\* A byte received, or one sent.
PacketHandler ==
  /\ \/ ~Turned(regs) /\ \E v \in Byte : fifo' = Append(fifo, v)
     \/ Turned(regs) /\ fifo # <<>> /\ fifo' = Tail(fifo)
  /\ UNCHANGED <<regs, access, done, value, reply>>

Next == Call \/ Write \/ Read \/ Push \/ Pop \/ Return \/ Flags \/ PacketHandler
Spec == Init /\ [][Next]_vars
=============================================================================
