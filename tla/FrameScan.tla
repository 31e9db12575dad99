------------------------------ MODULE FrameScan ------------------------------
(***************************************************************************)
(* What the receive window does with one assembled packet: find the        *)
(* telegram header, walk the EN 13757 blocks, accept the annex signature,  *)
(* try to repair the first failing block, and copy the telegram without    *)
(* its CRCs to the consumer - as an ASCII feed line (esp32s3 build) or as  *)
(* a binary indication (im871a build).                                     *)
(*                                                                         *)
(* A telegram starts with a 10-byte header (whose first byte L counts the  *)
(* data bytes after it) and its CRC, then blocks of 16 data bytes, the     *)
(* last one shorter, each with a CRC.  Of the bytes only this is kept: at  *)
(* which offset a header is found, its L, and which blocks fail their CRC. *)
(***************************************************************************)
EXTENDS Integers

CONSTANTS
  Packets,   \* the packets the assembly may hand over
  Buf,       \* sizeof(asmBuf), and of the emitter's out buffer (128)
  IndMax     \* payload bytes hciSendFrame takes (96)

\* A packet: its length, the offset of the first valid header and the L byte
\* there, whether the manufacturer is the one of the annex rule, the blocks
\* whose CRC fails, and which of the repair's edits would make them all hold.
Packet == [len : 0..Buf, off : Nat, L : 10..240, eie : BOOLEAN,
           bad : SUBSET Nat, cure : {"none", "single", "combined"}]

ASSUME ScanAssumption ==
  /\ Buf \in Nat /\ IndMax \in Nat
  /\ Packets \subseteq Packet /\ \A p \in Packets : p.off + 11 < p.len

VARIABLES
  build,            \* "feed" or "hci": the consumer this firmware serves
  pc,               \* where the scan of the packet stands
  pkt,              \* the packet (its bad blocks shrink when repaired)
  pos, rem,         \* block walk: next block, data bytes left
  b2, annex,        \* verdict of the walk, annex accepted
  failPos, failRem, \* first failing block, data bytes from there on
  fpos, frem,       \* copy loop: next block, data bytes left
  outLen, top,      \* bytes copied, and one past the highest index read
  sent              \* what the consumer was given

walk == <<pos, rem, b2, annex, failPos, failRem>>
copy == <<fpos, frem, outLen, top>>
vars == <<build, pc, pkt, walk, copy, sent>>

------------------------------------------------------------------------------
(* The block structure.                                                    *)

SmallerOf(a, b) == IF a < b THEN a ELSE b

\* Mutant of BlockLen: the last block taken for a whole one.
BlockLenWhole(left) == 16

BlockLen(left) == SmallerOf(left, 16)

\* Blocks are 18 bytes apart and the first one follows header and CRC.
BlockAt(p) == (p - 12) \div 18
Blocks(L) == (L - 9 + 15) \div 16
FrameSize(L) == 12 + (L - 9) + 2 * Blocks(L)

b2ok == b2 \in {"BOK", "BOKA", "RPR"}

NoPacket == [len |-> 0, off |-> 0, L |-> 10, eie |-> FALSE, bad |-> {}, cure |-> "none"]
NotSent  == [kind |-> "none", lbyte |-> 0, size |-> 0]

Init ==
  /\ build \in {"feed", "hci"}
  /\ pc = "idle" /\ pkt = NoPacket
  /\ pos = 0 /\ rem = 0 /\ b2 = "B-" /\ annex = FALSE /\ failPos = 0 /\ failRem = 0
  /\ fpos = 0 /\ frem = 0 /\ outLen = 0 /\ top = 0 /\ sent = NotSent

------------------------------------------------------------------------------
(* Scan and block walk.                                                    *)

\* The scan stops at the first offset with a valid header of a SND_NR frame.
FindHeader ==
  /\ pc = "idle"
  /\ \E p \in Packets : pkt' = p /\ rem' = p.L - 9
  /\ pos' = 12
  /\ pc' = "walk"
  /\ UNCHANGED <<build, b2, annex, failPos, failRem, copy, sent>>

\* The packet ends inside the block.
WalkTruncated ==
  /\ pc = "walk" /\ rem # 0
  /\ pkt.off + pos + BlockLen(rem) + 2 > pkt.len
  /\ b2' = "B?"
  /\ pc' = "judge"
  /\ UNCHANGED <<build, pkt, pos, rem, annex, failPos, failRem, copy, sent>>

\* The CRC of the block fails: the walk ends and remembers where.
WalkBad ==
  /\ pc = "walk" /\ rem # 0
  /\ pkt.off + pos + BlockLen(rem) + 2 <= pkt.len
  /\ BlockAt(pos) \in pkt.bad
  /\ b2' = "BBAD"
  /\ failPos' = pos /\ failRem' = rem
  /\ pc' = "judge"
  /\ UNCHANGED <<build, pkt, pos, rem, annex, copy, sent>>

WalkGood ==
  /\ pc = "walk" /\ rem # 0
  /\ pkt.off + pos + BlockLen(rem) + 2 <= pkt.len
  /\ BlockAt(pos) \notin pkt.bad
  /\ pos' = pos + BlockLen(rem) + 2
  /\ rem' = rem - BlockLen(rem)
  /\ UNCHANGED <<build, pc, pkt, b2, annex, failPos, failRem, copy, sent>>

WalkEnd ==
  /\ pc = "walk" /\ rem = 0
  /\ b2' = "BOK"
  /\ pc' = "judge"
  /\ UNCHANGED <<build, pkt, pos, rem, annex, failPos, failRem, copy, sent>>

------------------------------------------------------------------------------
(* The two ways a frame that failed the walk is still accepted.            *)

\* Mutant of AnnexSignature: taken from the fourth block on, one too early.
AnnexSignatureEarly ==
  /\ ~b2ok
  /\ failPos >= 66
  /\ pkt.L = 94 /\ pkt.eie
  /\ pkt.len - (pkt.off + failPos) >= 20

\* An annex telegram carries block CRCs on its first four blocks only.
AnnexSignature ==
  /\ ~b2ok
  /\ failPos >= 84
  /\ pkt.L = 94 /\ pkt.eie
  /\ pkt.len - (pkt.off + failPos) >= 20

JudgeAnnex ==
  /\ pc = "judge"
  /\ IF AnnexSignature
     THEN b2' = "BOKA" /\ annex' = TRUE
     ELSE UNCHANGED <<b2, annex>>
  /\ pc' = "repair"
  /\ UNCHANGED <<build, pkt, pos, rem, failPos, failRem, copy, sent>>

\* The tail the repair edits, as the code counts it: to len - failPos bytes
\* behind the failing block, which is off bytes more than the packet holds.
TailLen == pkt.len - failPos

\* Mutant of RepairFits: the write back to asmBuf is not checked.
RepairFitsTailOnly ==
  /\ pkt.len - failPos >= BlockLen(failRem) + 2
  /\ pkt.len - failPos <= Buf

RepairFits ==
  /\ TailLen >= BlockLen(failRem) + 2
  /\ TailLen <= Buf
  /\ pkt.off + failPos + TailLen <= Buf

\* cmtTailBlocksOk on an edited tail: all blocks to the end of the frame lie
\* in it and hold.
TailWhole == FrameSize(pkt.L) - failPos <= TailLen

\* One-bit edits first; if none helps, a shift with a flip next to it, only
\* when a second block CRC vouches for the result.
Cured ==
  /\ ~b2ok /\ failPos # 0
  /\ RepairFits
  /\ TailWhole
  /\ \/ pkt.cure = "single"
     \/ pkt.cure = "combined" /\ failRem > 16

\* Mutant of Repair: what could not be repaired is walked again.
RepairAndRewalk ==
  /\ pc = "repair"
  /\ IF Cured
     THEN b2' = "RPR" /\ pkt' = [pkt EXCEPT !.bad = {}]
     ELSE UNCHANGED <<b2, pkt>>
  /\ pc' = IF b2ok \/ Cured THEN "deliver" ELSE "walk"
  /\ UNCHANGED <<build, pos, rem, annex, failPos, failRem, copy, sent>>

Repair ==
  /\ pc = "repair"
  /\ IF Cured
     THEN b2' = "RPR" /\ pkt' = [pkt EXCEPT !.bad = {}]
     ELSE UNCHANGED <<b2, pkt>>
  /\ pc' = "deliver"
  /\ UNCHANGED <<build, pos, rem, annex, failPos, failRem, copy, sent>>

------------------------------------------------------------------------------
(* Delivery.  The feed takes verified frames only; hciIndSend is called    *)
(* for every header and drops what is incomplete.  (HciShim has its gates  *)
(* on the daemon's configuration and the detect window.)                   *)

Drop == pc' = "sent" /\ UNCHANGED <<copy, sent>>

\* Mutant of AnnexLen: the CRCs of the blocks in front of the tail counted.
AnnexLenWithCrcs == 10 + (failPos - 12) + (pkt.len - failPos)

\* Length of an annex telegram without its CRCs: the tail has none.
AnnexLen == 10 + (failPos - 12) - 2 * ((failPos - 12) \div 18) + (pkt.len - failPos)

IndRefused ==
  IF annex
  THEN failPos < 12 \/ pkt.len < pkt.off + failPos + 20 \/ AnnexLen > Buf
  ELSE pkt.len < pkt.off + 11 \/ pkt.L < 9 \/ pkt.L + 1 > Buf

\* Mutant of Deliver: the feed takes every frame with a header.
DeliverUngated ==
  /\ pc = "deliver"
  /\ \/ build = "hci" /\ IndRefused /\ Drop
     \/ /\ build = "feed" \/ ~IndRefused
        /\ pc' = "copy"
        /\ outLen' = 10 /\ fpos' = 12
        /\ frem' = IF annex THEN failPos - 12 ELSE pkt.L - 9
        /\ top' = pkt.off + 10
        /\ UNCHANGED sent
  /\ UNCHANGED <<build, pkt, walk>>

Deliver ==
  /\ pc = "deliver"
  /\ \/ /\ \/ build = "feed" /\ ~b2ok
           \/ build = "hci" /\ IndRefused
        /\ Drop
     \/ /\ \/ build = "feed" /\ b2ok
           \/ build = "hci" /\ ~IndRefused
        /\ pc' = "copy"
        /\ outLen' = 10 /\ fpos' = 12
        /\ frem' = IF annex THEN failPos - 12 ELSE pkt.L - 9
        /\ top' = pkt.off + 10
        /\ UNCHANGED sent
  /\ UNCHANGED <<build, pkt, walk>>

\* Mutant of CopyBlock: no look at the end of the packet.
CopyBlockBlind ==
  /\ pc = "copy" /\ ~annex /\ frem > 0
  /\ outLen' = outLen + BlockLen(frem)
  /\ top' = pkt.off + fpos + BlockLen(frem)
  /\ fpos' = fpos + BlockLen(frem) + 2
  /\ frem' = frem - BlockLen(frem)
  /\ UNCHANGED <<pc, sent, build, pkt, walk>>

\* One block of a frame all of whose data is block-coded.
CopyBlock ==
  /\ pc = "copy" /\ ~annex /\ frem > 0
  /\ IF build = "hci" /\ pkt.off + fpos + BlockLen(frem) > pkt.len
     THEN Drop
     ELSE /\ outLen' = outLen + BlockLen(frem)
          /\ top' = pkt.off + fpos + BlockLen(frem)
          /\ fpos' = fpos + BlockLen(frem) + 2
          /\ frem' = frem - BlockLen(frem)
          /\ UNCHANGED <<pc, sent>>
  /\ UNCHANGED <<build, pkt, walk>>

\* One of the block-coded blocks in front of an annex tail, copied alike by
\* hciIndSend and the feed; frem counts the bytes, CRCs included, up to the
\* tail.
CopyPrefix ==
  /\ pc = "copy" /\ annex /\ frem > 0
  /\ outLen' = outLen + 16
  /\ top' = pkt.off + fpos + 16
  /\ fpos' = fpos + 18
  /\ frem' = frem - 18
  /\ UNCHANGED <<build, pc, pkt, walk, sent>>

\* The feed line, with the L byte of the frame, or for an annex the length
\* recomputed.  It is dropped where the serial ring has no room for it.
FeedLine(n) ==
  /\ build = "feed"
  /\ \/ sent' = NotSent
     \/ sent' = [kind |-> "feed", size |-> n, lbyte |-> IF annex THEN AnnexLen - 1 ELSE pkt.L]

\* Mutant of Indication: the L byte counts.
IndicationWithL(n) ==
  /\ build = "hci"
  /\ sent' = IF n > IndMax THEN NotSent ELSE [kind |-> "hci", size |-> n, lbyte |-> n - 1]

\* The indication carries what is behind the L byte.  One too long for a frame
\* to the daemon is dropped.
Indication(n) ==
  /\ build = "hci"
  /\ sent' = IF n - 1 > IndMax THEN NotSent ELSE [kind |-> "hci", size |-> n, lbyte |-> n - 1]

Handover(n) == FeedLine(n) \/ Indication(n)

EmitFrame ==
  /\ pc = "copy" /\ ~annex /\ frem = 0
  /\ Handover(outLen)
  /\ pc' = "sent"
  /\ UNCHANGED <<build, pkt, walk, copy>>

EmitAnnex ==
  /\ pc = "copy" /\ annex /\ frem = 0
  /\ outLen' = outLen + TailLen
  /\ top' = pkt.off + pkt.len
  /\ Handover(outLen')
  /\ pc' = "sent"
  /\ UNCHANGED <<build, pkt, walk, fpos, frem>>

\* The locals of the scan go out of scope; the window waits for a packet.
Finish ==
  /\ pc = "sent"
  /\ pc' = "idle" /\ pkt' = NoPacket
  /\ pos' = 0 /\ rem' = 0 /\ b2' = "B-" /\ annex' = FALSE /\ failPos' = 0 /\ failRem' = 0
  /\ fpos' = 0 /\ frem' = 0 /\ outLen' = 0 /\ top' = 0 /\ sent' = NotSent
  /\ UNCHANGED build

Proceed ==
  \/ WalkTruncated \/ WalkBad \/ WalkGood \/ WalkEnd
  \/ JudgeAnnex \/ Repair
  \/ Deliver \/ CopyBlock \/ CopyPrefix \/ EmitFrame \/ EmitAnnex
  \/ Finish

Next == FindHeader \/ Proceed

\* A packet need never come; the scan of one runs on, being straight-line code.
Spec == Init /\ [][Next]_vars
FairSpec == Spec /\ WF_vars(Proceed)

------------------------------------------------------------------------------
(* Properties.                                                             *)

TypeOK ==
  /\ build \in {"feed", "hci"}
  /\ pc \in {"idle", "walk", "judge", "repair", "deliver", "copy", "sent"}
  /\ pkt \in Packet
  /\ pos \in Nat /\ rem \in Nat
  /\ b2 \in {"B-", "B?", "BBAD", "BOK", "BOKA", "RPR"}
  /\ annex \in BOOLEAN
  /\ failPos \in Nat /\ failRem \in Nat
  /\ fpos \in Nat /\ frem \in Nat /\ outLen \in Nat /\ top \in Nat
  /\ sent.kind \in {"none", "feed", "hci"} /\ sent.lbyte \in Nat /\ sent.size \in Nat

InFrame(k) == k < Blocks(pkt.L)

\* The packet holds the frame to its end.
FrameWhole == pkt.off + FrameSize(pkt.L) <= pkt.len

\* The verdict says what the blocks are: BOK means every block up to the end
\* of the frame lies in the packet and holds; BBAD and BOKA name the first
\* failing block, and BOKA has four good ones before it; RPR leaves none.
VerdictSound ==
  /\ b2 = "BOK" => /\ FrameWhole
                   /\ \A k \in pkt.bad : ~InFrame(k)
  /\ b2 \in {"BBAD", "BOKA"} =>
       /\ BlockAt(failPos) \in pkt.bad /\ InFrame(BlockAt(failPos))
       /\ \A k \in pkt.bad : k >= BlockAt(failPos)
       /\ failRem = pkt.L - 9 - 16 * BlockAt(failPos)
  /\ b2 = "BOKA" => pkt.L = 94 /\ \A k \in pkt.bad : k >= 4
  /\ b2 = "RPR" => pkt.bad = {}
  /\ b2 = "B?" => ~FrameWhole

\* A repaired tail was read from and is written back to asmBuf (the code
\* copies TailLen bytes): it ends inside the buffer.
RepairInsideBuffer == b2 = "RPR" => pkt.off + failPos + TailLen <= Buf

\* wmbusmeters takes the L byte for the length of the rest: it must be one
\* less than the bytes handed over, and is the frame's own L except for an
\* annex, whose CRC-less tail changes the count.
LengthByteTrue ==
  sent.kind # "none" =>
    /\ sent.size = sent.lbyte + 1
    /\ ~annex => sent.lbyte = pkt.L

\* Copying stays inside the packet for every indication that is not an
\* annex, and never runs further than the off bytes by which the code
\* overcounts the tail of an annex or of a repaired frame.
CopyInside ==
  /\ build = "hci" /\ ~annex => top <= pkt.len
  /\ top <= pkt.off + pkt.len
  /\ build = "hci" => outLen <= Buf

\* The feed only gets frames whose blocks hold, but for the tail of an annex.
FeedVerified ==
  sent.kind = "feed" =>
    \/ \A k \in pkt.bad : ~InFrame(k)
    \/ annex /\ \A k \in pkt.bad : k >= 4

\* Every frame called good - BOK, BOKA or RPR, as main.cpp:2418 has it - is
\* sent to the daemon if its content fits an indication: hciIndSend, which
\* looks at the packet's end by itself, drops none on the way.  One kind of
\* repaired frame is excepted: the repair overcounts the tail by off bytes, and
\* a frame whose end it found there, behind the packet, is dropped.
VerifiedReachesDaemon ==
  pc = "sent" /\ build = "hci" =>
    /\ b2 = "BOK" /\ pkt.L <= IndMax => sent.kind = "hci"
    /\ b2 = "RPR" /\ FrameWhole /\ pkt.L <= IndMax => sent.kind = "hci"
    /\ b2 = "BOKA" /\ AnnexLen - 1 <= IndMax => sent.kind = "hci"

\* Each packet is done with: the window gets back to its FIFO.
ScanEnds == (pc = "walk") ~> (pc = "idle")

\* ADR 0006, item 2: "BBAD frames are never sent as INDs".
BBADNeverSent == sent.kind = "hci" => b2 # "BBAD"
=============================================================================
