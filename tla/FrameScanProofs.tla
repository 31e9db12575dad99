--------------------------- MODULE FrameScanProofs ---------------------------
(***************************************************************************)
(* Proofs about FrameScan: the verdict on a packet is what its blocks are, *)
(* repair and copy stay inside their buffers, and the consumer is given    *)
(* verified frames with the right length - for any set of packets, L bytes *)
(* from 10 to 240, and buffers of any size.                                *)
(***************************************************************************)
EXTENDS FrameScan, TLAPS

\* A walk of a frame with length byte L stands in front of a block, with left
\* data bytes to come, or has come to the end of the frame.
AtBlock(L, p, left) ==
  /\ BlockAt(p) \in Nat /\ p = 12 + 18 * BlockAt(p)
  /\ left = L - 9 - 16 * BlockAt(p) /\ left > 0
AtEnd(L, p, left) == left = 0 /\ p = FrameSize(L)

\* What is not yet set when the scan of a packet has come so far.
Unset ==
  /\ pc \in {"idle", "walk"} => b2 = "B-" /\ ~annex /\ failPos = 0
  /\ pc = "judge" => b2 \in {"B?", "BBAD", "BOK"} /\ ~annex
  /\ pc \in {"idle", "walk", "judge", "repair", "deliver"} => outLen = 0 /\ top = 0
  /\ pc # "sent" => sent = NotSent
  /\ pc # "idle" => pkt.off + 11 < pkt.len

\* The blocks behind the walk lie in the packet and hold.
WalkFollows ==
  pc = "walk" =>
    \/ /\ AtBlock(pkt.L, pos, rem)
       /\ \A k \in pkt.bad : k >= BlockAt(pos)
    \/ /\ AtEnd(pkt.L, pos, rem)
       /\ pkt.off + pos <= pkt.len
       /\ \A k \in pkt.bad : ~InFrame(k)

\* The first failing block, once one is known, is a block of the frame; the
\* annex and the repair have been granted for what they require.
FailureKnown ==
  /\ b2 \in {"B-", "B?", "BOK"} => failPos = 0
  /\ b2 \in {"BBAD", "BOKA", "RPR"} => AtBlock(pkt.L, failPos, failRem)
  /\ annex <=> b2 = "BOKA"
  /\ b2 = "BOKA" => failPos >= 84 /\ pkt.len - (pkt.off + failPos) >= 20
  /\ b2 = "RPR" => FrameSize(pkt.L) <= pkt.len

\* The copy loop has copied the data of the blocks behind it.
CopyFollows ==
  pc = "copy" =>
    /\ build = "feed" => b2ok
    /\ build = "hci" => ~IndRefused
    /\ ~annex =>
         /\ \/ AtBlock(pkt.L, fpos, frem) /\ outLen = 10 + 16 * BlockAt(fpos)
            \/ AtEnd(pkt.L, fpos, frem) /\ outLen = pkt.L + 1
         /\ top <= pkt.off + fpos - 2
    /\ annex =>
         /\ BlockAt(fpos) \in Nat /\ fpos = 12 + 18 * BlockAt(fpos)
         /\ frem = failPos - fpos
         /\ outLen = 10 + 16 * BlockAt(fpos)
         /\ top <= pkt.off + fpos

IInv ==
  /\ TypeOK /\ Unset /\ WalkFollows /\ FailureKnown /\ CopyFollows
  /\ VerdictSound /\ RepairInsideBuffer /\ LengthByteTrue /\ CopyInside
  /\ FeedVerified /\ VerifiedReachesDaemon

------------------------------------------------------------------------------
(* The block structure: lemmas about BlockLen, BlockAt, Blocks, FrameSize.  *)

\* Blocks start 18 bytes apart.
LEMMA BlockAtStart == \A j \in Nat : BlockAt(12 + 18 * j) = j
  BY DEF BlockAt

\* A block has 1 to 16 data bytes, and less than 16 only when it is the last.
LEMMA BlockLenFacts ==
  \A left \in Nat : left > 0 =>
    /\ BlockLen(left) \in 1..16 /\ BlockLen(left) <= left
    /\ left <= 16 => BlockLen(left) = left
    /\ left > 16 => BlockLen(left) = 16
  BY DEF BlockLen, SmallerOf

\* The number of blocks is the data bytes divided by 16, rounded up; every
\* one of them brings two bytes of CRC into the frame.
LEMMA FrameFacts ==
  \A L \in 10..240 :
    /\ Blocks(L) \in Nat
    /\ 16 * Blocks(L) >= L - 9 /\ 16 * Blocks(L) < L + 7
    /\ FrameSize(L) \in Nat /\ FrameSize(L) = L + 3 + 2 * Blocks(L)
  BY DEF Blocks, FrameSize

\* The block a walk stands in front of is one of the frame, and ends in it.
LEMMA BlockInFrame ==
  ASSUME NEW L \in 10..240, NEW p \in Nat, NEW left \in Nat, AtBlock(L, p, left)
  PROVE  /\ BlockAt(p) \in Nat /\ BlockAt(p) < Blocks(L)
         /\ p + BlockLen(left) + 2 <= FrameSize(L)
<1> DEFINE j == BlockAt(p)
<1>1. /\ j \in Nat /\ p = 12 + 18 * j
      /\ left = L - 9 - 16 * j /\ left > 0
  BY DEF AtBlock
<1>2. /\ Blocks(L) \in Nat /\ 16 * Blocks(L) >= L - 9 /\ 16 * Blocks(L) < L + 7
      /\ FrameSize(L) \in Nat /\ FrameSize(L) = L + 3 + 2 * Blocks(L)
  BY FrameFacts
<1>3. /\ BlockLen(left) \in 1..16 /\ BlockLen(left) <= left
  BY BlockLenFacts, <1>1
<1> HIDE DEF j
<1>4. j < Blocks(L)
  BY <1>1, <1>2
<1>5. p + BlockLen(left) + 2 <= FrameSize(L)
  BY <1>1, <1>2, <1>3, <1>4
<1>6. QED  BY <1>1, <1>4, <1>5 DEF j

\* Behind a block comes the next one, or the end of the frame.
LEMMA NextBlock ==
  ASSUME NEW L \in 10..240, NEW p \in Nat, NEW left \in Nat, AtBlock(L, p, left),
         NEW q \in Nat, NEW more \in Nat,
         q = p + BlockLen(left) + 2, more = left - BlockLen(left)
  PROVE  \/ /\ AtBlock(L, q, more)
            /\ BlockAt(q) = BlockAt(p) + 1
         \/ /\ AtEnd(L, q, more)
            /\ Blocks(L) = BlockAt(p) + 1
<1> DEFINE j == BlockAt(p)
<1>1. /\ j \in Nat /\ p = 12 + 18 * j
      /\ left = L - 9 - 16 * j /\ left > 0
  BY DEF AtBlock
<1>2. /\ Blocks(L) \in Nat /\ 16 * Blocks(L) >= L - 9 /\ 16 * Blocks(L) < L + 7
      /\ FrameSize(L) \in Nat /\ FrameSize(L) = L + 3 + 2 * Blocks(L)
  BY FrameFacts
<1> HIDE DEF j
<1>3. CASE left > 16
  <2>1. BlockLen(left) = 16
    BY <1>3, BlockLenFacts
  <2>2. q = 12 + 18 * (j + 1) /\ j + 1 \in Nat
    BY <2>1, <1>1
  <2>3. BlockAt(q) = j + 1
    BY <2>2, BlockAtStart, Zenon
  <2>4. more = L - 9 - 16 * (j + 1) /\ more > 0
    BY <2>1, <1>1, <1>3
  <2>5. AtBlock(L, q, more)
    BY <2>2, <2>3, <2>4, Zenon DEF AtBlock
  <2>6. QED  BY <2>1, <2>3, <2>5, Zenon DEF j
<1>4. CASE left <= 16
  <2>1. BlockLen(left) = left
    BY <1>1, <1>4, BlockLenFacts
  <2>2. Blocks(L) = j + 1
    BY <1>1, <1>2, <1>4
  <2>3. more = 0
    BY <2>1
  <2>4. q = FrameSize(L)
    BY <2>1, <2>2, <1>1, <1>2
  <2>5. QED  BY <2>1, <2>2, <2>3, <2>4, Zenon DEF AtEnd, j
<1>5. QED  BY <1>3, <1>4

\* The first block follows the header and its CRC.
LEMMA FirstBlock ==
  ASSUME NEW L \in 10..240
  PROVE  AtBlock(L, 12, L - 9) /\ BlockAt(12) = 0
<1>1. BlockAt(12 + 18 * 0) = 0
  BY BlockAtStart, Zenon
<1>2. BlockAt(12) = 0
  BY <1>1
<1>3. QED  BY <1>2 DEF AtBlock

\* An annex telegram without its CRCs: what precedes the tail loses two bytes
\* a block, and no more than len bytes are left.
LEMMA AnnexLenFacts ==
  ASSUME NEW j \in Nat, failPos = 12 + 18 * j,
         pkt.len \in Nat, pkt.off \in Nat, failPos \in Nat
  PROVE  AnnexLen = 10 + 16 * j + (pkt.len - failPos)
<1>1. (failPos - 12) \div 18 = j
  BY BlockAtStart DEF BlockAt
<1> DEFINE k == (failPos - 12) \div 18
<1>2. k = j
  BY <1>1
<1> HIDE DEF k
<1>3. 10 + (failPos - 12) - 2 * k + (pkt.len - failPos) = 10 + 16 * j + (pkt.len - failPos)
  BY <1>2
<1>4. QED  BY <1>3, Zenon DEF AnnexLen, k

------------------------------------------------------------------------------
(* The inductive invariant: what it says of the packet, and the initial     *)
(* state.                                                                   *)

\* What the type of a packet means for its numbers.
LEMMA PacketFacts ==
  ASSUME TypeOK
  PROVE  /\ pkt.len \in Nat /\ pkt.len <= Buf /\ Buf \in Nat
         /\ pkt.off \in Nat /\ pkt.L \in 10..240 /\ pkt.L \in Nat
         /\ pkt.bad \subseteq Nat
  BY ScanAssumption DEF TypeOK, Packet

LEMMA InitInvariant == Init => IInv
<1> SUFFICES ASSUME Init PROVE IInv
  OBVIOUS
<1>1. Buf \in Nat
  BY ScanAssumption
<1>2. /\ pc = "idle" /\ b2 = "B-" /\ ~annex /\ failPos = 0 /\ outLen = 0 /\ top = 0
      /\ sent = NotSent
  BY DEF Init
<1>3. NoPacket \in Packet
  BY <1>1 DEF NoPacket, Packet
<1>4. /\ sent.kind = "none" /\ sent.lbyte = 0 /\ sent.size = 0
  BY <1>2 DEF NotSent
<1>5. TypeOK
  <2>1. /\ pos \in Nat /\ rem \in Nat /\ failPos \in Nat /\ failRem \in Nat
        /\ fpos \in Nat /\ frem \in Nat /\ outLen \in Nat /\ top \in Nat
        /\ annex \in BOOLEAN
    BY DEF Init
  <2>2. sent.lbyte \in Nat /\ sent.size \in Nat
    BY <1>4
  <2>3. build \in {"feed", "hci"} /\ pkt \in Packet
    BY <1>3, Zenon DEF Init
  <2>4. QED  BY <2>1, <2>2, <2>3, <1>2, <1>4, Zenon DEF TypeOK
<1>6. /\ pkt.len = 0 /\ pkt.off = 0
  BY DEF Init, NoPacket
<1>7. Unset /\ WalkFollows /\ FailureKnown /\ CopyFollows
  BY <1>2 DEF Unset, WalkFollows, FailureKnown, CopyFollows
<1>8. VerdictSound /\ RepairInsideBuffer
  BY <1>2 DEF VerdictSound, RepairInsideBuffer
<1>9. LengthByteTrue /\ FeedVerified /\ VerifiedReachesDaemon
  BY <1>2, <1>4 DEF LengthByteTrue, FeedVerified, VerifiedReachesDaemon
<1>10. CopyInside
  BY <1>1, <1>2, <1>6 DEF CopyInside
<1>11. QED  BY <1>5, <1>7, <1>8, <1>9, <1>10 DEF IInv

\* A step that leaves the consumer's side alone keeps what is said of it.
LEMMA DeliveryUntouched ==
  ASSUME IInv, pc # "sent", pc' # "sent", pc' # "copy",
         pc \in {"idle", "walk", "judge", "repair"},
         build' = build, pkt'.off \in Nat, pkt'.len \in Nat, copy' = copy, sent' = sent
  PROVE  /\ CopyFollows' /\ LengthByteTrue' /\ CopyInside' /\ FeedVerified'
         /\ VerifiedReachesDaemon'
<1>1. outLen = 0 /\ top = 0 /\ sent = NotSent
  BY DEF IInv, Unset
<1>2. outLen' = 0 /\ top' = 0 /\ sent' = NotSent
  BY <1>1 DEF copy
<1>3. sent'.kind = "none"
  BY <1>2 DEF NotSent
<1>4. Buf \in Nat
  BY ScanAssumption
<1>5. CopyInside'
  BY <1>2, <1>4 DEF CopyInside
<1>6. CopyFollows' /\ VerifiedReachesDaemon'
  BY DEF CopyFollows, VerifiedReachesDaemon
<1>7. LengthByteTrue' /\ FeedVerified'
  BY <1>3 DEF LengthByteTrue, FeedVerified
<1>8. QED  BY <1>5, <1>6, <1>7

------------------------------------------------------------------------------
(* Scan and block walk.                                                     *)

LEMMA FindHeaderKeeps == IInv /\ FindHeader => IInv'
<1> SUFFICES ASSUME IInv, FindHeader PROVE IInv'
  OBVIOUS
<1>1. pc = "idle" /\ TypeOK /\ Unset
  BY DEF IInv, FindHeader
<1>2. PICK p \in Packets : pkt' = p /\ rem' = p.L - 9
  BY DEF FindHeader
<1>3. /\ p \in Packet /\ p.off + 11 < p.len
  BY <1>2, ScanAssumption
<1>4. /\ p.len \in Nat /\ p.off \in Nat /\ p.L \in 10..240 /\ p.bad \subseteq Nat
  BY <1>3, ScanAssumption DEF Packet
<1>5. /\ b2 = "B-" /\ ~annex /\ failPos = 0 /\ outLen = 0 /\ top = 0 /\ sent = NotSent
  BY <1>1 DEF Unset
<1>6. /\ pc' = "walk" /\ pos' = 12 /\ build' = build /\ b2' = "B-" /\ annex' = annex
      /\ failPos' = 0 /\ failRem' = failRem /\ copy' = copy /\ sent' = sent
      /\ outLen' = 0 /\ top' = 0 /\ ~annex'
  BY <1>5 DEF FindHeader, copy
<1>7. TypeOK'
  <2>1. rem' \in Nat
    BY <1>2, <1>4
  <2>2. QED  BY <2>1, <1>1, <1>2, <1>3, <1>6 DEF TypeOK, copy
<1>8. Unset'
  BY <1>2, <1>3, <1>5, <1>6 DEF Unset
<1>9. WalkFollows'
  <2>1. AtBlock(p.L, 12, p.L - 9) /\ BlockAt(12) = 0
    BY FirstBlock, <1>4
  <2>2. \A k \in p.bad : k >= 0
    BY <1>4
  <2>3. QED  BY <2>1, <2>2, <1>2, <1>6 DEF WalkFollows
<1>10. FailureKnown' /\ VerdictSound' /\ RepairInsideBuffer'
  BY <1>6 DEF FailureKnown, VerdictSound, RepairInsideBuffer
<1>11. CopyFollows' /\ LengthByteTrue' /\ CopyInside' /\ FeedVerified' /\ VerifiedReachesDaemon'
  BY <1>1, <1>2, <1>4, <1>6, DeliveryUntouched
<1>12. QED  BY <1>7, <1>8, <1>9, <1>10, <1>11 DEF IInv

LEMMA WalkTruncatedKeeps == IInv /\ WalkTruncated => IInv'
<1> SUFFICES ASSUME IInv, WalkTruncated PROVE IInv'
  OBVIOUS
<1>1. pc = "walk" /\ TypeOK /\ Unset /\ WalkFollows /\ rem # 0
  BY DEF IInv, WalkTruncated
<1>2. /\ pc' = "judge" /\ b2' = "B?" /\ build' = build /\ pkt' = pkt /\ pos' = pos /\ rem' = rem
      /\ annex' = annex /\ failPos' = failPos /\ failRem' = failRem /\ copy' = copy /\ sent' = sent
  BY DEF WalkTruncated
<1>3. failPos = 0 /\ ~annex /\ outLen = 0 /\ top = 0 /\ sent = NotSent
  BY <1>1 DEF Unset
<1>4. outLen' = 0 /\ top' = 0
  BY <1>2, <1>3 DEF copy
<1>5. TypeOK'
  BY <1>1, <1>2 DEF TypeOK, copy
<1>6. Unset'
  BY <1>1, <1>2, <1>3, <1>4 DEF Unset
<1>7. WalkFollows' /\ FailureKnown' /\ RepairInsideBuffer'
  BY <1>2, <1>3 DEF WalkFollows, FailureKnown, RepairInsideBuffer
<1>8. VerdictSound'
  <2>1. AtBlock(pkt.L, pos, rem)
    BY <1>1 DEF WalkFollows, AtEnd
  <2>2. /\ pkt.len \in Nat /\ pkt.off \in Nat /\ pkt.L \in 10..240 /\ pos \in Nat /\ rem \in Nat
    BY <1>1, PacketFacts DEF TypeOK
  <2>3. rem > 0
    BY <1>1, <2>2
  <2>4. pos + BlockLen(rem) + 2 <= FrameSize(pkt.L)
    BY <2>1, <2>2, BlockInFrame
  <2>5. BlockLen(rem) \in Nat /\ FrameSize(pkt.L) \in Nat
    BY <2>2, <2>3, BlockLenFacts, FrameFacts
  <2>6. pkt.off + FrameSize(pkt.L) > pkt.len
    BY <2>2, <2>4, <2>5 DEF WalkTruncated
  <2>7. ~FrameWhole
    BY <2>2, <2>5, <2>6 DEF FrameWhole
  <2>8. ~FrameWhole'
    BY <2>7, <1>2 DEF FrameWhole
  <2>9. QED  BY <2>8, <1>2 DEF VerdictSound
<1>9. CopyFollows' /\ LengthByteTrue' /\ CopyInside' /\ FeedVerified' /\ VerifiedReachesDaemon'
  BY <1>1, <1>2, PacketFacts, DeliveryUntouched
<1>10. QED  BY <1>5, <1>6, <1>7, <1>8, <1>9 DEF IInv

LEMMA WalkBadKeeps == IInv /\ WalkBad => IInv'
<1> SUFFICES ASSUME IInv, WalkBad PROVE IInv'
  OBVIOUS
<1>1. pc = "walk" /\ TypeOK /\ Unset /\ WalkFollows /\ rem # 0 /\ BlockAt(pos) \in pkt.bad
  BY DEF IInv, WalkBad
<1>2. /\ pc' = "judge" /\ b2' = "BBAD" /\ build' = build /\ pkt' = pkt /\ pos' = pos /\ rem' = rem
      /\ annex' = annex /\ failPos' = pos /\ failRem' = rem /\ copy' = copy /\ sent' = sent
  BY DEF WalkBad
<1>3. ~annex /\ outLen = 0 /\ top = 0 /\ sent = NotSent
  BY <1>1 DEF Unset
<1>4. outLen' = 0 /\ top' = 0
  BY <1>2, <1>3 DEF copy
<1>5. TypeOK'
  BY <1>1, <1>2 DEF TypeOK, copy
<1>6. Unset'
  BY <1>1, <1>2, <1>3, <1>4 DEF Unset
<1>7. AtBlock(pkt.L, pos, rem) /\ \A k \in pkt.bad : k >= BlockAt(pos)
  BY <1>1 DEF WalkFollows, AtEnd
<1>8. WalkFollows' /\ FailureKnown' /\ RepairInsideBuffer'
  BY <1>2, <1>3, <1>7 DEF WalkFollows, FailureKnown, RepairInsideBuffer
<1>9. VerdictSound'
  <2>1. /\ pkt.L \in 10..240 /\ pos \in Nat /\ rem \in Nat
    BY <1>1, PacketFacts DEF TypeOK
  <2>2. InFrame(BlockAt(pos))
    BY <1>7, <2>1, BlockInFrame DEF InFrame
  <2>3. rem = pkt.L - 9 - 16 * BlockAt(pos)
    BY <1>7 DEF AtBlock
  <2>4. QED  BY <2>2, <2>3, <1>1, <1>2, <1>7 DEF VerdictSound, InFrame
<1>10. CopyFollows' /\ LengthByteTrue' /\ CopyInside' /\ FeedVerified' /\ VerifiedReachesDaemon'
  BY <1>1, <1>2, PacketFacts, DeliveryUntouched
<1>11. QED  BY <1>5, <1>6, <1>8, <1>9, <1>10 DEF IInv

LEMMA WalkGoodKeeps == IInv /\ WalkGood => IInv'
<1> SUFFICES ASSUME IInv, WalkGood PROVE IInv'
  OBVIOUS
<1>1. pc = "walk" /\ TypeOK /\ Unset /\ WalkFollows /\ rem # 0 /\ BlockAt(pos) \notin pkt.bad
  BY DEF IInv, WalkGood
<1>2. /\ pc' = "walk" /\ b2' = b2 /\ build' = build /\ pkt' = pkt
      /\ pos' = pos + BlockLen(rem) + 2 /\ rem' = rem - BlockLen(rem)
      /\ annex' = annex /\ failPos' = failPos /\ failRem' = failRem /\ copy' = copy /\ sent' = sent
  BY <1>1 DEF WalkGood
<1>3. /\ b2 = "B-" /\ ~annex /\ failPos = 0 /\ outLen = 0 /\ top = 0 /\ sent = NotSent
  BY <1>1 DEF Unset
<1>4. outLen' = 0 /\ top' = 0
  BY <1>2, <1>3 DEF copy
<1>5. /\ pkt.len \in Nat /\ pkt.off \in Nat /\ pkt.L \in 10..240 /\ pkt.bad \subseteq Nat
      /\ pos \in Nat /\ rem \in Nat /\ rem > 0
  BY <1>1, PacketFacts DEF TypeOK
<1>6. BlockLen(rem) \in 1..16 /\ BlockLen(rem) <= rem
  BY <1>5, BlockLenFacts
<1>7. pos' \in Nat /\ rem' \in Nat
  BY <1>2, <1>5, <1>6
<1>8. TypeOK'
  BY <1>1, <1>2, <1>7 DEF TypeOK, copy
<1>9. Unset'
  BY <1>1, <1>2, <1>3, <1>4 DEF Unset
<1>10. WalkFollows'
  <2>1. AtBlock(pkt.L, pos, rem) /\ \A k \in pkt.bad : k >= BlockAt(pos)
    BY <1>1 DEF WalkFollows, AtEnd
  <2>2. pkt.off + pos' <= pkt.len
    BY <1>2, <1>5, <1>6 DEF WalkGood
  <2>3. BlockAt(pos) \in Nat /\ \A k \in pkt.bad : k >= BlockAt(pos) + 1
    BY <2>1, <1>1, <1>5 DEF AtBlock
  <2>4. \/ AtBlock(pkt.L, pos', rem') /\ BlockAt(pos') = BlockAt(pos) + 1
        \/ AtEnd(pkt.L, pos', rem') /\ Blocks(pkt.L) = BlockAt(pos) + 1
    BY <2>1, <1>2, <1>5, <1>7, NextBlock
  <2>5. CASE AtBlock(pkt.L, pos', rem') /\ BlockAt(pos') = BlockAt(pos) + 1
    BY <2>5, <2>3, <1>2 DEF WalkFollows
  <2>6. CASE AtEnd(pkt.L, pos', rem') /\ Blocks(pkt.L) = BlockAt(pos) + 1
    <3>1. \A k \in pkt.bad : ~(k < Blocks(pkt.L))
      BY <2>3, <2>6, <1>5
    <3>2. QED  BY <3>1, <2>2, <2>6, <1>2 DEF WalkFollows, InFrame
  <2>7. QED  BY <2>4, <2>5, <2>6
<1>11. FailureKnown' /\ VerdictSound' /\ RepairInsideBuffer'
  BY <1>2, <1>3 DEF FailureKnown, VerdictSound, RepairInsideBuffer
<1>12. CopyFollows' /\ LengthByteTrue' /\ CopyInside' /\ FeedVerified' /\ VerifiedReachesDaemon'
  BY <1>1, <1>2, PacketFacts, DeliveryUntouched
<1>13. QED  BY <1>8, <1>9, <1>10, <1>11, <1>12 DEF IInv

LEMMA WalkEndKeeps == IInv /\ WalkEnd => IInv'
<1> SUFFICES ASSUME IInv, WalkEnd PROVE IInv'
  OBVIOUS
<1>1. pc = "walk" /\ TypeOK /\ Unset /\ WalkFollows /\ rem = 0
  BY DEF IInv, WalkEnd
<1>2. /\ pc' = "judge" /\ b2' = "BOK" /\ build' = build /\ pkt' = pkt /\ pos' = pos /\ rem' = rem
      /\ annex' = annex /\ failPos' = failPos /\ failRem' = failRem /\ copy' = copy /\ sent' = sent
  BY DEF WalkEnd
<1>3. failPos = 0 /\ ~annex /\ outLen = 0 /\ top = 0 /\ sent = NotSent
  BY <1>1 DEF Unset
<1>4. outLen' = 0 /\ top' = 0
  BY <1>2, <1>3 DEF copy
<1>5. TypeOK'
  BY <1>1, <1>2 DEF TypeOK, copy
<1>6. Unset'
  BY <1>1, <1>2, <1>3, <1>4 DEF Unset
<1>7. WalkFollows' /\ FailureKnown' /\ RepairInsideBuffer'
  BY <1>2, <1>3 DEF WalkFollows, FailureKnown, RepairInsideBuffer
<1>8. VerdictSound'
  <2>1. ~AtBlock(pkt.L, pos, rem)
    BY <1>1 DEF AtBlock
  <2>2. /\ AtEnd(pkt.L, pos, rem) /\ pkt.off + pos <= pkt.len
        /\ \A k \in pkt.bad : ~InFrame(k)
    BY <2>1, <1>1 DEF WalkFollows
  <2>3. pkt.off + FrameSize(pkt.L) <= pkt.len
    BY <2>2 DEF AtEnd
  <2>4. QED  BY <2>2, <2>3, <1>2 DEF VerdictSound, InFrame, FrameWhole
<1>9. CopyFollows' /\ LengthByteTrue' /\ CopyInside' /\ FeedVerified' /\ VerifiedReachesDaemon'
  BY <1>1, <1>2, PacketFacts, DeliveryUntouched
<1>10. QED  BY <1>5, <1>6, <1>7, <1>8, <1>9 DEF IInv

------------------------------------------------------------------------------
(* The two ways a frame that failed the walk is still accepted.             *)

LEMMA JudgeAnnexKeeps == IInv /\ JudgeAnnex => IInv'
<1> SUFFICES ASSUME IInv, JudgeAnnex PROVE IInv'
  OBVIOUS
<1>1. pc = "judge" /\ TypeOK /\ Unset /\ FailureKnown /\ VerdictSound
  BY DEF IInv, JudgeAnnex
<1>2. /\ pc' = "repair" /\ build' = build /\ pkt' = pkt /\ pos' = pos /\ rem' = rem
      /\ failPos' = failPos /\ failRem' = failRem /\ copy' = copy /\ sent' = sent
  BY DEF JudgeAnnex
<1>3. /\ b2 \in {"B?", "BBAD", "BOK"} /\ ~annex /\ outLen = 0 /\ top = 0 /\ sent = NotSent
  BY <1>1 DEF Unset
<1>4. outLen' = 0 /\ top' = 0
  BY <1>2, <1>3 DEF copy
<1>5. Unset'
  BY <1>1, <1>2, <1>3, <1>4 DEF Unset
<1>6. WalkFollows'
  BY <1>2 DEF WalkFollows
<1>7. CopyFollows' /\ LengthByteTrue' /\ CopyInside' /\ FeedVerified' /\ VerifiedReachesDaemon'
  BY <1>1, <1>2, PacketFacts, DeliveryUntouched
<1>8. CASE AnnexSignature
  <2>1. b2' = "BOKA" /\ annex'
    BY <1>8 DEF JudgeAnnex
  <2>2. ~b2ok /\ failPos >= 84 /\ pkt.L = 94 /\ pkt.len - (pkt.off + failPos) >= 20
    BY <1>8 DEF AnnexSignature
  <2>3. failPos # 0
    BY <2>2, <1>1 DEF TypeOK
  <2>4. b2 = "BBAD"
    BY <2>3, <1>1, <1>3 DEF FailureKnown
  <2>5. AtBlock(pkt.L, failPos, failRem)
    BY <2>4, <1>1 DEF FailureKnown
  <2>6. /\ BlockAt(failPos) \in pkt.bad /\ InFrame(BlockAt(failPos))
        /\ \A k \in pkt.bad : k >= BlockAt(failPos)
        /\ failRem = pkt.L - 9 - 16 * BlockAt(failPos)
    BY <2>4, <1>1 DEF VerdictSound
  <2>7. BlockAt(failPos) \in Nat /\ BlockAt(failPos) >= 4
    BY <2>2, <2>5, <1>1 DEF AtBlock, TypeOK
  <2>8. \A k \in pkt.bad : k >= 4
    BY <2>6, <2>7, PacketFacts, <1>1
  <2>9. TypeOK'
    BY <2>1, <1>1, <1>2 DEF TypeOK, copy
  <2>10. FailureKnown'
    BY <2>1, <2>2, <2>5, <1>2 DEF FailureKnown
  <2>11. VerdictSound' /\ RepairInsideBuffer'
    BY <2>1, <2>2, <2>6, <2>8, <1>2 DEF VerdictSound, RepairInsideBuffer, InFrame
  <2>12. QED  BY <2>9, <2>10, <2>11, <1>5, <1>6, <1>7 DEF IInv
<1>9. CASE ~AnnexSignature
  <2>1. b2' = b2 /\ annex' = annex
    BY <1>9 DEF JudgeAnnex
  <2>2. TypeOK'
    BY <2>1, <1>1, <1>2 DEF TypeOK, copy
  <2>3. FailureKnown'
    BY <2>1, <1>1, <1>2 DEF FailureKnown
  <2>4. VerdictSound' /\ RepairInsideBuffer'
    BY <2>1, <1>1, <1>2, <1>3 DEF VerdictSound, RepairInsideBuffer, InFrame, FrameWhole
  <2>5. QED  BY <2>2, <2>3, <2>4, <1>5, <1>6, <1>7 DEF IInv
<1>10. QED  BY <1>8, <1>9

LEMMA RepairKeeps == IInv /\ Repair => IInv'
<1> SUFFICES ASSUME IInv, Repair PROVE IInv'
  OBVIOUS
<1>1. /\ pc = "repair" /\ TypeOK /\ Unset /\ FailureKnown /\ VerdictSound /\ RepairInsideBuffer
  BY DEF IInv, Repair
<1>2. /\ pc' = "deliver" /\ build' = build /\ pos' = pos /\ rem' = rem /\ annex' = annex
      /\ failPos' = failPos /\ failRem' = failRem /\ copy' = copy /\ sent' = sent
  BY DEF Repair
<1>3. outLen = 0 /\ top = 0 /\ sent = NotSent /\ pkt.off + 11 < pkt.len
  BY <1>1 DEF Unset
<1>4. outLen' = 0 /\ top' = 0
  BY <1>2, <1>3 DEF copy
<1>5. WalkFollows'
  BY <1>2 DEF WalkFollows
<1>6. /\ pkt.len \in Nat /\ pkt.off \in Nat /\ pkt.L \in 10..240 /\ failPos \in Nat
  BY <1>1, PacketFacts DEF TypeOK
<1>7. CASE Cured
  <2>1. b2' = "RPR" /\ pkt' = [pkt EXCEPT !.bad = {}]
    BY <1>7 DEF Repair
  <2>2. /\ pkt' \in Packet /\ pkt'.bad = {} /\ pkt'.len = pkt.len /\ pkt'.off = pkt.off
        /\ pkt'.L = pkt.L
    <3>1. pkt \in [len : 0..Buf, off : Nat, L : 10..240, eie : BOOLEAN,
                   bad : SUBSET Nat, cure : {"none", "single", "combined"}]
      BY <1>1, Zenon DEF TypeOK, Packet
    <3>2. QED  BY <2>1, <3>1 DEF Packet
  <2>3. ~b2ok /\ failPos # 0 /\ RepairFits /\ TailWhole
    BY <1>7 DEF Cured
  <2>4. b2 = "BBAD"
    BY <2>3, <1>1 DEF FailureKnown, TypeOK, b2ok
  <2>5. AtBlock(pkt.L, failPos, failRem) /\ ~annex
    BY <2>4, <1>1 DEF FailureKnown
  <2>6. FrameSize(pkt.L) <= pkt.len
    <3>1. FrameSize(pkt.L) \in Nat
      BY <1>6, FrameFacts
    <3>2. QED  BY <2>3, <3>1, <1>6 DEF TailWhole, TailLen
  <2>7. TypeOK'
    BY <2>1, <2>2, <1>1, <1>2, Zenon DEF TypeOK, copy
  <2>8. Unset'
    BY <2>2, <1>2, <1>3, <1>4 DEF Unset
  <2>9. FailureKnown'
    BY <2>1, <2>2, <2>5, <2>6, <1>2 DEF FailureKnown
  <2>10. VerdictSound'
    BY <2>1, <2>2 DEF VerdictSound
  <2>11. RepairInsideBuffer'
    BY <2>2, <2>3, <1>2 DEF RepairInsideBuffer, RepairFits, TailLen
  <2>12. CopyFollows' /\ LengthByteTrue' /\ CopyInside' /\ FeedVerified' /\ VerifiedReachesDaemon'
    BY <2>2, <1>1, <1>2, <1>6, DeliveryUntouched
  <2>13. QED  BY <2>7, <2>8, <2>9, <2>10, <2>11, <2>12, <1>5 DEF IInv
<1>8. CASE ~Cured
  <2>1. b2' = b2 /\ pkt' = pkt
    BY <1>8 DEF Repair
  <2>2. TypeOK'
    BY <2>1, <1>1, <1>2 DEF TypeOK, copy
  <2>3. Unset'
    BY <2>1, <1>2, <1>3, <1>4 DEF Unset
  <2>4. FailureKnown'
    BY <2>1, <1>1, <1>2 DEF FailureKnown
  <2>5. VerdictSound'
    BY <2>1, <1>1, <1>2 DEF VerdictSound, InFrame, FrameWhole
  <2>6. RepairInsideBuffer'
    BY <2>1, <1>1, <1>2 DEF RepairInsideBuffer, TailLen
  <2>7. CopyFollows' /\ LengthByteTrue' /\ CopyInside' /\ FeedVerified' /\ VerifiedReachesDaemon'
    BY <2>1, <1>1, <1>2, <1>6, DeliveryUntouched
  <2>8. QED  BY <2>2, <2>3, <2>4, <2>5, <2>6, <2>7, <1>5 DEF IInv
<1>9. QED  BY <1>7, <1>8

------------------------------------------------------------------------------
(* Delivery.                                                                *)

\* The verdict stands while the telegram is delivered.
LEMMA VerdictUntouched ==
  ASSUME IInv, build' = build, pkt' = pkt, walk' = walk,
         pc # "idle", pc' \in {"copy", "sent"}
  PROVE  /\ WalkFollows' /\ FailureKnown' /\ VerdictSound' /\ RepairInsideBuffer'
         /\ (pkt.off + 11 < pkt.len)' /\ IndRefused' = IndRefused
<1>1. /\ pos' = pos /\ rem' = rem /\ b2' = b2 /\ annex' = annex
      /\ failPos' = failPos /\ failRem' = failRem
  BY DEF walk
<1>2. FailureKnown /\ VerdictSound /\ RepairInsideBuffer /\ Unset
  BY DEF IInv
<1>3. WalkFollows'
  BY DEF WalkFollows
<1>4. FailureKnown' /\ RepairInsideBuffer'
  BY <1>1, <1>2 DEF FailureKnown, RepairInsideBuffer, TailLen
<1>5. VerdictSound'
  BY <1>1, <1>2 DEF VerdictSound, InFrame, FrameWhole
<1>6. IndRefused' = IndRefused
  BY <1>1 DEF IndRefused, AnnexLen
<1>7. (pkt.off + 11 < pkt.len)'
  BY <1>2 DEF Unset
<1>8. QED  BY <1>3, <1>4, <1>5, <1>6, <1>7

\* The types, from those of what a delivery changes.
LEMMA DeliveryTyped ==
  ASSUME TypeOK, build' = build, pkt' = pkt, walk' = walk, pc' \in {"copy", "sent"},
         fpos' \in Nat, frem' \in Nat, outLen' \in Nat, top' \in Nat,
         sent'.kind \in {"none", "feed", "hci"}, sent'.lbyte \in Nat, sent'.size \in Nat
  PROVE  TypeOK'
<1>1. pc' \in {"idle", "walk", "judge", "repair", "deliver", "copy", "sent"}
  OBVIOUS
<1>2. QED  BY <1>1, Zenon DEF TypeOK, walk

\* An accepted frame, and only one that has been accepted, has blocks that
\* hold; without an annex it lies in the packet, but for the offset by which
\* the repair overcounts.
LEMMA AcceptedHolds ==
  ASSUME IInv, b2ok
  PROVE  /\ annex => b2 = "BOKA" /\ \A k \in pkt.bad : k >= 4
         /\ ~annex => /\ \A k \in pkt.bad : ~InFrame(k)
                      /\ FrameSize(pkt.L) <= pkt.len
<1>1. FailureKnown /\ VerdictSound /\ TypeOK
  BY DEF IInv
<1>2. CASE b2 = "BOKA"
  BY <1>1, <1>2 DEF FailureKnown, VerdictSound
<1>3. CASE b2 = "RPR"
  BY <1>1, <1>3 DEF FailureKnown, VerdictSound
<1>4. CASE b2 = "BOK"
  <2>1. /\ pkt.off + FrameSize(pkt.L) <= pkt.len /\ ~annex
        /\ \A k \in pkt.bad : ~InFrame(k)
    BY <1>1, <1>4 DEF FailureKnown, VerdictSound, FrameWhole
  <2>2. FrameSize(pkt.L) \in Nat /\ pkt.off \in Nat /\ pkt.len \in Nat
    BY <1>1, PacketFacts, FrameFacts
  <2>3. QED  BY <2>1, <2>2
<1>5. QED  BY <1>2, <1>3, <1>4 DEF b2ok

\* The annex starts behind whole blocks, at least 20 bytes before the end.
LEMMA AnnexFacts ==
  ASSUME IInv, annex
  PROVE  \E j \in Nat : /\ failPos = 12 + 18 * j
                        /\ AnnexLen = 10 + 16 * j + (pkt.len - failPos)
                        /\ AnnexLen \in Nat /\ AnnexLen >= 30 /\ AnnexLen <= pkt.len
                        /\ failPos >= 84 /\ pkt.off + failPos + 20 <= pkt.len
<1>1. b2 = "BOKA" /\ AtBlock(pkt.L, failPos, failRem) /\ failPos >= 84
      /\ pkt.len - (pkt.off + failPos) >= 20
  BY DEF IInv, FailureKnown
<1>2. pkt.len \in Nat /\ pkt.off \in Nat /\ failPos \in Nat
  BY PacketFacts DEF IInv, TypeOK
<1>3. PICK j \in Nat : failPos = 12 + 18 * j
  BY <1>1, Zenon DEF AtBlock
<1>4. AnnexLen = 10 + 16 * j + (pkt.len - failPos)
  BY <1>2, <1>3, AnnexLenFacts
<1>5. AnnexLen \in Nat /\ AnnexLen >= 30 /\ AnnexLen <= pkt.len
  BY <1>1, <1>2, <1>3, <1>4
<1>6. failPos >= 84 /\ pkt.off + failPos + 20 <= pkt.len
  BY <1>1, <1>2
<1>7. QED  BY <1>3, <1>4, <1>5, <1>6, Zenon

\* The frames VerifiedReachesDaemon speaks of, whatever their length.
Promised ==
  \/ b2 \in {"BOK", "BOKA"}
  \/ b2 = "RPR" /\ FrameWhole

\* The emitter takes every frame the walk or the annex rule called good.
LEMMA GoodNotRefused ==
  ASSUME IInv, pc # "idle", Promised
  PROVE  ~IndRefused
<1>1. TypeOK /\ FailureKnown /\ VerdictSound /\ Unset
  BY DEF IInv
<1>2. /\ pkt.len \in Nat /\ pkt.len <= Buf /\ Buf \in Nat /\ pkt.off \in Nat
      /\ pkt.L \in 10..240
  BY <1>1, PacketFacts
<1>3. CASE annex
  <2>1. /\ AnnexLen \in Nat /\ AnnexLen <= pkt.len
        /\ failPos >= 84 /\ pkt.off + failPos + 20 <= pkt.len
    BY <1>3, AnnexFacts
  <2>2. failPos \in Nat
    BY <1>1 DEF TypeOK
  <2>3. ~(failPos < 12) /\ ~(pkt.len < pkt.off + failPos + 20) /\ ~(AnnexLen > Buf)
    BY <2>1, <2>2, <1>2
  <2>4. QED  BY <2>3, <1>3, Zenon DEF IndRefused
<1>4. CASE ~annex
  <2>1. FrameWhole
    BY <1>1, <1>4 DEF FailureKnown, VerdictSound, Promised
  <2>2. pkt.off + FrameSize(pkt.L) <= pkt.len /\ pkt.off + 11 < pkt.len
    BY <2>1, <1>1 DEF FrameWhole, Unset
  <2>3. /\ Blocks(pkt.L) \in Nat /\ FrameSize(pkt.L) \in Nat
        /\ FrameSize(pkt.L) = pkt.L + 3 + 2 * Blocks(pkt.L)
    BY <1>2, FrameFacts
  <2>4. ~(pkt.len < pkt.off + 11) /\ ~(pkt.L < 9) /\ ~(pkt.L + 1 > Buf)
    BY <2>2, <2>3, <1>2
  <2>5. QED  BY <2>4, <1>4, Zenon DEF IndRefused
<1>5. QED  BY <1>3, <1>4

\* A frame dropped on the way was not one the daemon is promised.
LEMMA DropKeeps ==
  ASSUME IInv, build' = build, pkt' = pkt, walk' = walk, pc \in {"deliver", "copy"},
         Drop, build = "hci" => ~Promised
  PROVE  IInv'
<1>1. TypeOK /\ Unset /\ CopyInside
  BY DEF IInv
<1>2. /\ pc' = "sent" /\ copy' = copy /\ sent' = sent /\ fpos' = fpos /\ frem' = frem
      /\ outLen' = outLen /\ top' = top /\ b2' = b2 /\ annex' = annex
  BY DEF Drop, copy, walk
<1>3. sent' = NotSent
  BY <1>1, <1>2 DEF Unset
<1>4. sent'.kind = "none" /\ sent'.lbyte = 0 /\ sent'.size = 0
  BY <1>3 DEF NotSent
<1>5. TypeOK'
  <2>1. fpos' \in Nat /\ frem' \in Nat /\ outLen' \in Nat /\ top' \in Nat
    BY <1>1, <1>2 DEF TypeOK
  <2>2. sent'.kind \in {"none", "feed", "hci"} /\ sent'.lbyte \in Nat /\ sent'.size \in Nat
    BY <1>4
  <2>3. QED  BY <2>1, <2>2, <1>1, <1>2, DeliveryTyped
<1>6. /\ WalkFollows' /\ FailureKnown' /\ VerdictSound' /\ RepairInsideBuffer'
      /\ (pkt.off + 11 < pkt.len)'
  BY <1>2, VerdictUntouched
<1>7. Unset'
  BY <1>2, <1>6 DEF Unset
<1>8. CopyFollows' /\ LengthByteTrue' /\ FeedVerified'
  BY <1>2, <1>4 DEF CopyFollows, LengthByteTrue, FeedVerified
<1>9. CopyInside'
  BY <1>1, <1>2 DEF CopyInside
<1>10. VerifiedReachesDaemon'
  <2>1. FrameWhole' = FrameWhole
    BY Zenon DEF FrameWhole
  <2>2. build' = "hci" => b2' # "BOK" /\ b2' # "BOKA" /\ ~(b2' = "RPR" /\ FrameWhole')
    <3>1. ~Promised => b2 # "BOK" /\ b2 # "BOKA" /\ ~(b2 = "RPR" /\ FrameWhole)
      BY DEF Promised
    <3>2. b2' = b2 /\ build' = build /\ (build = "hci" => ~Promised)
      BY <1>2
    <3>3. QED  BY <3>1, <3>2, <2>1
  <2>3. QED  BY <2>2, Zenon DEF VerifiedReachesDaemon
<1>11. QED  BY <1>5, <1>6, <1>7, <1>8, <1>9, <1>10 DEF IInv

LEMMA DeliverKeeps == IInv /\ Deliver => IInv'
<1> SUFFICES ASSUME IInv, Deliver PROVE IInv'
  OBVIOUS
<1>1. pc = "deliver" /\ build' = build /\ pkt' = pkt /\ walk' = walk
  BY DEF Deliver
<1>2. TypeOK /\ Unset
  BY DEF IInv
<1>3. build \in {"feed", "hci"}
  BY <1>2 DEF TypeOK
<1>4. CASE /\ \/ build = "feed" /\ ~b2ok
              \/ build = "hci" /\ IndRefused
           /\ Drop
  <2>1. build = "hci" => ~Promised
    BY <1>1, <1>4, GoodNotRefused
  <2>2. QED  BY <2>1, <1>1, <1>4, DropKeeps
<1>5. CASE /\ \/ build = "feed" /\ b2ok
              \/ build = "hci" /\ ~IndRefused
           /\ pc' = "copy"
           /\ outLen' = 10 /\ fpos' = 12
           /\ frem' = IF annex THEN failPos - 12 ELSE pkt.L - 9
           /\ top' = pkt.off + 10
           /\ UNCHANGED sent
  <2>1. annex' = annex /\ b2' = b2 /\ failPos' = failPos
    BY <1>1 DEF walk
  <2>2. /\ pkt.len \in Nat /\ pkt.len <= Buf /\ Buf \in Nat /\ pkt.off \in Nat
        /\ pkt.L \in 10..240
    BY <1>2, PacketFacts
  <2>3. pkt.off + 11 < pkt.len /\ sent = NotSent
    BY <1>1, <1>2 DEF Unset
  <2>4. sent'.kind = "none" /\ sent'.lbyte = 0 /\ sent'.size = 0
    BY <2>3, <1>5 DEF NotSent
  <2>5. annex => failPos \in Nat /\ failPos >= 84
    BY AnnexFacts, <1>2 DEF TypeOK
  <2>6. frem' \in Nat
    BY <2>2, <2>5, <1>5
  <2>7. TypeOK'
    <3>1. sent'.kind \in {"none", "feed", "hci"} /\ sent'.lbyte \in Nat /\ sent'.size \in Nat
      BY <2>4
    <3>2. fpos' \in Nat /\ outLen' \in Nat /\ top' \in Nat
      BY <2>2, <1>5
    <3>3. QED  BY <3>1, <3>2, <2>6, <1>1, <1>2, <1>5, DeliveryTyped
  <2>8. /\ WalkFollows' /\ FailureKnown' /\ VerdictSound' /\ RepairInsideBuffer'
        /\ IndRefused' = IndRefused
    BY <1>1, <1>5, VerdictUntouched
  <2>9. Unset'
    BY <2>3, <1>1, <1>5 DEF Unset
  <2>10. AtBlock(pkt.L, 12, pkt.L - 9) /\ BlockAt(12) = 0
    BY <2>2, FirstBlock
  <2>11. CopyFollows'
    <3>1. (build = "feed" => b2ok)' /\ (build = "hci" => ~IndRefused)'
      BY <2>1, <2>8, <1>1, <1>5 DEF b2ok
    <3>2. ~annex => AtBlock(pkt'.L, fpos', frem') /\ outLen' = 10 + 16 * BlockAt(fpos')
                    /\ top' <= pkt'.off + fpos' - 2
      BY <2>2, <2>10, <1>1, <1>5
    <3>3. annex => /\ BlockAt(fpos') \in Nat /\ fpos' = 12 + 18 * BlockAt(fpos')
                   /\ frem' = failPos' - fpos'
                   /\ outLen' = 10 + 16 * BlockAt(fpos')
                   /\ top' <= pkt'.off + fpos'
      BY <2>1, <2>2, <2>10, <1>1, <1>5
    <3>4. QED  BY <3>1, <3>2, <3>3, <2>1, Zenon DEF CopyFollows
  <2>12. CopyInside'
    <3>1. top' <= pkt'.len /\ top' <= pkt'.off + pkt'.len /\ outLen' <= Buf
      BY <2>2, <2>3, <1>1, <1>5
    <3>2. QED  BY <3>1, Zenon DEF CopyInside
  <2>13. LengthByteTrue' /\ FeedVerified' /\ VerifiedReachesDaemon'
    BY <2>4, <1>5 DEF LengthByteTrue, FeedVerified, VerifiedReachesDaemon
  <2>14. QED  BY <2>7, <2>8, <2>9, <2>11, <2>12, <2>13 DEF IInv
<1>6. QED  BY <1>4, <1>5, Zenon DEF Deliver

LEMMA CopyBlockKeeps == IInv /\ CopyBlock => IInv'
<1> SUFFICES ASSUME IInv, CopyBlock PROVE IInv'
  OBVIOUS
<1>1. pc = "copy" /\ ~annex /\ frem > 0 /\ build' = build /\ pkt' = pkt /\ walk' = walk
  BY DEF CopyBlock
<1>2. TypeOK /\ Unset /\ CopyFollows /\ FailureKnown /\ VerdictSound
  BY DEF IInv
<1>3. /\ pkt.len \in Nat /\ pkt.len <= Buf /\ Buf \in Nat /\ pkt.off \in Nat
      /\ pkt.L \in 10..240
  BY <1>2, PacketFacts
<1>4. fpos \in Nat /\ frem \in Nat /\ outLen \in Nat /\ top \in Nat
  BY <1>2 DEF TypeOK
<1>5. /\ build = "feed" => b2ok
      /\ build = "hci" => ~IndRefused
      /\ AtBlock(pkt.L, fpos, frem) /\ outLen = 10 + 16 * BlockAt(fpos)
  <2>1. ~AtEnd(pkt.L, fpos, frem)
    BY <1>1, <1>4 DEF AtEnd
  <2>2. QED  BY <2>1, <1>1, <1>2, Zenon DEF CopyFollows
<1>6. /\ BlockAt(fpos) \in Nat /\ fpos = 12 + 18 * BlockAt(fpos)
      /\ frem = pkt.L - 9 - 16 * BlockAt(fpos)
  BY <1>5 DEF AtBlock
<1>7. BlockLen(frem) \in 1..16 /\ BlockLen(frem) <= frem
  BY <1>1, <1>4, BlockLenFacts
<1>8. fpos + BlockLen(frem) + 2 <= FrameSize(pkt.L) /\ FrameSize(pkt.L) \in Nat
  BY <1>3, <1>4, <1>5, BlockInFrame, FrameFacts
<1>9. CASE build = "hci" /\ pkt.off + fpos + BlockLen(frem) > pkt.len
  <2>1. Drop
    BY <1>9 DEF CopyBlock
  <2>2. b2 # "BOKA"
    BY <1>1, <1>2 DEF FailureKnown
  <2>3. ~FrameWhole
    BY <1>3, <1>4, <1>7, <1>8, <1>9 DEF FrameWhole
  <2>4. ~Promised
    BY <2>2, <2>3, <1>2 DEF VerdictSound, Promised
  <2>5. QED  BY <2>1, <2>4, <1>1, DropKeeps
<1>10. CASE ~(build = "hci" /\ pkt.off + fpos + BlockLen(frem) > pkt.len)
  <2>1. /\ outLen' = outLen + BlockLen(frem) /\ top' = pkt.off + fpos + BlockLen(frem)
        /\ fpos' = fpos + BlockLen(frem) + 2 /\ frem' = frem - BlockLen(frem)
        /\ pc' = pc /\ sent' = sent
    BY <1>10 DEF CopyBlock
  <2>2. outLen' \in Nat /\ top' \in Nat /\ fpos' \in Nat /\ frem' \in Nat
    BY <2>1, <1>3, <1>4, <1>7
  <2>3. sent = NotSent
    BY <1>1, <1>2 DEF Unset
  <2>4. sent'.kind = "none" /\ sent'.lbyte = 0 /\ sent'.size = 0
    BY <2>1, <2>3 DEF NotSent
  <2>5. TypeOK'
    <3>1. sent'.kind \in {"none", "feed", "hci"} /\ sent'.lbyte \in Nat /\ sent'.size \in Nat
      BY <2>4
    <3>2. QED  BY <3>1, <2>1, <2>2, <1>1, <1>2, DeliveryTyped
  <2>6. /\ WalkFollows' /\ FailureKnown' /\ VerdictSound' /\ RepairInsideBuffer'
        /\ (pkt.off + 11 < pkt.len)' /\ IndRefused' = IndRefused
    BY <2>1, <1>1, VerdictUntouched
  <2>7. annex' = annex /\ b2' = b2
    BY <1>1 DEF walk
  <2>8. Unset'
    BY <2>1, <2>3, <2>6, <1>1 DEF Unset
  <2>9. \/ AtBlock(pkt.L, fpos', frem') /\ outLen' = 10 + 16 * BlockAt(fpos')
        \/ AtEnd(pkt.L, fpos', frem') /\ outLen' = pkt.L + 1
    <3>1. \/ AtBlock(pkt.L, fpos', frem') /\ BlockAt(fpos') = BlockAt(fpos) + 1
          \/ AtEnd(pkt.L, fpos', frem') /\ Blocks(pkt.L) = BlockAt(fpos) + 1
      BY <2>1, <2>2, <1>3, <1>4, <1>5, NextBlock
    <3>2. CASE AtBlock(pkt.L, fpos', frem') /\ BlockAt(fpos') = BlockAt(fpos) + 1
      <4>1. frem' = pkt.L - 9 - 16 * BlockAt(fpos')
        BY <3>2 DEF AtBlock
      <4>2. BlockLen(frem) = 16
        BY <4>1, <3>2, <2>1, <1>3, <1>6, <1>7
      <4>3. QED  BY <4>2, <3>2, <2>1, <1>5, <1>6
    <3>3. CASE AtEnd(pkt.L, fpos', frem')
      <4>1. frem' = 0
        BY <3>3 DEF AtEnd
      <4>2. BlockLen(frem) = frem
        BY <4>1, <2>1, <1>4, <1>7
      <4>3. QED  BY <4>2, <3>3, <2>1, <1>3, <1>5, <1>6
    <3>4. QED  BY <3>1, <3>2, <3>3
  <2>10. top' <= pkt.off + fpos' - 2
    BY <2>1, <1>3, <1>4, <1>7
  <2>11. CopyFollows'
    <3>1. (build = "feed" => b2ok)' /\ (build = "hci" => ~IndRefused)'
      BY <2>6, <2>7, <1>1, <1>5 DEF b2ok
    <3>2. QED  BY <3>1, <2>7, <2>9, <2>10, <1>1, Zenon DEF CopyFollows
  <2>12. CopyInside'
    <3>1. build = "hci" => top' <= pkt.len
      BY <2>1, <1>3, <1>4, <1>7, <1>10
    <3>2. build = "feed" => top' <= pkt.off + pkt.len
      <4>1. build = "feed" => FrameSize(pkt.L) <= pkt.len
        BY <1>1, <1>5, AcceptedHolds
      <4>2. QED  BY <4>1, <2>1, <1>3, <1>4, <1>7, <1>8
    <3>3. build \in {"feed", "hci"}
      BY <1>2 DEF TypeOK
    <3>4. top' <= pkt.off + pkt.len
      BY <3>1, <3>2, <3>3, <2>2, <1>3
    <3>5. build = "hci" => pkt.L + 1 <= Buf
      BY <1>1, <1>3, <1>5 DEF IndRefused
    <3>6. outLen' <= pkt.L + 1
      BY <2>1, <1>3, <1>5, <1>6, <1>7
    <3>7. build = "hci" => outLen' <= Buf
      BY <3>5, <3>6, <2>2, <1>3
    <3>8. QED  BY <3>1, <3>4, <3>7, <1>1, Zenon DEF CopyInside
  <2>13. LengthByteTrue' /\ FeedVerified' /\ VerifiedReachesDaemon'
    BY <2>1, <2>4, <1>1 DEF LengthByteTrue, FeedVerified, VerifiedReachesDaemon
  <2>14. QED  BY <2>5, <2>6, <2>8, <2>11, <2>12, <2>13 DEF IInv
<1>11. QED  BY <1>9, <1>10

LEMMA CopyPrefixKeeps == IInv /\ CopyPrefix => IInv'
<1> SUFFICES ASSUME IInv, CopyPrefix PROVE IInv'
  OBVIOUS
<1>1. /\ pc = "copy" /\ annex /\ frem > 0 /\ build' = build /\ pkt' = pkt /\ walk' = walk
      /\ pc' = pc /\ sent' = sent /\ outLen' = outLen + 16 /\ top' = pkt.off + fpos + 16
      /\ fpos' = fpos + 18 /\ frem' = frem - 18
  BY DEF CopyPrefix
<1>2. TypeOK /\ Unset /\ CopyFollows
  BY DEF IInv
<1>3. /\ pkt.len \in Nat /\ pkt.len <= Buf /\ Buf \in Nat /\ pkt.off \in Nat
      /\ fpos \in Nat /\ frem \in Nat /\ outLen \in Nat /\ failPos \in Nat
  BY <1>2, PacketFacts DEF TypeOK
<1>4. /\ build = "feed" => b2ok
      /\ build = "hci" => ~IndRefused
      /\ BlockAt(fpos) \in Nat /\ fpos = 12 + 18 * BlockAt(fpos)
      /\ frem = failPos - fpos /\ outLen = 10 + 16 * BlockAt(fpos)
  BY <1>1, <1>2, Zenon DEF CopyFollows
<1>5. PICK j \in Nat : /\ failPos = 12 + 18 * j
                       /\ AnnexLen = 10 + 16 * j + (pkt.len - failPos)
                       /\ AnnexLen \in Nat /\ AnnexLen <= pkt.len
                       /\ pkt.off + failPos + 20 <= pkt.len
  BY <1>1, AnnexFacts
<1>6. BlockAt(fpos) + 1 <= j
  BY <1>1, <1>3, <1>4, <1>5
<1>7. BlockAt(fpos') = BlockAt(fpos) + 1
  <2>1. fpos' = 12 + 18 * (BlockAt(fpos) + 1) /\ BlockAt(fpos) + 1 \in Nat
    BY <1>1, <1>4
  <2>2. QED  BY <2>1, BlockAtStart, Zenon
<1>8. /\ outLen' \in Nat /\ top' \in Nat /\ fpos' \in Nat /\ frem' \in Nat
      /\ fpos' = 12 + 18 * BlockAt(fpos') /\ BlockAt(fpos') \in Nat
      /\ frem' = failPos - fpos' /\ outLen' = 10 + 16 * BlockAt(fpos')
      /\ top' <= pkt.off + fpos'
  BY <1>1, <1>3, <1>4, <1>5, <1>6, <1>7
<1>9. sent = NotSent
  BY <1>1, <1>2 DEF Unset
<1>10. sent'.kind = "none" /\ sent'.lbyte = 0 /\ sent'.size = 0
  BY <1>1, <1>9 DEF NotSent
<1>11. TypeOK'
  <2>1. sent'.kind \in {"none", "feed", "hci"} /\ sent'.lbyte \in Nat /\ sent'.size \in Nat
    BY <1>10
  <2>2. QED  BY <2>1, <1>1, <1>2, <1>8, DeliveryTyped
<1>12. /\ WalkFollows' /\ FailureKnown' /\ VerdictSound' /\ RepairInsideBuffer'
       /\ (pkt.off + 11 < pkt.len)' /\ IndRefused' = IndRefused
  BY <1>1, VerdictUntouched
<1>13. annex' = annex /\ b2' = b2 /\ failPos' = failPos
  BY <1>1 DEF walk
<1>14. Unset'
  BY <1>1, <1>9, <1>12 DEF Unset
<1>15. CopyFollows'
  <2>1. (build = "feed" => b2ok)' /\ (build = "hci" => ~IndRefused)'
    BY <1>1, <1>4, <1>12, <1>13 DEF b2ok
  <2>2. QED  BY <2>1, <1>1, <1>8, <1>13, Zenon DEF CopyFollows
<1>16. CopyInside'
  <2>1. top' <= pkt.off + pkt.len
    BY <1>1, <1>3, <1>4, <1>5, <1>6
  <2>2. outLen' <= AnnexLen
    BY <1>1, <1>3, <1>4, <1>5, <1>6
  <2>3. outLen' <= Buf
    BY <2>2, <1>3, <1>5, <1>8
  <2>4. QED  BY <2>1, <2>3, <1>1, <1>13, Zenon DEF CopyInside
<1>17. LengthByteTrue' /\ FeedVerified' /\ VerifiedReachesDaemon'
  BY <1>1, <1>10 DEF LengthByteTrue, FeedVerified, VerifiedReachesDaemon
<1>18. QED  BY <1>11, <1>12, <1>14, <1>15, <1>16, <1>17 DEF IInv

LEMMA EmitFrameKeeps == IInv /\ EmitFrame => IInv'
<1> SUFFICES ASSUME IInv, EmitFrame PROVE IInv'
  OBVIOUS
<1>1. /\ pc = "copy" /\ ~annex /\ frem = 0 /\ build' = build /\ pkt' = pkt /\ walk' = walk
      /\ pc' = "sent" /\ copy' = copy /\ Handover(outLen)
  BY DEF EmitFrame
<1>2. TypeOK /\ Unset /\ CopyFollows /\ CopyInside
  BY DEF IInv
<1>3. /\ pkt.L \in 10..240 /\ IndMax \in Nat
      /\ fpos \in Nat /\ frem \in Nat /\ outLen \in Nat /\ top \in Nat
      /\ build \in {"feed", "hci"}
  BY <1>2, PacketFacts, ScanAssumption DEF TypeOK
<1>4. (build = "feed" => b2ok) /\ outLen = pkt.L + 1
  <2>1. ~AtBlock(pkt.L, fpos, frem)
    BY <1>1 DEF AtBlock
  <2>2. QED  BY <2>1, <1>1, <1>2, Zenon DEF CopyFollows
<1>5. /\ fpos' = fpos /\ frem' = frem /\ outLen' = outLen /\ top' = top
      /\ annex' = annex /\ b2' = b2
  BY <1>1 DEF copy, walk
<1>6. \/ build = "feed" /\ sent' = NotSent
      \/ build = "feed" /\ sent' = [kind |-> build, size |-> pkt.L + 1, lbyte |-> pkt.L]
      \/ build = "hci" /\ sent' = IF pkt.L > IndMax
                                 THEN NotSent
                                 ELSE [kind |-> build, size |-> pkt.L + 1, lbyte |-> pkt.L]
  <2>1. outLen - 1 = pkt.L
    BY <1>3, <1>4
  <2>2. QED  BY <2>1, <1>1, <1>4, Zenon DEF Handover, FeedLine, Indication
<1>7. \/ sent'.kind = "none" /\ sent'.size = 0 /\ sent'.lbyte = 0
      \/ sent'.kind = build /\ sent'.size = pkt.L + 1 /\ sent'.lbyte = pkt.L
  BY <1>6 DEF NotSent
<1>8. TypeOK'
  <2>1. sent'.kind \in {"none", "feed", "hci"} /\ sent'.lbyte \in Nat /\ sent'.size \in Nat
    BY <1>3, <1>7
  <2>2. fpos' \in Nat /\ frem' \in Nat /\ outLen' \in Nat /\ top' \in Nat
    BY <1>3, <1>5
  <2>3. QED  BY <2>1, <2>2, <1>1, <1>2, DeliveryTyped
<1>9. /\ WalkFollows' /\ FailureKnown' /\ VerdictSound' /\ RepairInsideBuffer'
      /\ (pkt.off + 11 < pkt.len)'
  BY <1>1, VerdictUntouched
<1>10. Unset'
  BY <1>1, <1>9 DEF Unset
<1>11. CopyFollows'
  BY <1>1 DEF CopyFollows
<1>12. CopyInside'
  BY <1>1, <1>2, <1>5 DEF CopyInside
<1>13. LengthByteTrue'
  BY <1>1, <1>7 DEF LengthByteTrue
<1>14. FeedVerified'
  <2>1. sent'.kind = "feed" => build = "feed"
    BY <1>7
  <2>2. build = "feed" => \A k \in pkt.bad : ~InFrame(k)
    BY <1>1, <1>4, AcceptedHolds
  <2>3. QED  BY <2>1, <2>2, <1>1 DEF FeedVerified, InFrame
<1>15. VerifiedReachesDaemon'
  <2>1. b2 # "BOKA"
    BY <1>1 DEF IInv, FailureKnown
  <2>2. build = "hci" /\ pkt.L <= IndMax => sent'.kind = "hci"
    BY <1>3, <1>6
  <2>3. QED  BY <2>1, <2>2, <1>1, <1>5, Zenon DEF VerifiedReachesDaemon
<1>16. QED  BY <1>8, <1>9, <1>10, <1>11, <1>12, <1>13, <1>14, <1>15 DEF IInv

LEMMA EmitAnnexKeeps == IInv /\ EmitAnnex => IInv'
<1> SUFFICES ASSUME IInv, EmitAnnex PROVE IInv'
  OBVIOUS
<1>1. /\ pc = "copy" /\ annex /\ frem = 0 /\ build' = build /\ pkt' = pkt /\ walk' = walk
      /\ pc' = "sent" /\ fpos' = fpos /\ frem' = frem
      /\ outLen' = outLen + TailLen /\ top' = pkt.off + pkt.len /\ Handover(outLen')
  BY DEF EmitAnnex
<1>2. TypeOK /\ Unset /\ CopyFollows
  BY DEF IInv
<1>3. /\ pkt.len \in Nat /\ pkt.len <= Buf /\ Buf \in Nat /\ pkt.off \in Nat /\ IndMax \in Nat
      /\ fpos \in Nat /\ frem \in Nat /\ outLen \in Nat /\ failPos \in Nat
      /\ build \in {"feed", "hci"}
  BY <1>2, PacketFacts, ScanAssumption DEF TypeOK
<1>4. /\ build = "feed" => b2ok
      /\ BlockAt(fpos) \in Nat /\ fpos = 12 + 18 * BlockAt(fpos)
      /\ frem = failPos - fpos /\ outLen = 10 + 16 * BlockAt(fpos)
  BY <1>1, <1>2, Zenon DEF CopyFollows
<1>5. PICK j \in Nat : /\ failPos = 12 + 18 * j
                       /\ AnnexLen = 10 + 16 * j + (pkt.len - failPos)
                       /\ AnnexLen \in Nat /\ AnnexLen >= 30 /\ AnnexLen <= pkt.len
  BY <1>1, AnnexFacts
<1>6. outLen' = AnnexLen
  <2>1. BlockAt(fpos) = j
    BY <1>1, <1>3, <1>4, <1>5
  <2>2. outLen' = outLen + (pkt.len - failPos)
    BY <1>1, Zenon DEF TailLen
  <2>3. QED  BY <2>1, <2>2, <1>3, <1>4, <1>5
<1>7. annex' = annex /\ b2' = b2 /\ failPos' = failPos /\ AnnexLen' = AnnexLen
  BY <1>1 DEF walk, AnnexLen
<1>8. \/ build = "feed" /\ sent' = NotSent
      \/ /\ build = "feed"
         /\ sent' = [kind |-> build, size |-> AnnexLen, lbyte |-> AnnexLen - 1]
      \/ /\ build = "hci"
         /\ sent' = IF AnnexLen - 1 > IndMax
                    THEN NotSent
                    ELSE [kind |-> build, size |-> AnnexLen, lbyte |-> AnnexLen - 1]
  BY <1>1, <1>6, Zenon DEF Handover, FeedLine, Indication
<1>9. \/ sent'.kind = "none" /\ sent'.size = 0 /\ sent'.lbyte = 0
      \/ sent'.kind = build /\ sent'.size = AnnexLen /\ sent'.lbyte = AnnexLen - 1
  BY <1>8 DEF NotSent
<1>10. TypeOK'
  <2>1. sent'.kind \in {"none", "feed", "hci"} /\ sent'.lbyte \in Nat /\ sent'.size \in Nat
    BY <1>3, <1>5, <1>9
  <2>2. fpos' \in Nat /\ frem' \in Nat /\ outLen' \in Nat /\ top' \in Nat
    BY <1>1, <1>3, <1>5, <1>6
  <2>3. QED  BY <2>1, <2>2, <1>1, <1>2, DeliveryTyped
<1>11. /\ WalkFollows' /\ FailureKnown' /\ VerdictSound' /\ RepairInsideBuffer'
       /\ (pkt.off + 11 < pkt.len)'
  BY <1>1, VerdictUntouched
<1>12. Unset'
  BY <1>1, <1>11 DEF Unset
<1>13. CopyFollows'
  BY <1>1 DEF CopyFollows
<1>14. CopyInside'
  <2>1. top' <= pkt'.off + pkt'.len /\ outLen' <= Buf
    BY <1>1, <1>3, <1>5, <1>6
  <2>2. QED  BY <2>1, <1>1, <1>7, Zenon DEF CopyInside
<1>15. LengthByteTrue'
  <2>1. sent'.kind # "none" => sent'.size = sent'.lbyte + 1
    BY <1>5, <1>9
  <2>2. QED  BY <2>1, <1>1, <1>7, Zenon DEF LengthByteTrue
<1>16. FeedVerified'
  <2>1. sent'.kind = "feed" => build = "feed"
    BY <1>9
  <2>2. build = "feed" => \A k \in pkt.bad : k >= 4
    BY <1>1, <1>4, AcceptedHolds
  <2>3. QED  BY <2>1, <2>2, <1>1, <1>7 DEF FeedVerified
<1>17. VerifiedReachesDaemon'
  <2>1. b2 = "BOKA"
    BY <1>1 DEF IInv, FailureKnown
  <2>2. build = "hci" /\ AnnexLen - 1 <= IndMax => sent'.kind = "hci"
    BY <1>3, <1>5, <1>8
  <2>3. QED  BY <2>1, <2>2, <1>1, <1>7, Zenon DEF VerifiedReachesDaemon
<1>18. QED  BY <1>10, <1>11, <1>12, <1>13, <1>14, <1>15, <1>16, <1>17 DEF IInv

LEMMA FinishKeeps == IInv /\ Finish => IInv'
<1> SUFFICES ASSUME IInv, Finish PROVE IInv'
  OBVIOUS
<1>1. Buf \in Nat
  BY ScanAssumption
<1>2. /\ pc' = "idle" /\ b2' = "B-" /\ annex' = FALSE /\ failPos' = 0 /\ outLen' = 0 /\ top' = 0
      /\ sent' = NotSent /\ pkt' = NoPacket /\ build' = build
  BY DEF Finish
<1>3. NoPacket \in Packet
  BY <1>1 DEF NoPacket, Packet
<1>4. /\ sent'.kind = "none" /\ sent'.lbyte = 0 /\ sent'.size = 0
  BY <1>2 DEF NotSent
<1>5. TypeOK'
  <2>1. /\ pos' \in Nat /\ rem' \in Nat /\ failPos' \in Nat /\ failRem' \in Nat
        /\ fpos' \in Nat /\ frem' \in Nat /\ outLen' \in Nat /\ top' \in Nat
        /\ annex' \in BOOLEAN
    BY DEF Finish
  <2>2. sent'.lbyte \in Nat /\ sent'.size \in Nat
    BY <1>4
  <2>3. build' \in {"feed", "hci"} /\ pkt' \in Packet
    BY <1>2, <1>3 DEF IInv, TypeOK
  <2>4. QED  BY <2>1, <2>2, <2>3, <1>2, <1>4, Zenon DEF TypeOK
<1>6. pkt'.len = 0 /\ pkt'.off = 0
  BY <1>2 DEF NoPacket
<1>7. Unset' /\ WalkFollows' /\ FailureKnown' /\ CopyFollows'
  BY <1>2 DEF Unset, WalkFollows, FailureKnown, CopyFollows
<1>8. VerdictSound' /\ RepairInsideBuffer'
  BY <1>2 DEF VerdictSound, RepairInsideBuffer
<1>9. LengthByteTrue' /\ FeedVerified' /\ VerifiedReachesDaemon'
  BY <1>2, <1>4 DEF LengthByteTrue, FeedVerified, VerifiedReachesDaemon
<1>10. CopyInside'
  BY <1>1, <1>2, <1>6 DEF CopyInside
<1>11. QED  BY <1>5, <1>7, <1>8, <1>9, <1>10 DEF IInv

------------------------------------------------------------------------------
(* The theorems.                                                            *)

LEMMA StutterKeeps == IInv /\ UNCHANGED vars => IInv'
<1> SUFFICES ASSUME IInv, UNCHANGED vars PROVE IInv'
  OBVIOUS
<1>1. /\ build' = build /\ pc' = pc /\ pkt' = pkt /\ sent' = sent
      /\ pos' = pos /\ rem' = rem /\ b2' = b2 /\ annex' = annex
      /\ failPos' = failPos /\ failRem' = failRem
      /\ fpos' = fpos /\ frem' = frem /\ outLen' = outLen /\ top' = top
  BY DEF vars, walk, copy
<1>2. IndRefused' = IndRefused /\ b2ok' = b2ok /\ AnnexLen' = AnnexLen
  BY <1>1 DEF IndRefused, b2ok, AnnexLen
<1>3. TypeOK' /\ Unset' /\ FailureKnown'
  BY <1>1 DEF IInv, TypeOK, Unset, FailureKnown
<1>4. WalkFollows' /\ VerdictSound' /\ FeedVerified'
  BY <1>1 DEF IInv, WalkFollows, VerdictSound, FeedVerified, InFrame, FrameWhole
<1>5. CopyFollows'
  BY <1>1, <1>2, Zenon DEF IInv, CopyFollows
<1>6. RepairInsideBuffer' /\ LengthByteTrue' /\ CopyInside' /\ VerifiedReachesDaemon'
  BY <1>1, <1>2 DEF IInv, RepairInsideBuffer, TailLen, LengthByteTrue, CopyInside,
                    VerifiedReachesDaemon, FrameWhole
<1>7. QED  BY <1>3, <1>4, <1>5, <1>6 DEF IInv

\* What the scan knows of its packet at every point between the header and
\* the hand-over, and every property below with it, is kept by every step.
THEOREM Invariance == Spec => []IInv
<1>1. IInv /\ [Next]_vars => IInv'
  <2> SUFFICES ASSUME IInv, [Next]_vars PROVE IInv'
    OBVIOUS
  <2>1. CASE FindHeader     BY <2>1, FindHeaderKeeps
  <2>2. CASE WalkTruncated  BY <2>2, WalkTruncatedKeeps
  <2>3. CASE WalkBad        BY <2>3, WalkBadKeeps
  <2>4. CASE WalkGood       BY <2>4, WalkGoodKeeps
  <2>5. CASE WalkEnd        BY <2>5, WalkEndKeeps
  <2>6. CASE JudgeAnnex     BY <2>6, JudgeAnnexKeeps
  <2>7. CASE Repair         BY <2>7, RepairKeeps
  <2>8. CASE Deliver        BY <2>8, DeliverKeeps
  <2>9. CASE CopyBlock      BY <2>9, CopyBlockKeeps
  <2>10. CASE CopyPrefix    BY <2>10, CopyPrefixKeeps
  <2>11. CASE EmitFrame     BY <2>11, EmitFrameKeeps
  <2>12. CASE EmitAnnex     BY <2>12, EmitAnnexKeeps
  <2>13. CASE Finish        BY <2>13, FinishKeeps
  <2>14. CASE UNCHANGED vars  BY <2>14, StutterKeeps
  <2>15. QED
    BY <2>1, <2>2, <2>3, <2>4, <2>5, <2>6, <2>7, <2>8, <2>9, <2>10, <2>11, <2>12,
       <2>13, <2>14, Zenon DEF Next, Proceed
<1>2. QED  BY InitInvariant, <1>1, PTL DEF Spec

\* Every variable of the scan has its type, the packet's length and offset
\* and the counters of walk and copy among them.
THEOREM ScanTyped == Spec => []TypeOK
<1>1. IInv => TypeOK
  BY DEF IInv
<1>2. QED  BY <1>1, Invariance, PTL

\* The verdict the window prints and forwards on is what the blocks are: good
\* means every block of the frame lies in the packet and holds, failed names
\* the first block that does not, repaired leaves none, incomplete means the
\* packet ends before the frame.
THEOREM VerdictIsSound == Spec => []VerdictSound
<1>1. IInv => VerdictSound
  BY DEF IInv
<1>2. QED  BY <1>1, Invariance, PTL

\* The repair reads and writes back a tail that ends inside asmBuf, whatever
\* the offset of the header.
THEOREM RepairStaysInside == Spec => []RepairInsideBuffer
<1>1. IInv => RepairInsideBuffer
  BY DEF IInv
<1>2. QED  BY <1>1, Invariance, PTL

\* The L byte the consumer is given counts the bytes behind it, for both
\* consumers and for the annex, and is the frame's own when there is none.
THEOREM LengthByteIsTrue == Spec => []LengthByteTrue
<1>1. IInv => LengthByteTrue
  BY DEF IInv
<1>2. QED  BY <1>1, Invariance, PTL

\* The copy of an indication stays inside the packet and the out buffer; that
\* of an annex, or for the feed of a repaired frame, overruns the packet by no
\* more than the header's offset.
THEOREM CopyStaysInside == Spec => []CopyInside
<1>1. IInv => CopyInside
  BY DEF IInv
<1>2. QED  BY <1>1, Invariance, PTL

\* The ASCII feed is given no telegram with a failing block, but for the tail
\* of an annex telegram, which has no CRCs.
THEOREM FeedIsVerified == Spec => []FeedVerified
<1>1. IInv => FeedVerified
  BY DEF IInv
<1>2. QED  BY <1>1, Invariance, PTL

\* A telegram called good whose content fits an indication is handed to the
\* daemon: none of the emitter's own checks drops it on the way.
THEOREM GoodFrameReachesDaemon == Spec => []VerifiedReachesDaemon
<1>1. IInv => VerifiedReachesDaemon
  BY DEF IInv
<1>2. QED  BY <1>1, Invariance, PTL
=============================================================================
