---------------------------- MODULE AsyncBacking ----------------------------
(***************************************************************************)
(* The production of parachain blocks ahead of their inclusion in the      *)
(* relay chain.  A collator asks can_build_upon whether the block it is    *)
(* about to build will be valid; the block itself then asserts what the    *)
(* consensus hook, the timestamp pallet and Aura demand of it, and a       *)
(* failed assertion is a panic in on_initialize or in an inherent, which   *)
(* no collator can get past.                                               *)
(*                                                                         *)
(* Time is told relative to the current slot: a block has an age in slots, *)
(* counted up to MaxAge, and its timestamp is the offset into its own      *)
(* slot.                                                                   *)
(***************************************************************************)
EXTENDS Integers, Sequences

CONSTANTS UNINCLUDED_SEGMENT_CAPACITY,
          BLOCK_PROCESSING_VELOCITY,
          SLOT_DURATION,
          RELAY_CHAIN_SLOT_DURATION_MILLIS,
          MinimumPeriod,
          MaxAge      \* the age up to which slots are counted

ASSUME VelocityAssumption == BLOCK_PROCESSING_VELOCITY \in Nat \ {0}
ASSUME CapacityAssumption == UNINCLUDED_SEGMENT_CAPACITY \in Nat \ {0}
ASSUME DurationAssumption == SLOT_DURATION \in Nat \ {0} /\ MinimumPeriod \in Nat
ASSUME RelayAssumption == RELAY_CHAIN_SLOT_DURATION_MILLIS = SLOT_DURATION
ASSUME AgeAssumption == MaxAge \in Nat \ {0}

(* The blocks of one slot, a minimum period apart, fit into the slot.      *)
ASSUME PeriodAssumption == (BLOCK_PROCESSING_VELOCITY + 1) * MinimumPeriod <= SLOT_DURATION

VARIABLES included,   \* the last block included in the relay chain
          segment,    \* the blocks built on it, not yet included
          panicked    \* the assertions that failed

vars == <<included, segment, panicked>>

Block(age, authored, offset) == [age |-> age, authored |-> authored, offset |-> offset]

Init == included = Block(MaxAge, 1, 0) /\ segment = <<>> /\ panicked = {}

Tip == IF segment = <<>> THEN included ELSE segment[Len(segment)]

(* AuraUnincludedSegmentApi: the segment has room, and the slot if the     *)
(* last block is of the same one.                                          *)
can_build_upon_SlotUnlimited == Len(segment) < UNINCLUDED_SEGMENT_CAPACITY

can_build_upon ==
    /\ Len(segment) < UNINCLUDED_SEGMENT_CAPACITY
    /\ Tip.age = 0 => Tip.authored < BLOCK_PROCESSING_VELOCITY + 1

(* SlotInfo: how many blocks the slot has with this one.                   *)
slot_info == IF Tip.age = 0 THEN Tip.authored + 1 ELSE 1

(* pallet_timestamp's inherent: the time of the slot, or the minimum       *)
(* period after the last block if that is later.                           *)
next_time ==
    LET earliest == Tip.offset + MinimumPeriod - Tip.age * SLOT_DURATION
    IN  IF earliest > 0 THEN earliest ELSE 0

Assertions == {"mismatch", "limit", "capacity", "timestamp"}

(* What fails in the block: the hook's demand that its slot be the one of  *)
(* the relay chain, which a collator's slots are in step with only if both *)
(* last as long, its limit of blocks for a slot, its room in the segment,  *)
(* and Aura's demand that the time be in the slot.                         *)
Failures ==
    {f \in Assertions :
        \/ f = "mismatch" /\ RELAY_CHAIN_SLOT_DURATION_MILLIS # SLOT_DURATION
        \/ f = "limit" /\ slot_info > BLOCK_PROCESSING_VELOCITY + 1
        \/ f = "capacity" /\ Len(segment) >= UNINCLUDED_SEGMENT_CAPACITY
        \/ f = "timestamp" /\ next_time >= SLOT_DURATION}

Author ==
    /\ can_build_upon
    /\ panicked' = panicked \cup Failures
    /\ segment' = IF Failures = {} THEN Append(segment, Block(0, slot_info, next_time))
                  ELSE segment
    /\ UNCHANGED included

Older(b) == [b EXCEPT !.age = IF @ < MaxAge THEN @ + 1 ELSE @]

(* The relay chain's next slot.                                            *)
NextSlot ==
    /\ included' = Older(included)
    /\ segment' = [i \in DOMAIN segment |-> Older(segment[i])]
    /\ UNCHANGED panicked

Include_StillCounted ==
    /\ segment # <<>>
    /\ included' = Head(segment)
    /\ UNCHANGED <<segment, panicked>>

(* The relay chain includes the next block.                                *)
Include ==
    /\ segment # <<>>
    /\ included' = Head(segment)
    /\ segment' = Tail(segment)
    /\ UNCHANGED panicked

(* A candidate times out, or another collator builds on an earlier block:  *)
(* the last blocks are given up.                                           *)
Abandon(n) ==
    /\ n \in 0 .. Len(segment) - 1
    /\ segment' = SubSeq(segment, 1, n)
    /\ UNCHANGED <<included, panicked>>

Next == Author \/ NextSlot \/ Include \/ \E n \in 0 .. Len(segment) - 1 : Abandon(n)

Spec == Init /\ [][Next]_vars

(* Slots go by, their collators build when they may, and blocks that keep  *)
(* being offered to the relay chain are not given up forever.              *)
FairSpec == Spec /\ WF_vars(NextSlot) /\ SF_vars(Author) /\ SF_vars(Include)

-----------------------------------------------------------------------------

(* A block and what its time is bounded by: a minimum period for each      *)
(* block its slot already had.                                             *)
Timely(b) ==
    /\ b \in [age : 0 .. MaxAge, authored : 1 .. BLOCK_PROCESSING_VELOCITY + 1, offset : Nat]
    /\ b.offset <= (b.authored - 1) * MinimumPeriod

(* The types, and why no time leaves its slot: every block of the chain is *)
(* timely, those the relay chain may still fall back to included.          *)
ChainTimely ==
    /\ Timely(included)
    /\ segment \in Seq([age : 0 .. MaxAge, authored : Nat, offset : Nat])
    /\ \A i \in 1 .. Len(segment) : Timely(segment[i])
    /\ panicked \subseteq Assertions

(* What can_build_upon lets a collator build never panics: not for a slot  *)
(* that is not the relay chain's, nor for the limit of blocks of a slot,   *)
(* nor for want of room in the segment, nor because the timestamp          *)
(* inherent, pushed on by the minimum period, leaves the slot.  Candidates *)
(* that time out and forks do not matter.                                  *)
NoPanic == panicked = {}

(* Blocks go on being included, however many are given up on the way.      *)
InclusionGoesOn == []<><<Include>>_vars
=============================================================================
