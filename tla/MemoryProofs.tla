------------------------------ MODULE MemoryProofs ------------------------------
(***************************************************************************)
(* Frames, Frame capabilities and page tables, for any usable regions, any *)
(* number of processes and any size of the windows.                        *)
(*                                                                         *)
(* FramesConserved is not inductive: that the cursor never comes to a      *)
(* frame that is in use or free needs that all of them lie behind it       *)
(* (AheadUntouched).  FrameCapsLive needs what the call in progress holds  *)
(* (CallHolds): the run FRAME_ALLOC frees when it fails is named by no     *)
(* capability, because the capability is installed last.                   *)
(*                                                                         *)
(* HandedOutStays needs, beside that, which pages the call has mapped so   *)
(* far (CallDone) and that its frames, and those the capabilities name,    *)
(* are behind no heap page yet (CallFrames, CapsOffHeap).                  *)
(*                                                                         *)
(* BudgetConserved is about sums over slots and processes.  What is needed *)
(* of a sum is proved first, by induction over the subsets of a finite set *)
(* stated for a family of sets; then it is enough that a call that has     *)
(* paid still finds an Untyped capability to refund (Refundable).          *)
(***************************************************************************)
EXTENDS Memory, WellFoundedInduction, FiniteSetTheorems, SequenceTheorems, TLAPS

Run(base, n) == base .. base + n - 1

(* The frames a cursor at c in region r has not come to.                   *)
AheadOf(r, c) ==
    UNION {(IF k = r THEN c ELSE Regions[k].start) .. Regions[k].end - 1 :
              k \in r .. Len(Regions)}
Ahead == AheadOf(region_idx, cursor)

AheadUntouched ==
    /\ region_idx \in DOMAIN Regions => Regions[region_idx].start <= cursor
    /\ Ahead \cap allocated = {}
    /\ Ahead \cap Range(free) = {}

AllocatorTypes ==
    /\ region_idx \in 1 .. Len(Regions) + 1
    /\ cursor \in Nat
    /\ free \in Seq(Frame)
    /\ in_use \in Nat
    /\ allocated \subseteq Frame /\ IsFiniteSet(allocated)

SpaceTypes ==
    /\ map \in [Pid -> [Page -> Frame \cup {None}]]
    /\ tables \in [Pid -> SUBSET Table]
    /\ heap_break \in [Pid -> HEAP_START .. HEAP_MAX]
    /\ next_dma \in DMA_START .. DMA_REGION_END
    /\ next_shared \in SHARED_START .. SHARED_REGION_END

(* The call in progress, step by step.                                     *)
Calls == [call : {"dma", "frame", "map", "sbrk"},
          step : {"take", "map", "heap", "finish", "fail"},
          p : Pid, pages : Nat, phys : Frame \cup {None}, va : Nat, done : Nat,
          slot : SlotArg, out_ok : BOOLEAN]
CallTypes ==
    op = Idle \/
    /\ op \in Calls
    /\ op.done <= op.pages
    /\ op.step = "take" => op.call \in {"dma", "frame"} /\ op.phys = None /\ op.done = 0
    /\ op.call \in {"dma", "frame"} => op.pages > 0
    /\ op.step = "heap" => op.call = "sbrk"
    /\ op.step = "finish" => op.call # "sbrk"

(* The pages it maps lie in its window.                                    *)
CallPages ==
    /\ op # Idle /\ op.call = "dma" /\ op.step \in {"map", "finish"} =>
          DMA_START <= op.va /\ op.va + op.pages <= DMA_REGION_END
    /\ op # Idle /\ op.call \in {"frame", "map"} /\ op.step \in {"map", "finish"} =>
          SHARED_START <= op.va /\ op.va + op.pages <= SHARED_REGION_END
    /\ op # Idle /\ op.call = "sbrk" =>
          op.va = heap_break[op.p] /\ op.va + op.pages <= HEAP_MAX
    /\ op # Idle /\ op.call = "sbrk" /\ op.step = "map" =>
          op.phys # None /\ op.done < op.pages

(* The frames it maps are allocated, and those of FRAME_ALLOC are its own. *)
CallHolds ==
    /\ op # Idle /\ op.call # "sbrk" /\ op.step \in {"map", "finish"} => op.phys # None
    /\ op # Idle /\ op.call # "sbrk" /\ op.phys # None =>
          Run(op.phys, op.pages) \subseteq allocated
    /\ op # Idle /\ op.call = "frame" /\ op.phys # None =>
          \A c \in FrameCaps : Run(op.phys, op.pages) \cap FramesOf(c) = {}

(* A Frame capability names at least one frame.                            *)
FrameCapsSized == \A c \in FrameCaps : c.badge > 0

Inv ==
    /\ AllocatorTypes /\ AheadUntouched /\ FramesConserved
    /\ caps \in [Pid -> CNode] /\ FrameCapsLive /\ FrameCapsSized
    /\ SpaceTypes
    /\ CallTypes /\ CallPages /\ CallHolds
    /\ granted \in Nat /\ minted \in Nat
-----------------------------------------------------------------------------
(* The operators.                                                          *)

(* A nonempty set of naturals has a least element, and Min is it. *)
LEMMA MinIsLeast ==
  ASSUME NEW S, S \subseteq Nat, S # {}
  PROVE  Min(S) \in S /\ \A y \in S : Min(S) <= y
<1>1. PICK x \in S : \A y \in S : ~(<<y, x>> \in OpToRel(<, Nat))
  BY NatLessThanWellFounded, WFMin, Zenon
<1>2. \A y \in S : x <= y
  <2> TAKE y \in S
  <2>1. y \in Nat /\ x \in Nat
    OBVIOUS
  <2>2. ~(y < x)
    BY <1>1, <2>1, Zenon DEF OpToRel
  <2> QED
    BY <2>1, <2>2
<1>3. \E z \in S : \A y \in S : z <= y
  BY <1>2
<1> QED
  BY <1>3 DEF Min

(* The regions are intervals of naturals. *)
LEMMA RegionFacts ==
  /\ Len(Regions) \in Nat /\ DOMAIN Regions = 1 .. Len(Regions)
  /\ \A k \in 1 .. Len(Regions) :
        /\ Regions[k].start \in Nat /\ Regions[k].end \in Nat
        /\ Regions[k].start < Regions[k].end
<1>1. Regions \in Seq([start : Nat, end : Nat])
  BY RegionsAssumption
<1>2. Len(Regions) \in Nat /\ DOMAIN Regions = 1 .. Len(Regions)
  BY <1>1
<1>3. \A k \in 1 .. Len(Regions) : Regions[k] \in [start : Nat, end : Nat]
  BY <1>1, <1>2, ElementOfSeq
<1>4. \A k \in 1 .. Len(Regions) : Regions[k].start \in Nat /\ Regions[k].end \in Nat
  BY <1>3
<1> QED BY <1>2, <1>4, RegionsAssumption

(* No frame lies in two regions. *)
LEMMA RegionsDisjoint ==
  ASSUME NEW j \in 1 .. Len(Regions), NEW k \in 1 .. Len(Regions), NEW x \in Int,
         Regions[j].start <= x, x < Regions[j].end,
         Regions[k].start <= x, x < Regions[k].end
  PROVE  j = k
<1>1. /\ Regions[j].start \in Nat /\ Regions[j].end \in Nat
      /\ Regions[k].start \in Nat /\ Regions[k].end \in Nat
  BY RegionFacts
<1>2. /\ x \in Regions[j].start .. Regions[j].end - 1
      /\ x \in Regions[k].start .. Regions[k].end - 1
  BY <1>1
<1> QED BY <1>2, RegionFacts, RegionsAssumption

(* A frame lies in one of the regions. *)
LEMMA FrameIff ==
  ASSUME NEW x
  PROVE  x \in Frame <=> \E k \in 1 .. Len(Regions) :
                            x \in Int /\ Regions[k].start <= x /\ x < Regions[k].end
<1>1. x \in Frame <=> \E k \in 1 .. Len(Regions) :
                         x \in Regions[k].start .. Regions[k].end - 1
  BY RegionFacts, Zenon DEF Frame
<1>2. \A k \in 1 .. Len(Regions) :
         x \in Regions[k].start .. Regions[k].end - 1 <=>
            x \in Int /\ Regions[k].start <= x /\ x < Regions[k].end
  BY RegionFacts
<1> QED BY <1>1, <1>2, Zenon

(* Frames are natural numbers, so None is not one. *)
LEMMA FrameIsNat == Frame \subseteq Nat /\ None \notin Frame
  BY FrameIff, RegionFacts DEF None

(* Where the bump cursor starts in a region. *)
LEMMA BumpStartType ==
  ASSUME AllocatorTypes, NEW k \in region_idx .. Len(Regions)
  PROVE  /\ k \in 1 .. Len(Regions)
         /\ bump_start(k) \in Nat
         /\ AheadUntouched => Regions[k].start <= bump_start(k)
<1>1. k \in 1 .. Len(Regions)
  BY RegionFacts DEF AllocatorTypes
<1> QED BY <1>1, RegionFacts DEF AllocatorTypes, bump_start, AheadUntouched

(* The frames the cursor has not reached. *)
LEMMA AheadIff ==
  ASSUME NEW r \in Nat \ {0}, NEW c \in Nat, NEW x
  PROVE  x \in AheadOf(r, c) <=>
            \E k \in r .. Len(Regions) :
               /\ x \in Int /\ x < Regions[k].end
               /\ (IF k = r THEN c ELSE Regions[k].start) <= x
<1>1. x \in AheadOf(r, c) <=>
         \E k \in r .. Len(Regions) :
            x \in (IF k = r THEN c ELSE Regions[k].start) .. Regions[k].end - 1
  BY Zenon DEF AheadOf
<1>2. ASSUME NEW k \in r .. Len(Regions)
      PROVE  x \in (IF k = r THEN c ELSE Regions[k].start) .. Regions[k].end - 1 <=>
                /\ x \in Int /\ x < Regions[k].end
                /\ (IF k = r THEN c ELSE Regions[k].start) <= x
  <2>1. k \in 1 .. Len(Regions)
    BY RegionFacts
  <2>2. Regions[k].start \in Nat /\ Regions[k].end \in Nat
    BY <2>1, RegionFacts
  <2> QED BY <2>2
<1> QED BY <1>1, <1>2

(* The region a request is taken from. *)
LEMMA FittingMin ==
  ASSUME AllocatorTypes, NEW n \in Nat, Fitting(n) # {}
  PROVE  LET k == Min(Fitting(n))
         IN  k \in region_idx .. Len(Regions) /\ bump_start(k) + n <= Regions[k].end
<1>1. Fitting(n) \subseteq Nat
  BY RegionFacts DEF Fitting, AllocatorTypes
<1>2. Min(Fitting(n)) \in Fitting(n)
  BY <1>1, MinIsLeast
<1> QED BY <1>2 DEF Fitting
-----------------------------------------------------------------------------
(* The frame allocator.                                                    *)

Allocator == AllocatorTypes /\ AheadUntouched /\ FramesConserved

(* A request that is met by the cursor gets frames nobody has. *)
LEMMA BumpKeeps ==
  ASSUME Allocator, NEW n \in Nat, Fitting(n) # {}, bump(n), UNCHANGED free,
         NEW base, base = bump_start(Min(Fitting(n)))
  PROVE  /\ Allocator'
         /\ n > 0 => base \in Frame
         /\ allocated' = allocated \cup Run(base, n)
         /\ Run(base, n) \cap allocated = {}
<1> DEFINE k == Min(Fitting(n))
<1>1. AllocatorTypes /\ AheadUntouched /\ FramesConserved
  BY DEF Allocator
<1>2. k \in region_idx .. Len(Regions) /\ base + n <= Regions[k].end
  BY <1>1, FittingMin
<1>3. /\ region_idx' = k /\ cursor' = base + n /\ in_use' = in_use + n
      /\ allocated' = allocated \cup (base .. base + n - 1)
  BY DEF bump
<1>4. base = bump_start(k)
  OBVIOUS
<1> HIDE DEF k
<1>5. k \in 1 .. Len(Regions) /\ base \in Nat /\ Regions[k].start <= base
  BY <1>1, <1>2, <1>4, BumpStartType
<1>6. region_idx \in Nat /\ region_idx > 0 /\ Len(Regions) \in Nat /\ Regions[k].end \in Nat
  BY <1>1, <1>5, RegionFacts DEF AllocatorTypes
<1>7. ASSUME NEW x \in Run(base, n) PROVE x \in Ahead /\ x \in Frame /\ x \in Int
  <2>1. x \in Int /\ base <= x /\ x < Regions[k].end
    BY <1>2, <1>5, <1>6 DEF Run
  <2>2. x \in Ahead
    BY <1>1, <1>2, <1>4, <1>6, <2>1, AheadIff DEF Ahead, bump_start, AllocatorTypes
  <2>3. Regions[k].start <= x
    BY <1>5, <2>1, RegionFacts
  <2> QED BY <1>5, <2>1, <2>2, <2>3, FrameIff
<1>8. Run(base, n) \cap allocated = {} /\ Run(base, n) \cap Range(free) = {}
  BY <1>1, <1>7 DEF AheadUntouched
<1>9. allocated' = allocated \cup Run(base, n)
  BY <1>3 DEF Run
<1>10. n > 0 => base \in Frame
  <2>1. n > 0 => base \in Run(base, n)
    BY <1>5 DEF Run
  <2> QED BY <1>7, <2>1
<1>11. IsFiniteSet(allocated') /\ Cardinality(allocated') = Cardinality(allocated) + n
  <2>1. IsFiniteSet(Run(base, n)) /\ Cardinality(Run(base, n)) = n
    <3>1. base \in Int /\ base + n - 1 \in Int
      BY <1>5
    <3>2. IsFiniteSet(base .. base + n - 1)
          /\ Cardinality(base .. base + n - 1) =
                IF base > base + n - 1 THEN 0 ELSE (base + n - 1) - base + 1
      BY <3>1, FS_Interval
    <3>3. (IF base > base + n - 1 THEN 0 ELSE (base + n - 1) - base + 1) = n
      BY <1>5
    <3> QED BY <3>2, <3>3 DEF Run
  <2>2. IsFiniteSet(allocated) /\ Cardinality(allocated) \in Nat
    BY <1>1, FS_CardinalityType DEF AllocatorTypes
  <2>3. allocated \cap Run(base, n) = {}
    BY <1>8
  <2>4. /\ IsFiniteSet(allocated \cup Run(base, n))
        /\ Cardinality(allocated \cup Run(base, n)) =
              Cardinality(allocated) + n - Cardinality({})
    BY <2>1, <2>2, <2>3, FS_Union
  <2>5. Cardinality({}) = 0
    BY FS_EmptySet
  <2> QED BY <1>9, <2>2, <2>4, <2>5
<1>12. AllocatorTypes'
  <2>1. region_idx' \in 1 .. Len(Regions) + 1 /\ cursor' \in Nat /\ in_use' \in Nat
    BY <1>1, <1>3, <1>5, <1>6 DEF AllocatorTypes
  <2>2. allocated' \subseteq Frame /\ free' \in Seq(Frame)
    BY <1>1, <1>7, <1>9 DEF AllocatorTypes
  <2> QED BY <1>11, <2>1, <2>2 DEF AllocatorTypes
<1>13. ASSUME NEW x \in Ahead' PROVE x \in Ahead /\ x \notin Run(base, n)
  <2>1. PICK j \in k .. Len(Regions) :
           x \in Int /\ x < Regions[j].end
           /\ (IF j = k THEN base + n ELSE Regions[j].start) <= x
    <3>1. x \in AheadOf(k, base + n) /\ k \in Nat \ {0} /\ base + n \in Nat
      BY <1>3, <1>5, <1>6, <1>13 DEF Ahead
    <3> QED BY <3>1, AheadIff
  <2>2. j \in region_idx .. Len(Regions) /\ j \in 1 .. Len(Regions)
    BY <1>2, <1>5, <1>6, <2>1
  <2>3. CASE j = k
    <3>1. base <= x /\ ~(x \in Run(base, n))
      BY <1>5, <2>1, <2>3 DEF Run
    <3>2. x \in Ahead
      BY <1>1, <1>4, <1>6, <2>1, <2>2, <2>3, <3>1, AheadIff
         DEF Ahead, bump_start, AllocatorTypes
    <3> QED BY <3>1, <3>2
  <2>4. CASE j # k
    <3>1. j # region_idx
      BY <1>2, <1>6, <2>1, <2>4
    <3>2. x \in Ahead
      BY <1>1, <1>6, <2>1, <2>2, <2>4, <3>1, AheadIff DEF Ahead, AllocatorTypes
    <3>3. ASSUME x \in Run(base, n) PROVE FALSE
      <4>1. Regions[k].start <= x /\ x < Regions[k].end
        BY <1>2, <1>5, <1>6, <3>3, RegionFacts DEF Run
      <4>2. Regions[j].start <= x
        BY <2>1, <2>4
      <4> QED BY <1>5, <2>1, <2>2, <2>4, <4>1, <4>2, RegionsDisjoint
    <3> QED BY <3>2, <3>3
  <2> QED BY <2>3, <2>4
<1>14. AheadUntouched'
  <2>1. region_idx' \in DOMAIN Regions => Regions[region_idx'].start <= cursor'
    BY <1>3, <1>5, RegionFacts
  <2>2. Ahead' \cap allocated' = {} /\ Ahead' \cap Range(free)' = {}
    <3>1. Range(free)' = Range(free)
      OBVIOUS
    <3> QED BY <1>1, <1>9, <1>13, <3>1 DEF AheadUntouched
  <2> QED BY <2>1, <2>2 DEF AheadUntouched
<1>15. FramesConserved'
  <2>1. in_use' = Cardinality(allocated')
    BY <1>1, <1>3, <1>11 DEF FramesConserved
  <2> QED BY <1>1, <1>8, <1>9, <2>1 DEF FramesConserved
<1> QED BY <1>8, <1>9, <1>10, <1>12, <1>14, <1>15 DEF Allocator

(* A request no region has room for leaves nothing ahead of the cursor. *)
LEMMA ExhaustKeeps ==
  ASSUME Allocator, exhaust, UNCHANGED free
  PROVE  Allocator' /\ allocated' = allocated
<1>1. AllocatorTypes /\ AheadUntouched /\ FramesConserved
  BY DEF Allocator
<1>2. /\ region_idx' = Len(Regions) + 1 /\ in_use' = in_use /\ allocated' = allocated
      /\ Len(Regions) \in Nat
  BY <1>1, RegionFacts DEF exhaust, AllocatorTypes
<1>3. cursor' \in Nat
  <2>1. CASE region_idx < Len(Regions)
    <3>1. Len(Regions) \in 1 .. Len(Regions)
      BY <1>1, <1>2, <2>1 DEF AllocatorTypes
    <3> QED BY <2>1, <3>1, RegionFacts DEF exhaust, Last
  <2>2. CASE ~(region_idx < Len(Regions))
    BY <1>1, <2>2 DEF exhaust, AllocatorTypes
  <2> QED BY <2>1, <2>2
<1>4. AllocatorTypes'
  BY <1>1, <1>2, <1>3 DEF AllocatorTypes
<1>5. Ahead' = {}
  <2> SUFFICES ASSUME NEW x \in Ahead' PROVE FALSE
    OBVIOUS
  <2>1. x \in AheadOf(Len(Regions) + 1, cursor') /\ Len(Regions) + 1 \in Nat \ {0}
    BY <1>2 DEF Ahead
  <2>2. \E k \in Len(Regions) + 1 .. Len(Regions) : TRUE
    BY <1>3, <2>1, AheadIff
  <2> QED BY <1>2, <2>2
<1>6. AheadUntouched'
  BY <1>2, <1>5, RegionFacts DEF AheadUntouched
<1>7. FramesConserved'
  BY <1>1, <1>2 DEF FramesConserved
<1> QED BY <1>2, <1>4, <1>6, <1>7 DEF Allocator

(* alloc hands out a frame nobody has, if it hands one out. *)
LEMMA AllocKeeps ==
  ASSUME Allocator, alloc
  PROVE  /\ Allocator'
         /\ allocated \subseteq allocated'
         /\ alloc_ok => /\ alloc_frame \in Frame
                        /\ alloc_frame \in allocated' /\ alloc_frame \notin allocated
<1>1. AllocatorTypes /\ AheadUntouched /\ FramesConserved
  BY DEF Allocator
<1>2. CASE free # <<>>
  <2> DEFINE f == Last(free)
  <2>1. /\ free' = Front(free) /\ in_use' = in_use + 1 /\ allocated' = allocated \cup {f}
        /\ UNCHANGED <<region_idx, cursor>>
    BY <1>2 DEF alloc
  <2>2. free \in Seq(Frame) /\ Len(free) \in Nat \ {0} /\ DOMAIN free = 1 .. Len(free)
    BY <1>1, <1>2, EmptySeq DEF AllocatorTypes
  <2>3. f = free[Len(free)] /\ f \in Frame /\ f \in Range(free)
    <3>1. Len(free) \in DOMAIN free
      BY <2>2
    <3>2. free[Len(free)] \in Frame
      BY <2>2, <3>1, ElementOfSeq
    <3> QED BY <3>1, <3>2 DEF Last, Range
  <2>4. /\ Front(free) \in Seq(Frame) /\ DOMAIN Front(free) = 1 .. Len(free) - 1
        /\ \A i \in 1 .. Len(free) - 1 : Front(free)[i] = free[i]
    BY <2>2, SMTT(60) DEF Front
  <2> HIDE DEF f
  <2>5. Range(Front(free)) \subseteq Range(free) \ {f}
    <3> SUFFICES ASSUME NEW i \in 1 .. Len(free) - 1
                 PROVE  Front(free)[i] \in Range(free) /\ Front(free)[i] # f
      BY <2>4 DEF Range
    <3>0. Len(free) \in Nat \ {0}
      BY <2>2
    <3>1. i \in 1 .. Len(free) /\ Len(free) \in 1 .. Len(free) /\ i # Len(free)
      BY <3>0
    <3> QED BY <1>1, <2>2, <2>3, <2>4, <3>1 DEF FramesConserved, IsInjective, Range
  <2>6. IsInjective(Front(free))
    <3>1. 1 .. Len(free) - 1 \subseteq DOMAIN free
      BY <2>2
    <3> QED BY <1>1, <2>4, <3>1 DEF FramesConserved, IsInjective
  <2>7. f \notin allocated
    BY <1>1, <2>3 DEF FramesConserved
  <2>8. IsFiniteSet(allocated') /\ Cardinality(allocated') = Cardinality(allocated) + 1
    BY <1>1, <2>1, <2>7, FS_AddElement DEF AllocatorTypes
  <2>9. AllocatorTypes'
    BY <1>1, <2>1, <2>3, <2>4, <2>8 DEF AllocatorTypes
  <2>10. AheadUntouched'
    BY <1>1, <2>1, <2>3, <2>5 DEF AheadUntouched, Ahead
  <2>11. FramesConserved'
    BY <1>1, <2>1, <2>5, <2>6, <2>8 DEF FramesConserved
  <2> QED BY <1>2, <2>1, <2>3, <2>7, <2>9, <2>10, <2>11 DEF Allocator, alloc_frame, f
<1>3. CASE free = <<>> /\ Fitting(1) # {}
  <2>1. bump(1) /\ UNCHANGED free
    BY <1>3 DEF alloc
  <2> DEFINE f == bump_start(Min(Fitting(1)))
  <2>2. /\ Allocator' /\ f \in Frame /\ allocated' = allocated \cup Run(f, 1)
        /\ Run(f, 1) \cap allocated = {}
    BY <1>3, <2>1, BumpKeeps
  <2>3. alloc_frame = f
    BY <1>3 DEF alloc_frame
  <2> HIDE DEF f
  <2>4. f \in Run(f, 1)
    BY <2>2, FrameIsNat DEF Run
  <2> QED BY <2>2, <2>3, <2>4
<1>4. CASE free = <<>> /\ Fitting(1) = {}
  BY <1>4, ExhaustKeeps DEF alloc, alloc_ok
<1> QED BY <1>2, <1>3, <1>4

(* Freeing a run that is in use puts each of its frames on the list once. *)
LEMMA FreeKeeps ==
  ASSUME Allocator, NEW n \in Nat, NEW pa \in Nat, Run(pa, n) \subseteq allocated,
         free_run(pa, n)
  PROVE  Allocator' /\ allocated' = allocated \ Run(pa, n)
<1> DEFINE run == [i \in 1 .. n |-> pa + i - 1]
<1>1. AllocatorTypes /\ AheadUntouched /\ FramesConserved
  BY DEF Allocator
<1>2. /\ free' = free \o run /\ allocated' = allocated \ Run(pa, n)
      /\ in_use' = IF in_use >= n THEN in_use - n ELSE 0
      /\ UNCHANGED <<region_idx, cursor>>
  BY DEF free_run, Run
<1>3. \A i \in 1 .. n : run[i] \in Run(pa, n)
  BY DEF Run
<1>4. run \in Seq(Frame) /\ Len(run) = n /\ DOMAIN run = 1 .. n
  <2>1. \A i \in 1 .. n : run[i] \in Frame
    BY <1>1, <1>3 DEF AllocatorTypes
  <2>2. run \in [1 .. n -> Frame]
    BY <2>1
  <2> QED BY <2>2
<1>5. free \in Seq(Frame) /\ Len(free) \in Nat /\ DOMAIN free = 1 .. Len(free)
  BY <1>1 DEF AllocatorTypes
<1>6. \A i, j \in 1 .. n : run[i] = run[j] => i = j
  OBVIOUS
<1> HIDE DEF run
<1> DEFINE all == free \o run
<1>7. /\ all \in Seq(Frame) /\ DOMAIN all = 1 .. Len(free) + n
      /\ \A i \in 1 .. Len(free) : all[i] = free[i]
      /\ \A i \in Len(free) + 1 .. Len(free) + n : all[i] = run[i - Len(free)]
  <2>1. /\ all \in Seq(Frame) /\ Len(all) = Len(free) + Len(run)
        /\ \A i \in 1 .. Len(free) + Len(run) :
              all[i] = IF i <= Len(free) THEN free[i] ELSE run[i - Len(free)]
    BY <1>4, <1>5, ConcatProperties
  <2> HIDE DEF all
  <2>2. DOMAIN all = 1 .. Len(all)
    BY <2>1
  <2> QED BY <1>4, <1>5, <2>1, <2>2
<1> HIDE DEF all
<1>8. ASSUME NEW i \in DOMAIN all
      PROVE  \/ i \in DOMAIN free /\ all[i] = free[i] /\ all[i] \in Range(free)
             \/ i - Len(free) \in 1 .. n /\ all[i] = run[i - Len(free)]
                /\ all[i] \in Run(pa, n)
  <2>1. CASE i \in 1 .. Len(free)
    BY <1>5, <1>7, <2>1 DEF Range
  <2>2. CASE i \in Len(free) + 1 .. Len(free) + n
    <3>1. i - Len(free) \in 1 .. n
      BY <1>5, <2>2
    <3> QED BY <1>3, <1>7, <2>2, <3>1
  <2> QED BY <1>5, <1>7, <1>8, <2>1, <2>2
<1>9. Range(free) \cap Run(pa, n) = {}
  BY <1>1 DEF FramesConserved
<1>10. Range(all) \subseteq Range(free) \cup Run(pa, n)
  BY <1>8 DEF Range
<1>11. IsInjective(all)
  <2> SUFFICES ASSUME NEW i \in DOMAIN all, NEW j \in DOMAIN all, all[i] = all[j]
               PROVE  i = j
    BY DEF IsInjective
  <2>1. CASE i \in DOMAIN free /\ j \in DOMAIN free
    BY <1>1, <1>5, <1>7, <2>1 DEF FramesConserved, IsInjective
  <2>2. CASE i - Len(free) \in 1 .. n /\ j - Len(free) \in 1 .. n
    <3>1. i \in Int /\ j \in Int
      BY <1>5, <1>7
    <3>2. i \in Len(free) + 1 .. Len(free) + n /\ j \in Len(free) + 1 .. Len(free) + n
      BY <1>5, <2>2, <3>1
    <3>3. run[i - Len(free)] = run[j - Len(free)]
      BY <1>7, <3>2
    <3>4. i - Len(free) = j - Len(free)
      BY <1>6, <2>2, <3>3
    <3> QED BY <1>5, <3>1, <3>4
  <2> QED BY <1>8, <1>9, <2>1, <2>2
<1>12. /\ IsFiniteSet(allocated')
       /\ Cardinality(allocated') = Cardinality(allocated) - n
       /\ Cardinality(allocated') \in Nat /\ Cardinality(allocated) \in Nat
  <2>1. Cardinality(Run(pa, n)) = n
    <3>1. pa \in Int /\ pa + n - 1 \in Int
      OBVIOUS
    <3>2. Cardinality(pa .. pa + n - 1) = IF pa > pa + n - 1 THEN 0 ELSE (pa + n - 1) - pa + 1
      BY <3>1, FS_Interval
    <3>3. (IF pa > pa + n - 1 THEN 0 ELSE (pa + n - 1) - pa + 1) = n
      OBVIOUS
    <3> QED BY <3>2, <3>3 DEF Run
  <2>2. allocated \cap Run(pa, n) = Run(pa, n)
    OBVIOUS
  <2>3. /\ IsFiniteSet(allocated \ Run(pa, n))
        /\ Cardinality(allocated \ Run(pa, n)) =
              Cardinality(allocated) - Cardinality(allocated \cap Run(pa, n))
    <3>1. IsFiniteSet(allocated)
      BY <1>1 DEF AllocatorTypes
    <3> QED BY <3>1, FS_Difference, Zenon
  <2>4. Cardinality(allocated \ Run(pa, n)) = Cardinality(allocated) - n
    BY <2>1, <2>2, <2>3, Zenon
  <2> QED BY <1>1, <1>2, <2>3, <2>4, FS_CardinalityType DEF AllocatorTypes
<1>13. in_use' = Cardinality(allocated') /\ in_use' \in Nat
  BY <1>1, <1>2, <1>12 DEF FramesConserved
<1>14. AllocatorTypes'
  BY <1>1, <1>2, <1>7, <1>12, <1>13 DEF AllocatorTypes, all
<1>15. AheadUntouched'
  <2>1. Ahead' = Ahead /\ Range(free') \subseteq Range(free) \cup allocated
    BY <1>2, <1>10 DEF Ahead, all
  <2> QED BY <1>1, <1>2, <2>1 DEF AheadUntouched
<1>16. FramesConserved'
  <2>1. Range(free') \cap allocated' = {}
    BY <1>1, <1>2, <1>10 DEF FramesConserved, all
  <2> QED BY <1>2, <1>11, <1>13, <2>1 DEF FramesConserved, all
<1> QED BY <1>2, <1>14, <1>15, <1>16 DEF Allocator
-----------------------------------------------------------------------------
(* The capability tables.                                                  *)

(* charge_untyped changes nothing but the budget of an Untyped capability. *)
LEMMA ChargeKeeps ==
  ASSUME NEW cn \in CNode, NEW n \in Nat, charge_ok(cn, n)
  PROVE  /\ charge_untyped(cn, n) \in CNode
         /\ \A i \in Slot : /\ charge_untyped(cn, n)[i].type = cn[i].type
                            /\ cn[i].type # "Untyped" => charge_untyped(cn, n)[i] = cn[i]
<1> DEFINE payers == {j \in UntypedSlots(cn) : cn[j].object >= n}
           i == Min(payers)
<1>1. payers # {} /\ payers \subseteq Nat
  BY CapAssumption DEF charge_ok, UntypedSlots, Slot
<1>2. i \in payers
  BY <1>1, MinIsLeast
<1>3. charge_untyped(cn, n) = [cn EXCEPT ![i].object = @ - n]
  BY DEF charge_untyped
<1> HIDE DEF i
<1>4. i \in Slot /\ cn[i].type = "Untyped" /\ cn[i] \in CapEntry /\ cn[i].object >= n
  BY <1>2 DEF UntypedSlots, CNode
<1>5. cn[i].object \in Nat /\ cn[i].object - n \in Nat
  BY <1>4 DEF CapEntry
<1>6. [cn[i] EXCEPT !.object = @ - n] \in CapEntry
      /\ [cn[i] EXCEPT !.object = @ - n].type = cn[i].type
  BY <1>4, <1>5 DEF CapEntry
<1>7. charge_untyped(cn, n) = [cn EXCEPT ![i] = [cn[i] EXCEPT !.object = @ - n]]
  BY <1>3
<1> QED BY <1>4, <1>6, <1>7 DEF CNode

(* refund_untyped likewise. *)
LEMMA RefundKeeps ==
  ASSUME NEW cn \in CNode, NEW n \in Nat
  PROVE  /\ refund_untyped(cn, n) \in CNode
         /\ \A i \in Slot : /\ refund_untyped(cn, n)[i].type = cn[i].type
                            /\ cn[i].type # "Untyped" => refund_untyped(cn, n)[i] = cn[i]
<1>1. CASE UntypedSlots(cn) = {}
  BY <1>1 DEF refund_untyped
<1>2. CASE UntypedSlots(cn) # {}
  <2> DEFINE i == Min(UntypedSlots(cn))
  <2>1. UntypedSlots(cn) \subseteq Nat
    BY CapAssumption DEF UntypedSlots, Slot
  <2>2. i \in UntypedSlots(cn)
    BY <1>2, <2>1, MinIsLeast
  <2>3. refund_untyped(cn, n) = [cn EXCEPT ![i].object = @ + n]
    BY <1>2 DEF refund_untyped
  <2> HIDE DEF i
  <2>4. i \in Slot /\ cn[i].type = "Untyped" /\ cn[i] \in CapEntry
    BY <2>2 DEF UntypedSlots, CNode
  <2>5. cn[i].object \in Nat /\ cn[i].object + n \in Nat
    BY <2>4 DEF CapEntry
  <2>6. [cn[i] EXCEPT !.object = @ + n] \in CapEntry
        /\ [cn[i] EXCEPT !.object = @ + n].type = cn[i].type
    BY <2>4, <2>5 DEF CapEntry
  <2>7. refund_untyped(cn, n) = [cn EXCEPT ![i] = [cn[i] EXCEPT !.object = @ + n]]
    BY <2>3
  <2> QED BY <2>4, <2>6, <2>7 DEF CNode
<1> QED BY <1>1, <1>2

(* insert adds at most the capability it is given. *)
LEMMA InsertKeeps ==
  ASSUME NEW cn \in CNode, NEW index, NEW cap \in CapEntry
  PROVE  /\ insert(cn, index, cap) \in CNode
         /\ \A i \in Slot : insert(cn, index, cap)[i] \in {cn[i], cap}
  BY DEF insert, insert_ok, CNode

(* The Frame capabilities in a set of tables. *)
FrameCapsIn(cs) == {c \in UNION {Range(cs[p]) : p \in Pid} : c.type = "Frame"}

(* The Frame capabilities are those in the slots. *)
LEMMA FrameCapsIff ==
  ASSUME NEW cs \in [Pid -> CNode], NEW c
  PROVE  c \in FrameCapsIn(cs) <=>
            \E p \in Pid, i \in Slot : c = cs[p][i] /\ cs[p][i].type = "Frame"
<1>1. ASSUME NEW p \in Pid PROVE Range(cs[p]) = {cs[p][i] : i \in Slot}
  BY DEF Range, CNode
<1>2. c \in UNION {Range(cs[p]) : p \in Pid} <=> \E p \in Pid : c \in Range(cs[p])
  BY Zenon
<1>3. c \in UNION {Range(cs[p]) : p \in Pid} <=> \E p \in Pid, i \in Slot : c = cs[p][i]
  BY <1>1, <1>2
<1> QED BY <1>3 DEF FrameCapsIn

(* A Frame capability sits in a slot. *)
LEMMA FrameCapSlot ==
  ASSUME NEW cs \in [Pid -> CNode], NEW c, c \in FrameCapsIn(cs)
  PROVE  \E p \in Pid : \E i \in Slot : c = cs[p][i] /\ cs[p][i].type = "Frame"
  BY FrameCapsIff

(* A step that adds no Frame capability and frees no frame keeps them      *)
(* alive. *)
LEMMA CapsLiveKept ==
  ASSUME FrameCapsLive, FrameCapsSized, FrameCaps' \subseteq FrameCaps,
         allocated \subseteq allocated'
  PROVE  FrameCapsLive' /\ FrameCapsSized'
<1>1. \A c : FramesOf(c)' = FramesOf(c)
  BY DEF FramesOf
<1> QED BY <1>1 DEF FrameCapsLive, FrameCapsSized

(* Charging and refunding add no Frame capability. *)
LEMMA BudgetStepCaps ==
  ASSUME caps \in [Pid -> CNode], NEW p \in Pid, NEW cn \in CNode,
         caps' = [caps EXCEPT ![p] = cn],
         \A i \in Slot : /\ cn[i].type = caps[p][i].type
                         /\ caps[p][i].type # "Untyped" => cn[i] = caps[p][i]
  PROVE  caps' \in [Pid -> CNode] /\ FrameCaps' \subseteq FrameCaps
<1>1. caps' \in [Pid -> CNode]
  OBVIOUS
<1>2. ASSUME NEW c \in FrameCaps' PROVE c \in FrameCaps
  <2>cs. PICK cs \in [Pid -> CNode] : cs = caps'
    BY <1>1
  <2>1. cs \in [Pid -> CNode] /\ c \in FrameCapsIn(cs)
    BY <1>2, <2>cs DEF FrameCaps, FrameCapsIn
  <2>slot. PICK q \in Pid : \E i \in Slot : c = cs[q][i] /\ cs[q][i].type = "Frame"
    BY ONLY <2>1, FrameCapSlot
  <2>2. PICK i \in Slot : c = cs[q][i] /\ cs[q][i].type = "Frame"
    BY <2>slot
  <2>3. c = caps[q][i] /\ caps[q][i].type = "Frame"
    BY <2>cs, <2>2
  <2>4. c \in FrameCapsIn(caps)
    BY <2>3, FrameCapsIff
  <2> QED BY <2>4 DEF FrameCaps, FrameCapsIn
<1> QED BY <1>1, <1>2

(* Installing a capability adds at most that one. *)
LEMMA InsertStepCaps ==
  ASSUME caps \in [Pid -> CNode], NEW p \in Pid, NEW index, NEW cap \in CapEntry,
         caps' = [caps EXCEPT ![p] = insert(@, index, cap)]
  PROVE  /\ caps' \in [Pid -> CNode]
         /\ \A c \in FrameCaps' : c \in FrameCaps \/ (c = cap /\ cap.type = "Frame")
<1> DEFINE cn == insert(caps[p], index, cap)
<1>1. cn \in CNode /\ \A i \in Slot : cn[i] \in {caps[p][i], cap}
  BY InsertKeeps
<1>2. caps' = [caps EXCEPT ![p] = cn]
  OBVIOUS
<1> HIDE DEF cn
<1>3. caps' \in [Pid -> CNode]
  BY <1>1, <1>2
<1>4. ASSUME NEW c \in FrameCaps'
      PROVE  c \in FrameCaps \/ (c = cap /\ cap.type = "Frame")
  <2>cs. PICK cs \in [Pid -> CNode] : cs = caps'
    BY <1>3
  <2>1. cs \in [Pid -> CNode] /\ c \in FrameCapsIn(cs)
    BY <1>4, <2>cs DEF FrameCaps, FrameCapsIn
  <2>slot. PICK q \in Pid : \E i \in Slot : c = cs[q][i] /\ cs[q][i].type = "Frame"
    BY ONLY <2>1, FrameCapSlot
  <2>2. PICK i \in Slot : c = cs[q][i] /\ cs[q][i].type = "Frame"
    BY <2>slot
  <2>3. CASE c = cap
    BY <2>2, <2>3
  <2>4. CASE c # cap
    <3>1. c = caps[q][i] /\ caps[q][i].type = "Frame"
      BY <1>1, <1>2, <2>cs, <2>2, <2>4
    <3>2. c \in FrameCapsIn(caps)
      BY <3>1, FrameCapsIff
    <3> QED BY <3>2 DEF FrameCaps, FrameCapsIn
  <2> QED BY <2>3, <2>4
<1> QED BY <1>3, <1>4

(* The initial tables hold no Frame capability. *)
LEMMA SeedCaps ==
  ASSUME NEW p \in Pid
  PROVE  seed_caps(p) \in CNode /\ \A i \in Slot : seed_caps(p)[i].type # "Frame"
<1>1. ASSUME NEW i \in Slot
      PROVE  seed_caps(p)[i] \in CapEntry /\ seed_caps(p)[i].type # "Frame"
  BY CapAssumption DEF seed_caps, CapEntry, CapType, Cap, NoCap,
     EP_SLOT, REPLY_EP_SLOT, NOTIF_SLOT
<1> QED BY <1>1 DEF seed_caps, CNode
-----------------------------------------------------------------------------
(* The call in progress.                                                   *)

(* What a step of a call finds. *)
LEMMA InCall ==
  ASSUME CallTypes, NEW step, At(step)
  PROVE  /\ op # Idle /\ op \in Calls /\ op.step = step
         /\ op.p \in Pid /\ op.pages \in Nat /\ op.va \in Nat /\ op.done \in Nat
         /\ op.phys \in Frame \cup {None} /\ op.done <= op.pages
  BY DEF At, CallTypes, Calls

(* A call in progress is not the idle state. *)
LEMMA CallIsNotIdle ==
  ASSUME NEW c \in Calls
  PROVE  c # Idle
  BY DEF Calls, Idle

(* The windows lie one behind the other. *)
LEMMA WindowFacts ==
  /\ DMA_START \in Nat /\ DMA_REGION_END \in Nat /\ SHARED_START \in Nat
  /\ SHARED_REGION_END \in Nat /\ HEAP_START \in Nat /\ HEAP_MAX \in Nat
  /\ DMA_START = 0 /\ DMA_START <= DMA_REGION_END /\ DMA_REGION_END = SHARED_START
  /\ SHARED_START <= SHARED_REGION_END /\ SHARED_REGION_END = HEAP_START
  /\ HEAP_START <= HEAP_MAX
  BY MemoryAssumption DEF DMA_START, DMA_REGION_END, SHARED_START, SHARED_REGION_END,
     HEAP_START, HEAP_MAX

(* The page a call maps next lies in the address space, and its frame is   *)
(* one. *)
LEMMA MappingFacts ==
  ASSUME Inv, Mapping
  PROVE  /\ op \in Calls /\ op.step = "map" /\ op # Idle /\ op.done < op.pages
         /\ page \in Page /\ page_frame \in Frame
<1>1. At("map") /\ (op.call = "sbrk" \/ op.done < op.pages)
  BY DEF Mapping
<1>2. /\ op # Idle /\ op \in Calls /\ op.step = "map"
      /\ op.p \in Pid /\ op.pages \in Nat /\ op.va \in Nat /\ op.done \in Nat
      /\ op.phys \in Frame \cup {None} /\ op.done <= op.pages
  BY <1>1, InCall DEF Inv
<1>3. op.call \in {"dma", "frame", "map", "sbrk"}
  BY <1>2 DEF Calls
<1>4. op.done < op.pages
  BY <1>1, <1>2 DEF Inv, CallPages
<1>5. op.va + op.pages <= HEAP_MAX
  <2>1. CASE op.call = "dma"
    BY <1>2, <2>1, WindowFacts DEF Inv, CallPages
  <2>2. CASE op.call \in {"frame", "map"}
    BY <1>2, <2>2, WindowFacts DEF Inv, CallPages
  <2>3. CASE op.call = "sbrk"
    BY <1>2, <2>3 DEF Inv, CallPages
  <2> QED BY <1>3, <2>1, <2>2, <2>3
<1>6. page \in Page
  BY <1>2, <1>4, <1>5, WindowFacts DEF page, Page
<1>7. CASE op.call = "sbrk"
  <2>1. op.phys # None
    BY <1>2, <1>7 DEF Inv, CallPages
  <2> QED BY <1>2, <1>4, <1>6, <1>7, <2>1 DEF page_frame
<1>8. CASE op.call # "sbrk"
  <2>1. op.phys # None /\ Run(op.phys, op.pages) \subseteq allocated
    BY <1>2, <1>8 DEF Inv, CallHolds
  <2>2. op.phys \in Nat
    BY <1>2, <2>1, FrameIsNat
  <2>3. op.phys + op.done \in Run(op.phys, op.pages)
    BY <1>2, <1>4, <2>2 DEF Run
  <2>4. op.phys + op.done \in Frame
    BY <2>1, <2>3 DEF Inv, AllocatorTypes
  <2> QED BY <1>2, <1>4, <1>6, <1>8, <2>4 DEF page_frame
<1> QED BY <1>7, <1>8

(* The frames a call took stay its own as long as nothing is freed and no  *)
(* Frame capability is added. *)
LEMMA HoldsKept ==
  ASSUME CallHolds, op # Idle, op' # Idle, allocated \subseteq allocated',
         FrameCaps' \subseteq FrameCaps,
         op'.call = op.call, op'.pages = op.pages, op'.phys = op.phys,
         op'.step \in {"map", "finish"} => op.step \in {"map", "finish"}
  PROVE  CallHolds'
<1>1. \A c : FramesOf(c)' = FramesOf(c)
  BY DEF FramesOf
<1>2. Run(op.phys, op.pages)' = Run(op.phys, op.pages)
  BY DEF Run
<1> QED BY <1>1, <1>2 DEF CallHolds

(* When no call is in progress nothing is said of one. *)
LEMMA IdleCall ==
  ASSUME op' = Idle
  PROVE  CallTypes' /\ CallPages' /\ CallHolds'
  BY DEF CallTypes, CallPages, CallHolds

(* Parts a step leaves alone. *)
LEMMA AllocatorSame ==
  ASSUME Allocator, UNCHANGED allocator
  PROVE  Allocator' /\ allocated' = allocated
  BY DEF Allocator, allocator, AllocatorTypes, AheadUntouched, Ahead, FramesConserved

(* A step that leaves the address spaces alone. *)
LEMMA SpaceSame ==
  ASSUME SpaceTypes, UNCHANGED <<map, tables, windows>>
  PROVE  SpaceTypes'
  BY DEF SpaceTypes, windows

(* A step that leaves the tables alone and frees no frame. *)
LEMMA CapsSame ==
  ASSUME caps \in [Pid -> CNode], FrameCapsLive, FrameCapsSized, UNCHANGED caps,
         allocated \subseteq allocated'
  PROVE  /\ caps' \in [Pid -> CNode] /\ FrameCapsLive' /\ FrameCapsSized'
         /\ FrameCaps' = FrameCaps
<1>1. FrameCaps' = FrameCaps
  BY DEF FrameCaps
<1> QED BY <1>1, CapsLiveKept
-----------------------------------------------------------------------------
(* The steps.                                                              *)

(* DMA_ALLOC and FRAME_ALLOC charge the budget. *)
LEMMA ChargeStep ==
  ASSUME Inv, NEW name \in {"dma", "frame"}, NEW p \in Pid, NEW pages \in Nat \ {0},
         NEW slot \in SlotArg, NEW out_ok \in BOOLEAN, charge(name, p, pages, slot, out_ok)
  PROVE  Inv'
<1>1. Allocator' /\ allocated' = allocated
  BY AllocatorSame DEF Inv, Allocator, charge
<1>2. caps' \in [Pid -> CNode] /\ FrameCaps' \subseteq FrameCaps
  <2>1. caps[p] \in CNode /\ charge_ok(caps[p], pages)
    BY DEF Inv, charge
  <2> DEFINE cn == charge_untyped(caps[p], pages)
  <2>2. caps' = [caps EXCEPT ![p] = cn] /\ caps \in [Pid -> CNode]
    BY DEF charge, Inv
  <2>3. /\ cn \in CNode
        /\ \A i \in Slot : /\ cn[i].type = caps[p][i].type
                           /\ caps[p][i].type # "Untyped" => cn[i] = caps[p][i]
    BY <2>1, ChargeKeeps
  <2> HIDE DEF cn
  <2> QED BY <2>2, <2>3, BudgetStepCaps
<1>3. FrameCapsLive' /\ FrameCapsSized'
  BY <1>1, <1>2, CapsLiveKept DEF Inv
<1>4. SpaceTypes'
  BY SpaceSame DEF Inv, charge
<1>5. /\ op' = [call |-> name, step |-> "take", p |-> p, pages |-> pages, phys |-> None,
                va |-> 0, done |-> 0, slot |-> slot, out_ok |-> out_ok]
      /\ op' \in Calls
  BY DEF charge, Call, Calls
<1>6. CallTypes' /\ CallPages' /\ CallHolds'
  BY <1>5 DEF CallTypes, CallPages, CallHolds
<1> QED BY <1>1, <1>2, <1>3, <1>4, <1>6 DEF Inv, Allocator, charge, ghosts

(* The call takes its frames, or finds none or no room for them. *)
LEMMA TakeStep ==
  ASSUME Inv, take_frames
  PROVE  Inv'
<1>1. /\ op # Idle /\ op \in Calls /\ op.step = "take"
      /\ op.p \in Pid /\ op.pages \in Nat /\ op.va \in Nat /\ op.done \in Nat
      /\ op.phys \in Frame \cup {None}
  BY InCall DEF Inv, take_frames
<1>2. op.call \in {"dma", "frame"} /\ op.phys = None /\ op.done = 0 /\ op.pages > 0
  BY <1>1 DEF Inv, CallTypes
<1>3. Allocator
  BY DEF Inv, Allocator
<1>4. SpaceTypes'
  BY SpaceSame DEF Inv, take_frames
<1>5. CASE Fitting(op.pages) = {}
  <2>1. Allocator' /\ allocated' = allocated
    BY <1>3, <1>5, ExhaustKeeps DEF take_frames, alloc_contiguous
  <2>2. /\ caps' \in [Pid -> CNode] /\ FrameCapsLive' /\ FrameCapsSized'
        /\ FrameCaps' = FrameCaps
    BY <2>1, CapsSame DEF Inv, take_frames
  <2>3. op' = [op EXCEPT !.step = "fail"]
    BY <1>5 DEF take_frames
  <2>4. op' \in Calls /\ op'.step = "fail" /\ op'.phys = None /\ op'.call = op.call
        /\ op'.done = 0 /\ op'.pages = op.pages
    BY <1>1, <1>2, <2>3 DEF Calls
  <2>5. CallTypes' /\ CallPages' /\ CallHolds'
    BY <1>1, <1>2, <2>4 DEF CallTypes, CallPages, CallHolds
  <2> QED BY <1>4, <2>1, <2>2, <2>5 DEF Inv, Allocator, take_frames, ghosts
<1>6. CASE Fitting(op.pages) # {}
  <2> DEFINE base == bump_start(Min(Fitting(op.pages)))
  <2>1. bump(op.pages) /\ UNCHANGED free
    BY <1>6 DEF take_frames, alloc_contiguous
  <2>2. /\ Allocator' /\ base \in Frame /\ allocated' = allocated \cup Run(base, op.pages)
        /\ Run(base, op.pages) \cap allocated = {}
    BY <1>1, <1>2, <1>3, <1>6, <2>1, BumpKeeps
  <2>3. op' = [op EXCEPT !.step = IF room(op.pages) THEN "map" ELSE "fail",
                         !.phys = base, !.va = window_next]
    BY <1>6 DEF take_frames
  <2> HIDE DEF base
  <2>4. /\ caps' \in [Pid -> CNode] /\ FrameCapsLive' /\ FrameCapsSized'
        /\ FrameCaps' = FrameCaps
    BY <2>2, CapsSame DEF Inv, take_frames
  <2>5. window_next \in Nat
    BY WindowFacts DEF window_next, Inv, SpaceTypes
  <2>6. /\ op' \in Calls /\ op'.step = (IF room(op.pages) THEN "map" ELSE "fail")
        /\ op'.phys = base /\ op'.call = op.call /\ op'.pages = op.pages
        /\ op'.done = 0 /\ op'.va = window_next
    <3> HIDE DEF room, window_next
    <3> QED BY <1>1, <1>2, <2>2, <2>3, <2>5 DEF Calls
  <2>7. base # None /\ op' # Idle
    BY <2>2, <2>6, FrameIsNat, CallIsNotIdle
  <2>8. CallTypes'
    BY <1>1, <1>2, <2>6 DEF CallTypes
  <2>9. CallPages'
    <3>1. ASSUME op'.step \in {"map", "finish"} PROVE room(op.pages)
      BY <2>6, <3>1
    <3>2. CASE op.call = "dma"
      <4>1. room(op.pages) => next_dma + op.pages <= DMA_REGION_END
        BY <3>2 DEF room, window_next, window_end
      <4>2. DMA_START <= next_dma /\ window_next = next_dma
        BY <3>2, WindowFacts DEF Inv, SpaceTypes, window_next
      <4> QED BY <2>6, <3>1, <3>2, <4>1, <4>2 DEF CallPages
    <3>3. CASE op.call = "frame"
      <4>1. room(op.pages) => next_shared + op.pages <= SHARED_REGION_END
        BY <3>3 DEF room, window_next, window_end
      <4>2. SHARED_START <= next_shared /\ window_next = next_shared
        BY <3>3, WindowFacts DEF Inv, SpaceTypes, window_next
      <4> QED BY <2>6, <3>1, <3>3, <4>1, <4>2 DEF CallPages
    <3> QED BY <1>2, <3>2, <3>3
  <2>10. CallHolds'
    <3>1. \A c : FramesOf(c)' = FramesOf(c)
      BY DEF FramesOf
    <3>2. Run(op.phys, op.pages)' = Run(base, op.pages)
      BY <2>6 DEF Run
    <3>3. \A c \in FrameCaps' : Run(base, op.pages) \cap FramesOf(c)' = {}
      BY <2>2, <2>4, <3>1 DEF Inv, FrameCapsLive
    <3>4. Run(op.phys, op.pages)' \subseteq allocated'
      BY <2>2, <3>2
    <3>5. op'.phys # None
      BY <2>6, <2>7
    <3> QED BY <3>2, <3>3, <3>4, <3>5 DEF CallHolds
  <2> QED BY <1>4, <2>2, <2>4, <2>8, <2>9, <2>10 DEF Inv, Allocator, take_frames, ghosts
<1> QED BY <1>5, <1>6

(* MAP_FRAME begins: the run of the capability is in use. *)
LEMMA MapFrameStep ==
  ASSUME Inv, NEW p \in Pid, NEW slot \in SlotArg, NEW out_ok \in BOOLEAN,
         sys_map_frame(p, slot, out_ok)
  PROVE  Inv'
<1> DEFINE c == caps[p][slot]
<1>1. Allocator' /\ allocated' = allocated
  BY AllocatorSame DEF Inv, Allocator, sys_map_frame
<1>2. /\ caps' \in [Pid -> CNode] /\ FrameCapsLive' /\ FrameCapsSized'
      /\ FrameCaps' = FrameCaps
  BY <1>1, CapsSame DEF Inv, sys_map_frame
<1>3. SpaceTypes'
  BY SpaceSame DEF Inv, sys_map_frame
<1>4. slot \in Slot /\ c.type = "Frame" /\ c \in CapEntry
      /\ next_shared + c.badge <= SHARED_REGION_END
  BY DEF sys_map_frame, holds, Inv, CNode
<1>5. c \in FrameCaps
  BY <1>4, FrameCapsIff DEF Inv, FrameCaps, FrameCapsIn
<1>6. op' = [Call("map", "map", p, c.badge, slot, out_ok)
               EXCEPT !.phys = c.object, !.va = next_shared]
  BY DEF sys_map_frame
<1> HIDE DEF c
<1>7. c.object \in Nat /\ c.badge \in Nat /\ c.badge > 0
  BY <1>4, <1>5 DEF CapEntry, Inv, FrameCapsSized
<1>8. Run(c.object, c.badge) \subseteq allocated
  BY <1>5 DEF Inv, FrameCapsLive, FramesOf, Run
<1>9. c.object \in Frame
  <2>1. c.object \in Run(c.object, c.badge)
    BY <1>7 DEF Run
  <2> QED BY <1>8, <2>1 DEF Inv, AllocatorTypes
<1>10. next_shared \in Nat /\ SHARED_START <= next_shared
  BY WindowFacts DEF Inv, SpaceTypes
<1>11. op' = [call |-> "map", step |-> "map", p |-> p, pages |-> c.badge,
              phys |-> c.object, va |-> next_shared, done |-> 0, slot |-> slot,
              out_ok |-> out_ok]
  BY <1>6 DEF Call
<1>12. op' \in Calls
  BY <1>7, <1>9, <1>10, <1>11 DEF Calls
<1>13. CallTypes' /\ CallPages'
  BY <1>4, <1>7, <1>10, <1>11, <1>12 DEF CallTypes, CallPages
<1>14. CallHolds'
  <2>1. Run(op.phys, op.pages)' \subseteq allocated'
    BY <1>1, <1>8, <1>11 DEF Run
  <2>2. op'.phys # None /\ op'.call = "map"
    BY <1>9, <1>11, FrameIsNat
  <2> QED BY <2>1, <2>2 DEF CallHolds
<1> QED BY <1>1, <1>2, <1>3, <1>13, <1>14 DEF Inv, Allocator, sys_map_frame, ghosts

(* SBRK that shrinks, and SBRK that begins to grow. *)
LEMMA ShrinkStep ==
  ASSUME Inv, NEW p \in Pid, NEW pages \in Nat, sbrk_shrink(p, pages)
  PROVE  Inv'
<1>1. Allocator' /\ allocated' = allocated
  BY AllocatorSame DEF Inv, Allocator, sbrk_shrink
<1>2. /\ caps' \in [Pid -> CNode] /\ FrameCapsLive' /\ FrameCapsSized'
  BY <1>1, CapsSame DEF Inv, sbrk_shrink
<1>3. SpaceTypes'
  BY WindowFacts DEF Inv, sbrk_shrink, SpaceTypes
<1>4. op' = Idle
  BY DEF sbrk_shrink
<1> QED BY <1>1, <1>2, <1>3, <1>4, IdleCall DEF Inv, Allocator, sbrk_shrink, ghosts

(* The beginning of an SBRK that grows the heap. *)
LEMMA GrowStep ==
  ASSUME Inv, NEW p \in Pid, NEW pages \in Nat, sbrk_grow(p, pages)
  PROVE  Inv'
<1>1. Allocator' /\ allocated' = allocated
  BY AllocatorSame DEF Inv, Allocator, sbrk_grow
<1>2. /\ caps' \in [Pid -> CNode] /\ FrameCapsLive' /\ FrameCapsSized'
  BY <1>1, CapsSame DEF Inv, sbrk_grow
<1>3. SpaceTypes' /\ heap_break' = heap_break
  BY SpaceSame DEF Inv, sbrk_grow, windows
<1>4. heap_break[p] \in Nat
  BY WindowFacts DEF Inv, SpaceTypes
<1>5. op' = [call |-> "sbrk", step |-> "heap", p |-> p, pages |-> pages, phys |-> None,
             va |-> heap_break[p], done |-> 0, slot |-> MAX, out_ok |-> TRUE]
  BY DEF sbrk_grow, Call
<1>6. MAX \in SlotArg /\ TRUE \in BOOLEAN
  BY DEF SlotArg
<1>7. op' \in Calls
  <2>1. pages \in Nat /\ None \in Frame \cup {None} /\ 0 \in Nat
    OBVIOUS
  <2> QED BY <1>4, <1>5, <1>6, <2>1, Zenon DEF Calls
<1>8. /\ op'.call = "sbrk" /\ op'.step = "heap" /\ op'.p = p /\ op'.pages = pages
      /\ op'.va = heap_break[p] /\ op'.done = 0
  BY <1>5
<1>9. heap_break[p] + pages <= HEAP_MAX
  BY DEF sbrk_grow
<1>10. CallTypes' /\ CallPages' /\ CallHolds'
  BY <1>3, <1>7, <1>8, <1>9 DEF CallTypes, CallPages, CallHolds
<1> QED BY <1>1, <1>2, <1>3, <1>10 DEF Inv, Allocator, sbrk_grow, ghosts

(* SBRK takes the frame of its next page. *)
LEMMA HeapFrameStep ==
  ASSUME Inv, heap_frame
  PROVE  Inv'
<1>1. /\ op # Idle /\ op \in Calls /\ op.step = "heap"
      /\ op.p \in Pid /\ op.pages \in Nat /\ op.va \in Nat /\ op.done \in Nat
      /\ op.done < op.pages
  BY InCall DEF Inv, heap_frame
<1>2. op.call = "sbrk"
  BY <1>1 DEF Inv, CallTypes
<1>3. /\ Allocator' /\ allocated \subseteq allocated'
      /\ alloc_ok => alloc_frame \in Frame
  BY AllocKeeps DEF Inv, Allocator, heap_frame
<1>4. /\ caps' \in [Pid -> CNode] /\ FrameCapsLive' /\ FrameCapsSized'
  BY <1>3, CapsSame DEF Inv, heap_frame
<1>5. SpaceTypes' /\ heap_break' = heap_break
  BY SpaceSame DEF Inv, heap_frame, windows
<1>6. CallTypes' /\ CallPages' /\ CallHolds'
  <2>1. CASE ~alloc_ok
    BY <2>1, IdleCall DEF heap_frame
  <2>2. CASE alloc_ok
    <3>1. op' = [op EXCEPT !.step = "map", !.phys = alloc_frame] /\ alloc_frame \in Frame
      BY <1>3, <2>2 DEF heap_frame
    <3> HIDE DEF alloc_frame
    <3>2. /\ op' \in Calls /\ op'.step = "map" /\ op'.phys = alloc_frame
          /\ op'.call = "sbrk" /\ op'.p = op.p /\ op'.pages = op.pages
          /\ op'.va = op.va /\ op'.done = op.done
      BY <1>1, <1>2, <3>1 DEF Calls
    <3>3. op'.phys # None
      BY <3>1, <3>2, FrameIsNat
    <3>4. CallTypes'
      BY <1>1, <3>2 DEF CallTypes
    <3>5. CallPages'
      BY <1>1, <1>2, <1>5, <3>2, <3>3 DEF CallPages, Inv
    <3>6. CallHolds'
      BY <3>2 DEF CallHolds
    <3> QED BY <3>4, <3>5, <3>6
  <2> QED BY <2>1, <2>2
<1> QED BY <1>3, <1>4, <1>5, <1>6 DEF Inv, Allocator, heap_frame, ghosts

(* SBRK is done. *)
LEMMA HeapDoneStep ==
  ASSUME Inv, heap_done
  PROVE  Inv'
<1>1. /\ op # Idle /\ op \in Calls /\ op.step = "heap"
      /\ op.p \in Pid /\ op.pages \in Nat
  BY InCall DEF Inv, heap_done
<1>2. op.call = "sbrk"
  BY <1>1 DEF Inv, CallTypes
<1>3. Allocator' /\ allocated' = allocated
  BY AllocatorSame DEF Inv, Allocator, heap_done
<1>4. /\ caps' \in [Pid -> CNode] /\ FrameCapsLive' /\ FrameCapsSized'
  BY <1>3, CapsSame DEF Inv, heap_done
<1>5. heap_break[op.p] + op.pages \in HEAP_START .. HEAP_MAX
  BY <1>1, <1>2, WindowFacts DEF Inv, CallPages, SpaceTypes
<1>6. SpaceTypes'
  BY <1>1, <1>5 DEF Inv, heap_done, SpaceTypes
<1>7. op' = Idle
  BY DEF heap_done
<1> QED BY <1>3, <1>4, <1>6, <1>7, IdleCall DEF Inv, Allocator, heap_done, ghosts

(* A page table is added, or no frame is left for it. *)
LEMMA MapTableStep ==
  ASSUME Inv, map_table
  PROVE  Inv'
<1>1. /\ op \in Calls /\ op.step = "map" /\ op # Idle /\ op.done < op.pages
      /\ page \in Page /\ op.p \in Pid
  BY MappingFacts DEF map_table, Calls
<1>2. Allocator' /\ allocated \subseteq allocated'
  BY AllocKeeps DEF Inv, Allocator, map_table
<1>3. /\ caps' \in [Pid -> CNode] /\ FrameCapsLive' /\ FrameCapsSized'
      /\ FrameCaps' = FrameCaps
  BY <1>2, CapsSame DEF Inv, map_table
<1>4. SpaceTypes' /\ heap_break' = heap_break
  <2>1. page \div PT_SPAN \in Table
    BY <1>1 DEF Table
  <2>2. tables' \in [Pid -> SUBSET Table]
    <3>1. CASE alloc_ok
      BY <1>1, <2>1, <3>1 DEF Inv, SpaceTypes, map_table
    <3>2. CASE ~alloc_ok
      BY <3>2 DEF Inv, SpaceTypes, map_table
    <3> QED BY <3>1, <3>2
  <2> QED BY <2>2 DEF Inv, SpaceTypes, map_table, windows
<1>5. CASE alloc_ok
  <2>1. op' = op
    BY <1>5 DEF map_table
  <2>2. CallTypes' /\ CallPages'
    BY <1>4, <2>1 DEF Inv, CallTypes, CallPages
  <2>3. CallHolds'
    BY <1>1, <1>2, <1>3, <2>1, HoldsKept DEF Inv
  <2> QED BY <1>2, <1>3, <1>4, <2>2, <2>3 DEF Inv, Allocator, map_table, ghosts
<1>6. CASE ~alloc_ok
  <2>1. op' = [op EXCEPT !.step = "fail"]
    BY <1>6 DEF map_table
  <2>2. /\ op' \in Calls /\ op'.step = "fail" /\ op'.call = op.call /\ op'.p = op.p
        /\ op'.pages = op.pages /\ op'.phys = op.phys /\ op'.va = op.va
        /\ op'.done = op.done
    BY <1>1, <2>1 DEF Calls
  <2>3. CallTypes' /\ CallPages'
    BY <1>1, <1>4, <2>2 DEF Inv, CallTypes, CallPages
  <2>4. CallHolds'
    BY <1>1, <1>2, <1>3, <2>2, CallIsNotIdle, HoldsKept DEF Inv
  <2> QED BY <1>2, <1>3, <1>4, <2>3, <2>4 DEF Inv, Allocator, map_table, ghosts
<1> QED BY <1>5, <1>6

(* A page is mapped, or it was mapped already. *)
LEMMA MapPageStep ==
  ASSUME Inv, map_page
  PROVE  Inv'
<1>1. /\ op \in Calls /\ op.step = "map" /\ op # Idle /\ op.done < op.pages
      /\ page \in Page /\ page_frame \in Frame
      /\ op.p \in Pid /\ op.done \in Nat /\ op.pages \in Nat
  BY MappingFacts DEF map_page, Calls
<1>2. Allocator' /\ allocated' = allocated
  BY AllocatorSame DEF Inv, Allocator, map_page
<1>3. /\ caps' \in [Pid -> CNode] /\ FrameCapsLive' /\ FrameCapsSized'
      /\ FrameCaps' = FrameCaps
  BY <1>2, CapsSame DEF Inv, map_page
<1>4. SpaceTypes' /\ heap_break' = heap_break
  <2>1. map' \in [Pid -> [Page -> Frame \cup {None}]]
    <3> HIDE DEF page, page_frame
    <3>1. CASE map[op.p][page] = None
      <4>1. map \in [Pid -> [Page -> Frame \cup {None}]]
        BY DEF Inv, SpaceTypes
      <4> DEFINE row == [map[op.p] EXCEPT ![page] = page_frame]
      <4>2. row \in [Page -> Frame \cup {None}]
        BY <1>1, <4>1
      <4>3. map' = [map EXCEPT ![op.p] = row]
        BY <3>1 DEF map_page
      <4> HIDE DEF row
      <4> QED BY <1>1, <4>1, <4>2, <4>3
    <3>2. CASE map[op.p][page] # None
      BY <3>2 DEF Inv, SpaceTypes, map_page
    <3> QED BY <3>1, <3>2
  <2> QED BY <2>1 DEF Inv, SpaceTypes, map_page, windows
<1>5. CASE map[op.p][page] = None
  <2>1. op' = [op EXCEPT !.done = @ + 1,
                         !.step = IF op.call = "sbrk" THEN "heap" ELSE "map"]
    BY <1>5 DEF map_page
  <2>2. /\ op' \in Calls /\ op'.step = (IF op.call = "sbrk" THEN "heap" ELSE "map")
        /\ op'.call = op.call /\ op'.p = op.p
        /\ op'.pages = op.pages /\ op'.phys = op.phys /\ op'.va = op.va
        /\ op'.done = op.done + 1
    <3> DEFINE step == IF op.call = "sbrk" THEN "heap" ELSE "map"
               done == op.done + 1
    <3>1. step \in {"take", "map", "heap", "finish", "fail"} /\ done \in Nat
      BY <1>1
    <3>2. op' = [op EXCEPT !.done = done, !.step = step]
      BY <2>1
    <3> HIDE DEF step, done
    <3>3. /\ op' \in Calls /\ op'.step = step /\ op'.call = op.call /\ op'.p = op.p
          /\ op'.pages = op.pages /\ op'.phys = op.phys /\ op'.va = op.va /\ op'.done = done
      BY <1>1, <3>1, <3>2 DEF Calls
    <3> QED BY <3>3 DEF step, done
  <2>3. CallTypes' /\ CallPages'
    BY <1>1, <1>4, <2>2 DEF Inv, CallTypes, CallPages
  <2>4. CallHolds'
    BY <1>1, <1>2, <1>3, <2>2, CallIsNotIdle, HoldsKept DEF Inv
  <2> QED BY <1>2, <1>3, <1>4, <2>3, <2>4 DEF Inv, Allocator, map_page, ghosts
<1>6. CASE map[op.p][page] # None
  <2>1. op' = [op EXCEPT !.step = "fail"]
    BY <1>6 DEF map_page
  <2>2. /\ op' \in Calls /\ op'.step = "fail" /\ op'.call = op.call /\ op'.p = op.p
        /\ op'.pages = op.pages /\ op'.phys = op.phys /\ op'.va = op.va
        /\ op'.done = op.done
    BY <1>1, <2>1 DEF Calls
  <2>3. CallTypes' /\ CallPages'
    BY <1>1, <1>4, <2>2 DEF Inv, CallTypes, CallPages
  <2>4. CallHolds'
    BY <1>1, <1>2, <1>3, <2>2, CallIsNotIdle, HoldsKept DEF Inv
  <2> QED BY <1>2, <1>3, <1>4, <2>3, <2>4 DEF Inv, Allocator, map_page, ghosts
<1> QED BY <1>5, <1>6

(* The window moves past the pages mapped. *)
LEMMA MappedStep ==
  ASSUME Inv, mapped
  PROVE  Inv'
<1>1. /\ op # Idle /\ op \in Calls /\ op.step = "map" /\ op.call # "sbrk"
      /\ op.pages \in Nat /\ op.va \in Nat /\ op.done \in Nat /\ op.done <= op.pages
  BY InCall DEF Inv, mapped
<1>2. Allocator' /\ allocated' = allocated
  BY AllocatorSame DEF Inv, Allocator, mapped
<1>3. /\ caps' \in [Pid -> CNode] /\ FrameCapsLive' /\ FrameCapsSized'
      /\ FrameCaps' = FrameCaps
  BY <1>2, CapsSame DEF Inv, mapped
<1>4. SpaceTypes' /\ heap_break' = heap_break
  <2>1. CASE op.call = "dma"
    <3>1. next_dma' = op.va + op.pages /\ next_shared' = next_shared
      BY <2>1 DEF mapped
    <3>2. next_dma' \in DMA_START .. DMA_REGION_END
      BY <1>1, <2>1, <3>1, WindowFacts DEF Inv, CallPages
    <3> QED BY <3>1, <3>2 DEF Inv, SpaceTypes, mapped
  <2>2. CASE op.call # "dma"
    <3>1. next_shared' = op.va + op.pages /\ next_dma' = next_dma
      BY <2>2 DEF mapped
    <3>2. op.call \in {"frame", "map"}
      BY <1>1, <2>2 DEF Calls
    <3>3. next_shared' \in SHARED_START .. SHARED_REGION_END
      BY <1>1, <3>1, <3>2, WindowFacts DEF Inv, CallPages
    <3> QED BY <3>1, <3>3 DEF Inv, SpaceTypes, mapped
  <2> QED BY <2>1, <2>2
<1>5. op' = [op EXCEPT !.step = IF op.out_ok THEN "finish" ELSE "fail"]
  BY DEF mapped
<1>6. /\ op' \in Calls /\ op'.step \in {"finish", "fail"} /\ op'.call = op.call
      /\ op'.pages = op.pages /\ op'.phys = op.phys /\ op'.va = op.va
      /\ op'.done = op.done
  BY <1>1, <1>5 DEF Calls
<1>7. CallTypes' /\ CallPages'
  BY <1>1, <1>4, <1>6 DEF Inv, CallTypes, CallPages
<1>8. CallHolds'
  BY <1>1, <1>2, <1>3, <1>6, CallIsNotIdle, HoldsKept DEF Inv
<1> QED BY <1>2, <1>3, <1>4, <1>7, <1>8 DEF Inv, Allocator, mapped, ghosts

(* FRAME_ALLOC installs its capability: the run is in use and nobody has a *)
(* capability for any of it. *)
LEMMA FinishStep ==
  ASSUME Inv, finish
  PROVE  Inv'
<1>1. /\ op # Idle /\ op \in Calls /\ op.step = "finish" /\ op.p \in Pid
      /\ op.pages \in Nat /\ op.done <= op.pages /\ op.phys \in Frame \cup {None}
  BY InCall DEF Inv, finish
<1>2. op.call # "sbrk"
  BY <1>1 DEF Inv, CallTypes
<1>3. op.phys # None /\ op.phys \in Frame /\ op.phys \in Nat
      /\ Run(op.phys, op.pages) \subseteq allocated
  BY <1>1, <1>2, FrameIsNat DEF Inv, CallHolds
<1>4. Allocator' /\ allocated' = allocated
  BY AllocatorSame DEF Inv, Allocator, finish
<1>5. SpaceTypes' /\ heap_break' = heap_break
  BY SpaceSame DEF Inv, finish, windows
<1>6. minted' = minted
  BY DEF finish
<1>7. CASE op.call = "frame" /\ ~insert_ok(caps[op.p], op.slot)
  <2>1. op' = [op EXCEPT !.step = "fail"] /\ UNCHANGED <<caps, granted>>
    BY <1>7 DEF finish
  <2>2. /\ caps' \in [Pid -> CNode] /\ FrameCapsLive' /\ FrameCapsSized'
        /\ FrameCaps' = FrameCaps
    BY <1>4, <2>1, CapsSame DEF Inv
  <2>3. /\ op' \in Calls /\ op'.step = "fail" /\ op'.call = op.call
        /\ op'.pages = op.pages /\ op'.phys = op.phys /\ op'.done = op.done
    BY <1>1, <2>1 DEF Calls
  <2>4. CallTypes' /\ CallPages'
    BY <1>1, <1>2, <2>3 DEF Inv, CallTypes, CallPages
  <2>5. CallHolds'
    BY <1>1, <1>4, <2>2, <2>3, CallIsNotIdle, HoldsKept DEF Inv
  <2> QED BY <1>4, <1>5, <1>6, <2>1, <2>2, <2>4, <2>5 DEF Inv, Allocator
<1>8. CASE ~(op.call = "frame" /\ ~insert_ok(caps[op.p], op.slot))
  <2>1. /\ op' = Idle
        /\ caps' = IF op.call = "frame"
                     THEN [caps EXCEPT ![op.p] = insert(@, op.slot, frame_cap)] ELSE caps
        /\ granted' = IF op.call = "map" THEN granted ELSE granted + op.pages
    BY <1>8 DEF finish
  <2>2. granted' \in Nat /\ minted' \in Nat
    BY <1>1, <1>6, <2>1 DEF Inv
  <2>3. caps' \in [Pid -> CNode] /\ FrameCapsLive' /\ FrameCapsSized'
    <3>1. CASE op.call # "frame"
      BY <1>4, <2>1, <3>1, CapsSame DEF Inv
    <3>2. CASE op.call = "frame"
      <4>1. frame_cap \in CapEntry /\ frame_cap.object = op.phys
            /\ frame_cap.badge = op.pages
        BY <1>1, <1>3 DEF frame_cap, CapEntry, CapType
      <4> HIDE DEF frame_cap
      <4>2. caps' = [caps EXCEPT ![op.p] = insert(@, op.slot, frame_cap)]
        BY <2>1, <3>2
      <4>3. /\ caps' \in [Pid -> CNode]
            /\ \A c \in FrameCaps' : c \in FrameCaps \/ c = frame_cap
        <5>1. caps \in [Pid -> CNode] /\ op.p \in Pid
          BY <1>1 DEF Inv
        <5>2. PICK q \in Pid : q = op.p
          BY <5>1
        <5>3. PICK cap \in CapEntry : cap = frame_cap
          BY <4>1
        <5>4. caps' = [caps EXCEPT ![q] = insert(@, op.slot, cap)]
          BY <4>2, <5>2, <5>3
        <5>5. /\ caps' \in [Pid -> CNode]
              /\ \A c \in FrameCaps' : c \in FrameCaps \/ (c = cap /\ cap.type = "Frame")
          BY ONLY <5>1, <5>4, InsertStepCaps, Zenon
        <5> QED BY <5>3, <5>5
      <4>4. FramesOf(frame_cap) = Run(op.phys, op.pages)
        BY <4>1 DEF FramesOf, Run
      <4>5. \A c \in FrameCaps : FramesOf(c) \cap FramesOf(frame_cap) = {}
        BY <1>1, <1>3, <3>2, <4>4 DEF Inv, CallHolds
      <4>6. FramesOf(frame_cap) \subseteq allocated /\ frame_cap.badge > 0
        BY <1>1, <1>3, <3>2, <4>1, <4>4 DEF Inv, CallTypes
      <4>7. \A c : FramesOf(c)' = FramesOf(c)
        BY DEF FramesOf
      <4>8. FrameCapsLive'
        <5>1. \A c \in FrameCaps' : FramesOf(c)' \subseteq allocated'
          BY <1>4, <4>3, <4>6, <4>7 DEF Inv, FrameCapsLive
        <5>2. ASSUME NEW c \in FrameCaps', NEW d \in FrameCaps'
              PROVE  c = d \/ FramesOf(c) \cap FramesOf(d) = {}
          BY <4>3, <4>5 DEF Inv, FrameCapsLive
        <5> QED BY <4>7, <5>1, <5>2 DEF FrameCapsLive
      <4>9. FrameCapsSized'
        BY <4>3, <4>6 DEF Inv, FrameCapsSized
      <4> QED BY <4>3, <4>8, <4>9
    <3> QED BY <3>1, <3>2
  <2> QED BY <1>4, <1>5, <2>1, <2>2, <2>3, IdleCall DEF Inv, Allocator
<1> QED BY <1>7, <1>8

(* A call fails.  The frames it frees are named by no capability. *)
LEMMA FailStep ==
  ASSUME Inv, fail
  PROVE  Inv'
<1>1. /\ op # Idle /\ op \in Calls /\ op.step = "fail" /\ op.p \in Pid
      /\ op.pages \in Nat /\ op.phys \in Frame \cup {None}
  BY InCall DEF Inv, fail
<1>2. SpaceTypes'
  BY SpaceSame DEF Inv, fail
<1>3. op' = Idle /\ granted' = granted /\ minted' = minted
  BY DEF fail, ghosts
<1>4. caps' \in [Pid -> CNode] /\ FrameCaps' \subseteq FrameCaps
  <2>1. CASE op.call \in {"dma", "frame"}
    <3> DEFINE cn == refund_untyped(caps[op.p], op.pages)
    <3>1. caps' = [caps EXCEPT ![op.p] = cn] /\ caps \in [Pid -> CNode]
      BY <2>1 DEF fail, Inv
    <3>2. caps[op.p] \in CNode
      BY <1>1, <3>1
    <3>3. /\ cn \in CNode
          /\ \A i \in Slot : /\ cn[i].type = caps[op.p][i].type
                             /\ caps[op.p][i].type # "Untyped" => cn[i] = caps[op.p][i]
      BY <1>1, <3>2, RefundKeeps
    <3> HIDE DEF cn
    <3> QED BY <1>1, <3>1, <3>3, BudgetStepCaps
  <2>2. CASE op.call \notin {"dma", "frame"}
    <3>1. caps' = caps
      BY <2>2 DEF fail
    <3> QED BY <3>1 DEF Inv, FrameCaps
  <2> QED BY <2>1, <2>2
<1>5. CASE op.call = "frame" /\ op.phys # None
  <2>1. op.phys \in Nat /\ Run(op.phys, op.pages) \subseteq allocated
    BY <1>1, <1>5, FrameIsNat DEF Inv, CallHolds
  <2>2. Allocator' /\ allocated' = allocated \ Run(op.phys, op.pages)
    BY <1>1, <1>5, <2>1, FreeKeeps DEF Inv, Allocator, fail
  <2>3. \A c \in FrameCaps : Run(op.phys, op.pages) \cap FramesOf(c) = {}
    BY <1>1, <1>5 DEF Inv, CallHolds
  <2>4. \A c : FramesOf(c)' = FramesOf(c)
    BY DEF FramesOf
  <2>5. FrameCapsLive'
    <3>1. \A c \in FrameCaps' : FramesOf(c) \subseteq allocated'
      BY <1>4, <2>2, <2>3 DEF Inv, FrameCapsLive
    <3>2. \A c, d \in FrameCaps' : c = d \/ FramesOf(c) \cap FramesOf(d) = {}
      BY <1>4 DEF Inv, FrameCapsLive
    <3> QED BY <2>4, <3>1, <3>2 DEF FrameCapsLive
  <2>6. FrameCapsSized'
    BY <1>4 DEF Inv, FrameCapsSized
  <2> QED BY <1>2, <1>3, <1>4, <2>2, <2>5, <2>6, IdleCall DEF Inv, Allocator
<1>6. CASE ~(op.call = "frame" /\ op.phys # None)
  <2>1. Allocator' /\ allocated' = allocated
    BY <1>6, AllocatorSame DEF Inv, Allocator, fail
  <2>2. FrameCapsLive' /\ FrameCapsSized'
    BY <1>4, <2>1, CapsLiveKept DEF Inv
  <2> QED BY <1>2, <1>3, <1>4, <2>1, <2>2, IdleCall DEF Inv, Allocator
<1> QED BY <1>5, <1>6

(* Delegation copies a capability. *)
LEMMA DelegateStep ==
  ASSUME Inv, NEW p \in Pid, NEW q \in Pid, NEW src, NEW dst, delegate(p, q, src, dst)
  PROVE  Inv'
<1>1. Allocator' /\ allocated' = allocated
  BY AllocatorSame DEF Inv, Allocator, delegate
<1>2. SpaceTypes'
  BY SpaceSame DEF Inv, delegate
<1>3. op' = Idle /\ granted' = granted
  BY DEF delegate
<1> DEFINE cap == caps[p][src]
<1>4. src \in Slot /\ cap \in CapEntry
  BY DEF delegate, get_ok, Inv, CNode
<1>5. caps' = [caps EXCEPT ![q] = insert(@, dst, cap)]
  BY DEF delegate
<1>6. cap.type = "Frame" => cap \in FrameCaps
  BY <1>4, FrameCapsIff DEF Inv, FrameCaps, FrameCapsIn
<1>7. minted' \in Nat
  BY <1>4 DEF delegate, Inv, CapEntry
<1> HIDE DEF cap
<1>8. caps' \in [Pid -> CNode] /\ FrameCaps' \subseteq FrameCaps
  <2>1. caps \in [Pid -> CNode]
    BY DEF Inv
  <2> QED BY <1>4, <1>5, <1>6, <2>1, InsertStepCaps
<1>9. FrameCapsLive' /\ FrameCapsSized'
  BY <1>1, <1>8, CapsLiveKept DEF Inv
<1> QED BY <1>1, <1>2, <1>3, <1>7, <1>8, <1>9, IdleCall DEF Inv, Allocator
-----------------------------------------------------------------------------
(* Theorems.                                                               *)

(* The initial state. *)
LEMMA InitInv == Init => Inv
<1> SUFFICES ASSUME Init PROVE Inv
  OBVIOUS
<1>1. cursor \in Nat /\ region_idx = 1 /\ region_idx \in 1 .. Len(Regions) + 1
  <2>1. CASE Regions = <<>>
    BY <2>1 DEF Init
  <2>2. CASE Regions # <<>>
    <3>1. 1 \in 1 .. Len(Regions)
      BY <2>2, RegionsAssumption, RegionFacts, EmptySeq
    <3> QED BY <2>2, <3>1, RegionFacts DEF Init
  <2> QED BY <2>1, <2>2
<1>2. AllocatorTypes
  BY <1>1, FS_EmptySet DEF Init, AllocatorTypes
<1>3. AheadUntouched
  <2>1. region_idx \in DOMAIN Regions => Regions[region_idx].start <= cursor
    BY <1>1, RegionFacts DEF Init
  <2>2. Range(free) = {}
    BY DEF Init, Range
  <2> QED BY <2>1, <2>2 DEF Init, AheadUntouched
<1>4. FramesConserved
  BY FS_EmptySet DEF Init, FramesConserved, IsInjective, Range
<1>5. caps \in [Pid -> CNode]
  BY SeedCaps DEF Init
<1>6. FrameCaps = {}
  <2> SUFFICES ASSUME NEW c \in FrameCaps PROVE FALSE
    OBVIOUS
  <2>1. c \in FrameCapsIn(caps)
    BY DEF FrameCaps, FrameCapsIn
  <2>2. PICK q \in Pid : \E i \in Slot : c = caps[q][i] /\ caps[q][i].type = "Frame"
    BY ONLY <1>5, <2>1, FrameCapSlot
  <2>3. caps[q] = seed_caps(q)
    BY DEF Init
  <2> QED BY <2>2, <2>3, SeedCaps
<1>7. FrameCapsLive /\ FrameCapsSized
  BY <1>6 DEF FrameCapsLive, FrameCapsSized
<1>8. SpaceTypes
  BY WindowFacts DEF Init, SpaceTypes
<1>9. CallTypes /\ CallPages /\ CallHolds
  BY DEF Init, CallTypes, CallPages, CallHolds
<1>10. granted \in Nat /\ minted \in Nat
  BY CapAssumption DEF Init
<1> QED BY <1>2, <1>3, <1>4, <1>5, <1>7, <1>8, <1>9, <1>10 DEF Inv

(* Every step keeps the inductive invariant. *)
LEMMA NextInv == Inv /\ [Next]_vars => Inv'
<1> SUFFICES ASSUME Inv, [Next]_vars PROVE Inv'
  OBVIOUS
<1>1. /\ \A n \in 1 .. MAX_PAGES : n \in Nat \ {0}
      /\ \A out \in OutOk : out \in BOOLEAN
      /\ SrcArgs \subseteq SlotArg /\ DstArgs \subseteq SlotArg /\ MAX \in SlotArg
  BY MemoryAssumption DEF SlotArg
<1>2. ASSUME NEW p \in Pid, NEW n \in 1 .. MAX_PAGES, NEW out \in OutOk,
             sys_dma_alloc(p, n, out)
      PROVE  Inv'
  BY <1>1, <1>2, ChargeStep DEF sys_dma_alloc
<1>3. ASSUME NEW p \in Pid, NEW n \in 1 .. MAX_PAGES, NEW slot \in DstArgs,
             NEW out \in OutOk, sys_frame_alloc(p, n, slot, out)
      PROVE  Inv'
  BY <1>1, <1>3, ChargeStep DEF sys_frame_alloc
<1>4. ASSUME NEW p \in Pid, NEW slot \in SrcArgs, NEW out \in OutOk,
             sys_map_frame(p, slot, out)
      PROVE  Inv'
  BY <1>1, <1>4, MapFrameStep
<1>5. ASSUME NEW p \in Pid, NEW n \in 1 .. MAX_PAGES, sbrk_grow(p, n) \/ sbrk_shrink(p, n)
      PROVE  Inv'
  BY <1>1, <1>5, GrowStep, ShrinkStep
<1>6. CASE take_frames \/ heap_frame \/ heap_done \/ map_table \/ map_page \/ mapped
           \/ finish \/ fail
  BY <1>6, TakeStep, HeapFrameStep, HeapDoneStep, MapTableStep, MapPageStep, MappedStep,
     FinishStep, FailStep
<1>7. ASSUME NEW p \in Pid, NEW q \in Pid, NEW src \in SrcArgs, NEW dst \in DstArgs,
             delegate(p, q, src, dst)
      PROVE  Inv'
  BY <1>7, DelegateStep
<1>8. CASE UNCHANGED vars
  <2>1. Allocator' /\ allocated' = allocated
    BY <1>8, AllocatorSame DEF Inv, Allocator, vars, allocator
  <2>2. /\ caps' \in [Pid -> CNode] /\ FrameCapsLive' /\ FrameCapsSized'
        /\ FrameCaps' = FrameCaps
    BY <1>8, <2>1, CapsSame DEF Inv, vars
  <2>3. SpaceTypes'
    BY <1>8, SpaceSame DEF Inv, vars, windows
  <2>4. CallTypes' /\ CallPages'
    BY <1>8 DEF Inv, vars, CallTypes, CallPages
  <2>5. CallHolds'
    BY <1>8, <2>1, <2>2, HoldsKept DEF Inv, vars, CallHolds
  <2> QED BY <1>8, <2>1, <2>2, <2>3, <2>4, <2>5 DEF Inv, Allocator, vars
<1> QED BY <1>2, <1>3, <1>4, <1>5, <1>6, <1>7, <1>8 DEF Next

(* The inductive invariant of the allocator, the tables and the calls. *)
THEOREM MemoryInvariant == Spec => []Inv
  BY InitInv, NextInv, PTL DEF Spec

(* The allocator, the capability tables, the address spaces and the        *)
(* windows have their types: no step maps a page outside the window of its *)
(* call, or maps a frame that does not exist (sys_dma_alloc,               *)
(* sys_frame_alloc, sys_map_frame, Process::sbrk). *)
THEOREM MemoryTypes == Spec => []TypeOK
<1>1. Inv => TypeOK
  BY DEF Inv, AllocatorTypes, SpaceTypes, TypeOK
<1> QED BY <1>1, MemoryInvariant, PTL

(* No frame is handed out twice, and the count of frames in use is exact, *)
(* after any mix of successful and failed calls (PhysFrameAllocator). *)
THEOREM NoFrameTwice == Spec => []FramesConserved
<1>1. Inv => FramesConserved
  BY DEF Inv
<1> QED BY <1>1, MemoryInvariant, PTL

(* The frames a Frame capability names stay in use, and two capabilities *)
(* name the same run or disjoint runs (sys_frame_alloc, which frees its *)
(* frames on a failure and installs the capability last). *)
THEOREM SharedMemoryLives == Spec => []FrameCapsLive
<1>1. Inv => FrameCapsLive
  BY DEF Inv
<1> QED BY <1>1, MemoryInvariant, PTL

-----------------------------------------------------------------------------
(* What has been handed out.                                               *)

(* No heap page of the address spaces m is backed by a frame of F.         *)
OffHeap(m, F) == \A q \in Pid, w \in HeapPage : m[q][w] \notin F

HandedTypes ==
    \A h \in handed : /\ h \in [p : Pid, va : Nat, pages : Nat, phys : Nat]
                      /\ h.va + h.pages <= HEAP_MAX

CapsOffHeap == \A c \in FrameCaps : OffHeap(map, FramesOf(c))

(* The frames of the call in progress are behind no heap page yet, and     *)
(* those it may free or give to the heap are in no range handed out.       *)
CallFrames ==
    /\ op # Idle /\ op.call = "sbrk" /\ op.step = "map" =>
          /\ op.phys \in allocated
          /\ OffHeap(map, {op.phys})
          /\ \A c \in FrameCaps : op.phys \notin FramesOf(c)
          /\ \A h \in handed : op.phys \notin Run(h.phys, h.pages)
    /\ op # Idle /\ op.call # "sbrk" /\ op.phys # None =>
          OffHeap(map, Run(op.phys, op.pages))
    /\ op # Idle /\ op.call = "frame" /\ op.phys # None =>
          \A h \in handed : Run(op.phys, op.pages) \cap Run(h.phys, h.pages) = {}

(* The pages it has mapped so far.                                         *)
CallDone ==
    /\ op # Idle /\ op.call # "sbrk" /\ op.step \in {"map", "finish"} =>
          \A i \in 0 .. op.done - 1 : map[op.p][op.va + i] = op.phys + i
    /\ op # Idle /\ op.step = "finish" => op.done = op.pages
    /\ op # Idle /\ op.call = "sbrk" =>
          \A v \in op.va .. op.va + op.done - 1 : map[op.p][v] # None

Ranges == HandedTypes /\ RangesBacked /\ HeapOwned /\ CapsOffHeap
HeldInv == Inv /\ Ranges /\ HeapMapped /\ CallFrames /\ CallDone

(* A step that maps nothing, hands out nothing and frees nothing. *)
LEMMA QuietRanges ==
  ASSUME Ranges, UNCHANGED <<map, handed>>, FrameCaps' \subseteq FrameCaps,
         allocated \subseteq allocated'
  PROVE  Ranges'
<1>1. HandedTypes' /\ RangesBacked'
  BY DEF Ranges, HandedTypes, RangesBacked
<1>2. HeapOwned'
  BY DEF Ranges, HeapOwned
<1>3. CapsOffHeap'
  BY DEF Ranges, CapsOffHeap, OffHeap, FramesOf
<1> QED BY <1>1, <1>2, <1>3 DEF Ranges

(* A step that keeps the spaces and the breaks keeps the heaps mapped. *)
LEMMA QuietHeaps ==
  ASSUME HeapMapped, UNCHANGED <<map, heap_break>>
  PROVE  HeapMapped'
  BY DEF HeapMapped

(* Nothing is asked of the idle state. *)
LEMMA IdleHeld ==
  ASSUME op' = Idle
  PROVE  CallFrames' /\ CallDone'
  BY DEF CallFrames, CallDone

(* A call that goes on with the same frames and pages. *)
LEMMA CallHeld ==
  ASSUME CallFrames, CallDone, op # Idle, UNCHANGED <<map, handed>>,
         FrameCaps' \subseteq FrameCaps, allocated \subseteq allocated',
         op'.call = op.call, op'.p = op.p, op'.pages = op.pages, op'.phys = op.phys,
         op'.va = op.va, op'.done = op.done,
         op'.step = "map" => op.step = "map",
         op'.step = "finish" => op.step \in {"map", "finish"} /\ op.done = op.pages
  PROVE  CallFrames' /\ CallDone'
<1>1. \A c : FramesOf(c)' = FramesOf(c)
  BY DEF FramesOf
<1>2. CallFrames'
  BY <1>1 DEF CallFrames, OffHeap, Run
<1>3. CallDone'
  BY DEF CallDone
<1> QED BY <1>2, <1>3

(* Frames nobody had are behind no heap page and in no range. *)
LEMMA FreshFrames ==
  ASSUME HeldInv, NEW F, F \cap allocated = {}, F \subseteq Frame
  PROVE  /\ OffHeap(map, F)
         /\ \A c \in FrameCaps : F \cap FramesOf(c) = {}
         /\ \A h \in handed : F \cap Run(h.phys, h.pages) = {}
<1>1. OffHeap(map, F)
  <2> SUFFICES ASSUME NEW q \in Pid, NEW w \in HeapPage, map[q][w] \in F PROVE FALSE
    BY DEF OffHeap
  <2>1. map[q][w] # None
    BY FrameIsNat
  <2> QED BY <2>1 DEF HeldInv, Ranges, HeapOwned
<1>2. \A c \in FrameCaps : F \cap FramesOf(c) = {}
  BY DEF HeldInv, Inv, FrameCapsLive
<1>3. ASSUME NEW h \in handed PROVE F \cap Run(h.phys, h.pages) = {}
  <2>1. h.phys \in Nat /\ h.pages \in Nat
    BY DEF HeldInv, Ranges, HandedTypes
  <2>2. ASSUME NEW f \in Run(h.phys, h.pages) PROVE f \in allocated
    <3>1. f - h.phys \in 0 .. h.pages - 1 /\ f = h.phys + (f - h.phys)
      BY <2>1 DEF Run
    <3>2. PICK i \in 0 .. h.pages - 1 : f = h.phys + i
      BY <3>1
    <3>3. h.phys + i \in allocated
      BY DEF HeldInv, Ranges, RangesBacked
    <3> QED BY <3>2, <3>3
  <2> QED BY <2>2
<1> QED BY <1>1, <1>2, <1>3

(* A call begins. *)
LEMMA BeginHeld ==
  ASSUME HeldInv, op' \in Calls, op'.done = 0, op'.step \in {"take", "heap"}, op'.phys = None,
         UNCHANGED <<map, handed, heap_break>>, FrameCaps' \subseteq FrameCaps,
         allocated \subseteq allocated', op'.call = "sbrk" => op'.step = "heap"
  PROVE  Ranges' /\ HeapMapped' /\ CallFrames' /\ CallDone'
<1>1. Ranges' /\ HeapMapped'
  BY QuietRanges, QuietHeaps DEF HeldInv
<1>2. CallFrames'
  BY DEF CallFrames
<1>3. op'.va \in Nat
  BY DEF Calls
<1>4. CallDone'
  BY <1>3 DEF CallDone
<1> QED BY <1>1, <1>2, <1>4

(* DMA_ALLOC and FRAME_ALLOC begin. *)
LEMMA ChargeHeld ==
  ASSUME HeldInv, NEW name \in {"dma", "frame"}, NEW p \in Pid, NEW pages \in Nat \ {0},
         NEW slot \in SlotArg, NEW out_ok \in BOOLEAN, charge(name, p, pages, slot, out_ok)
  PROVE  Ranges' /\ HeapMapped' /\ CallFrames' /\ CallDone'
<1>1. FrameCaps' \subseteq FrameCaps
  <2>1. caps[p] \in CNode /\ charge_ok(caps[p], pages) /\ caps \in [Pid -> CNode]
    BY DEF HeldInv, Inv, charge
  <2> DEFINE cn == charge_untyped(caps[p], pages)
  <2>2. caps' = [caps EXCEPT ![p] = cn]
    BY DEF charge
  <2>3. /\ cn \in CNode
        /\ \A i \in Slot : /\ cn[i].type = caps[p][i].type
                           /\ caps[p][i].type # "Untyped" => cn[i] = caps[p][i]
    BY <2>1, ChargeKeeps
  <2> HIDE DEF cn
  <2> QED BY <2>1, <2>2, <2>3, BudgetStepCaps
<1>2. /\ op' = [call |-> name, step |-> "take", p |-> p, pages |-> pages, phys |-> None,
                va |-> 0, done |-> 0, slot |-> slot, out_ok |-> out_ok]
      /\ op' \in Calls
  BY DEF charge, Call, Calls
<1>3. UNCHANGED <<map, handed, heap_break>> /\ allocated' = allocated
  BY DEF charge, ghosts, windows, allocator
<1> QED BY <1>1, <1>2, <1>3, BeginHeld

(* SBRK begins to grow the heap, or shrinks it. *)
LEMMA SbrkHeld ==
  ASSUME HeldInv, NEW p \in Pid, NEW pages \in Nat, sbrk_grow(p, pages) \/ sbrk_shrink(p, pages)
  PROVE  Ranges' /\ HeapMapped' /\ CallFrames' /\ CallDone'
<1>1. heap_break \in [Pid -> HEAP_START .. HEAP_MAX] /\ HEAP_START \in Nat /\ HEAP_MAX \in Nat
  BY WindowFacts DEF HeldInv, Inv, SpaceTypes
<1>2. UNCHANGED <<map, handed>> /\ allocated' = allocated /\ FrameCaps' = FrameCaps
  BY DEF sbrk_grow, sbrk_shrink, ghosts, allocator, FrameCaps
<1>3. CASE sbrk_grow(p, pages)
  <2>1. heap_break[p] \in Nat /\ heap_break' = heap_break
    BY <1>1, <1>3 DEF sbrk_grow, windows
  <2>2. op' = [call |-> "sbrk", step |-> "heap", p |-> p, pages |-> pages, phys |-> None,
               va |-> heap_break[p], done |-> 0, slot |-> MAX, out_ok |-> TRUE]
    BY <1>3 DEF sbrk_grow, Call
  <2>3. MAX \in SlotArg /\ TRUE \in BOOLEAN /\ None \in Frame \cup {None} /\ 0 \in Nat
    BY DEF SlotArg
  <2>4. op' \in Calls
    BY <2>1, <2>2, <2>3, Zenon DEF Calls
  <2>5. op'.done = 0 /\ op'.step = "heap" /\ op'.phys = None
    BY <2>2
  <2> QED BY <1>2, <2>1, <2>4, <2>5, BeginHeld
<1>4. CASE sbrk_shrink(p, pages)
  <2>1. op' = Idle /\ heap_break' = [heap_break EXCEPT ![p] = @ - pages]
    BY <1>4 DEF sbrk_shrink
  <2>2. ASSUME NEW q \in Pid, NEW v \in HEAP_START .. heap_break'[q] - 1
        PROVE  map'[q][v] # None
    <3>1. heap_break'[q] \in Int /\ heap_break[q] \in Int /\ heap_break'[q] <= heap_break[q]
      BY <1>1, <2>1
    <3>2. v \in HEAP_START .. heap_break[q] - 1
      BY <1>1, <3>1
    <3> QED BY <1>2, <3>2 DEF HeldInv, HeapMapped
  <2>3. HeapMapped'
    BY <2>2 DEF HeapMapped
  <2> QED BY <1>2, <2>1, <2>3, QuietRanges, IdleHeld DEF HeldInv
<1> QED BY <1>3, <1>4

(* MAP_FRAME begins with the frames of a capability. *)
LEMMA MapFrameHeld ==
  ASSUME HeldInv, NEW p \in Pid, NEW slot \in SlotArg, NEW out_ok \in BOOLEAN,
         sys_map_frame(p, slot, out_ok)
  PROVE  Ranges' /\ HeapMapped' /\ CallFrames' /\ CallDone'
<1> DEFINE c == caps[p][slot]
<1>1. UNCHANGED <<map, handed, heap_break>> /\ allocated' = allocated /\ FrameCaps' = FrameCaps
  BY DEF sys_map_frame, ghosts, windows, allocator, FrameCaps
<1>2. slot \in Slot /\ c.type = "Frame"
  BY DEF sys_map_frame, holds
<1>3. c \in FrameCaps
  BY <1>2, FrameCapsIff DEF HeldInv, Inv, FrameCaps, FrameCapsIn
<1>4. op' = [call |-> "map", step |-> "map", p |-> p, pages |-> c.badge,
             phys |-> c.object, va |-> next_shared, done |-> 0, slot |-> slot,
             out_ok |-> out_ok]
  BY DEF sys_map_frame, Call
<1> HIDE DEF c
<1>5. /\ op'.call = "map" /\ op'.step = "map" /\ op'.pages = c.badge /\ op'.phys = c.object
      /\ op'.done = 0
  BY <1>4
<1>6. OffHeap(map, FramesOf(c))
  BY <1>3 DEF HeldInv, Ranges, CapsOffHeap
<1>7. CallFrames'
  BY <1>1, <1>5, <1>6 DEF CallFrames, OffHeap, FramesOf, Run
<1>8. CallDone'
  BY <1>5 DEF CallDone
<1> QED BY <1>1, <1>7, <1>8, QuietRanges, QuietHeaps DEF HeldInv

(* The call takes frames nobody had. *)
LEMMA TakeHeld ==
  ASSUME HeldInv, take_frames
  PROVE  Ranges' /\ HeapMapped' /\ CallFrames' /\ CallDone'
<1>1. /\ op # Idle /\ op \in Calls /\ op.step = "take" /\ op.pages \in Nat
  BY InCall DEF HeldInv, Inv, take_frames
<1>2. op.call \in {"dma", "frame"} /\ op.phys = None /\ op.done = 0 /\ op.pages > 0
  BY <1>1 DEF HeldInv, Inv, CallTypes
<1>3. UNCHANGED <<map, handed, heap_break>> /\ FrameCaps' = FrameCaps
  BY DEF take_frames, ghosts, windows, FrameCaps
<1>4. Allocator
  BY DEF HeldInv, Inv, Allocator
<1>5. CASE Fitting(op.pages) = {}
  <2>1. allocated' = allocated
    BY <1>4, <1>5, ExhaustKeeps DEF take_frames, alloc_contiguous
  <2>2. op' = [op EXCEPT !.step = "fail"]
    BY <1>5 DEF take_frames
  <2>3. /\ op'.step = "fail" /\ op'.phys = None /\ op'.call = op.call /\ op'.done = 0
    BY <1>1, <1>2, <2>2 DEF Calls
  <2>4. CallFrames' /\ CallDone'
    BY <1>2, <2>3 DEF CallFrames, CallDone
  <2> QED BY <1>3, <2>1, <2>4, QuietRanges, QuietHeaps DEF HeldInv
<1>6. CASE Fitting(op.pages) # {}
  <2> DEFINE base == bump_start(Min(Fitting(op.pages)))
  <2>1. bump(op.pages) /\ UNCHANGED free
    BY <1>6 DEF take_frames, alloc_contiguous
  <2>2. /\ Allocator' /\ base \in Frame /\ allocated' = allocated \cup Run(base, op.pages)
        /\ Run(base, op.pages) \cap allocated = {}
    BY <1>1, <1>2, <1>4, <1>6, <2>1, BumpKeeps
  <2>3. op' = [op EXCEPT !.step = IF room(op.pages) THEN "map" ELSE "fail",
                         !.phys = base, !.va = window_next]
    BY <1>6 DEF take_frames
  <2> HIDE DEF base
  <2>4. /\ op'.step # "finish" /\ op'.phys = base /\ op'.call = op.call
        /\ op'.pages = op.pages /\ op'.done = 0
    <3> HIDE DEF room, window_next
    <3> QED BY <1>1, <1>2, <2>3 DEF Calls
  <2>5. Run(base, op.pages) \subseteq Frame
    BY <2>2 DEF Allocator, AllocatorTypes
  <2>6. /\ OffHeap(map, Run(base, op.pages))
        /\ \A h \in handed : Run(base, op.pages) \cap Run(h.phys, h.pages) = {}
    BY <2>2, <2>5, FreshFrames
  <2>7. CallFrames'
    BY <1>2, <1>3, <2>4, <2>6 DEF CallFrames, OffHeap, Run
  <2>8. CallDone'
    BY <1>2, <2>4 DEF CallDone
  <2> QED BY <1>3, <2>2, <2>7, <2>8, QuietRanges, QuietHeaps DEF HeldInv
<1> QED BY <1>5, <1>6

(* SBRK takes a frame nobody had. *)
LEMMA HeapFrameHeld ==
  ASSUME HeldInv, heap_frame
  PROVE  Ranges' /\ HeapMapped' /\ CallFrames' /\ CallDone'
<1>1. op # Idle /\ op \in Calls /\ op.step = "heap"
  BY InCall DEF HeldInv, Inv, heap_frame
<1>2. op.call = "sbrk"
  BY <1>1 DEF HeldInv, Inv, CallTypes
<1>3. /\ Allocator' /\ allocated \subseteq allocated'
      /\ alloc_ok => /\ alloc_frame \in Frame
                     /\ alloc_frame \in allocated' /\ alloc_frame \notin allocated
  BY AllocKeeps DEF HeldInv, Inv, Allocator, heap_frame
<1>4. UNCHANGED <<map, handed, heap_break>> /\ FrameCaps' = FrameCaps
  BY DEF heap_frame, ghosts, windows, FrameCaps
<1>5. Ranges' /\ HeapMapped'
  BY <1>3, <1>4, QuietRanges, QuietHeaps DEF HeldInv
<1>6. CASE ~alloc_ok
  BY <1>5, <1>6, IdleHeld DEF heap_frame
<1>7. CASE alloc_ok
  <2>1. op' = [op EXCEPT !.step = "map", !.phys = alloc_frame]
    BY <1>7 DEF heap_frame
  <2> DEFINE f == alloc_frame
  <2>2. f \in Frame /\ f \in allocated' /\ f \notin allocated
    BY <1>3, <1>7
  <2> HIDE DEF f
  <2>3. /\ op'.step = "map" /\ op'.phys = f /\ op'.call = "sbrk" /\ op'.p = op.p
        /\ op'.va = op.va /\ op'.done = op.done
    BY <1>1, <1>2, <2>1 DEF Calls, f
  <2>4. /\ OffHeap(map, {f}) /\ \A c \in FrameCaps : {f} \cap FramesOf(c) = {}
        /\ \A h \in handed : {f} \cap Run(h.phys, h.pages) = {}
    BY <2>2, FreshFrames
  <2>5. CallFrames'
    <3>1. OffHeap(map, {op.phys})'
      BY <1>4, <2>3, <2>4 DEF OffHeap
    <3>2. \A c \in FrameCaps' : op'.phys \notin FramesOf(c)'
      BY <1>4, <2>3, <2>4 DEF FramesOf
    <3>3. \A h \in handed' : op'.phys \notin Run(h.phys, h.pages)'
      BY <1>4, <2>3, <2>4 DEF Run
    <3> QED BY <2>2, <2>3, <3>1, <3>2, <3>3 DEF CallFrames
  <2>6. CallDone'
    BY <1>1, <1>2, <1>4, <2>3 DEF CallDone, HeldInv
  <2> QED BY <1>5, <2>5, <2>6
<1> QED BY <1>6, <1>7

(* SBRK moves the break over the pages it has mapped. *)
LEMMA HeapDoneHeld ==
  ASSUME HeldInv, heap_done
  PROVE  Ranges' /\ HeapMapped' /\ CallFrames' /\ CallDone'
<1>1. op # Idle /\ op \in Calls /\ op.step = "heap" /\ op.p \in Pid /\ op.pages \in Nat
  BY InCall DEF HeldInv, Inv, heap_done
<1>2. op.call = "sbrk" /\ op.va = heap_break[op.p] /\ op.done = op.pages
  BY <1>1 DEF HeldInv, Inv, CallTypes, CallPages, heap_done
<1>3. UNCHANGED <<map, handed>> /\ allocated' = allocated /\ FrameCaps' = FrameCaps
      /\ op' = Idle
  BY DEF heap_done, ghosts, allocator, FrameCaps
<1>4. heap_break \in [Pid -> HEAP_START .. HEAP_MAX] /\ HEAP_START \in Nat /\ HEAP_MAX \in Nat
  BY WindowFacts DEF HeldInv, Inv, SpaceTypes
<1>5. PICK p \in Pid, n \in Nat : p = op.p /\ n = op.pages
  BY <1>1
<1>6. heap_break' = [heap_break EXCEPT ![p] = @ + n]
  BY <1>5 DEF heap_done
<1>7. \A v \in heap_break[p] .. heap_break[p] + n - 1 : map[p][v] # None
  BY <1>1, <1>2, <1>5 DEF HeldInv, CallDone
<1>8. ASSUME NEW q \in Pid, NEW v \in HEAP_START .. heap_break'[q] - 1
      PROVE  map[q][v] # None
  <2>1. heap_break[q] \in Int
    BY <1>4
  <2>2. CASE v \in HEAP_START .. heap_break[q] - 1
    BY <2>2 DEF HeldInv, HeapMapped
  <2>3. CASE v \notin HEAP_START .. heap_break[q] - 1
    <3>1. q = p /\ heap_break'[q] = heap_break[q] + n
      BY <1>4, <1>6, <2>1, <2>3
    <3>2. v \in heap_break[p] .. heap_break[p] + n - 1
      BY <1>4, <2>1, <2>3, <3>1
    <3> QED BY <1>7, <3>1, <3>2
  <2> QED BY <2>2, <2>3
<1>9. HeapMapped'
  BY <1>3, <1>8 DEF HeapMapped
<1> QED BY <1>3, <1>9, QuietRanges, IdleHeld DEF HeldInv

(* A page table is added, or the call fails for want of one. *)
LEMMA MapTableHeld ==
  ASSUME HeldInv, map_table
  PROVE  Ranges' /\ HeapMapped' /\ CallFrames' /\ CallDone'
<1>1. op \in Calls /\ op.step = "map" /\ op # Idle
  BY MappingFacts DEF map_table, HeldInv
<1>2. allocated \subseteq allocated'
  BY AllocKeeps DEF HeldInv, Inv, Allocator, map_table
<1>3. UNCHANGED <<map, handed, heap_break>> /\ FrameCaps' = FrameCaps
  BY DEF map_table, ghosts, windows, FrameCaps
<1>4. op' = op \/ op' = [op EXCEPT !.step = "fail"]
  BY DEF map_table
<1>5. /\ op'.call = op.call /\ op'.p = op.p /\ op'.pages = op.pages /\ op'.phys = op.phys
      /\ op'.va = op.va /\ op'.done = op.done /\ op'.step \in {op.step, "fail"}
  BY <1>1, <1>4 DEF Calls
<1>6. CallFrames' /\ CallDone'
  BY <1>1, <1>2, <1>3, <1>5, CallHeld DEF HeldInv
<1> QED BY <1>2, <1>3, <1>6, QuietRanges, QuietHeaps DEF HeldInv

(* All pages of the call are mapped. *)
LEMMA MappedHeld ==
  ASSUME HeldInv, mapped
  PROVE  Ranges' /\ HeapMapped' /\ CallFrames' /\ CallDone'
<1>1. op \in Calls /\ op.step = "map" /\ op # Idle /\ op.done = op.pages
  BY InCall DEF HeldInv, Inv, mapped
<1>2. UNCHANGED <<map, handed, heap_break>> /\ FrameCaps' = FrameCaps /\ allocated' = allocated
  BY DEF mapped, ghosts, allocator, FrameCaps
<1>3. op' = [op EXCEPT !.step = IF op.out_ok THEN "finish" ELSE "fail"]
  BY DEF mapped
<1>4. /\ op'.call = op.call /\ op'.p = op.p /\ op'.pages = op.pages /\ op'.phys = op.phys
      /\ op'.va = op.va /\ op'.done = op.done /\ op'.step \in {"finish", "fail"}
  BY <1>1, <1>3 DEF Calls
<1>5. CallFrames' /\ CallDone'
  BY <1>1, <1>2, <1>4, CallHeld DEF HeldInv
<1> QED BY <1>2, <1>5, QuietRanges, QuietHeaps DEF HeldInv

(* Delegation copies a capability. *)
LEMMA DelegateHeld ==
  ASSUME HeldInv, NEW p \in Pid, NEW q \in Pid, NEW src, NEW dst, delegate(p, q, src, dst)
  PROVE  Ranges' /\ HeapMapped' /\ CallFrames' /\ CallDone'
<1>1. UNCHANGED <<map, handed, heap_break>> /\ allocated' = allocated /\ op' = Idle
  BY DEF delegate, allocator, windows
<1> DEFINE cap == caps[p][src]
<1>2. src \in Slot /\ cap \in CapEntry /\ caps \in [Pid -> CNode]
  BY DEF delegate, get_ok, HeldInv, Inv, CNode
<1>3. caps' = [caps EXCEPT ![q] = insert(@, dst, cap)]
  BY DEF delegate
<1>4. cap.type = "Frame" => cap \in FrameCaps
  BY <1>2, FrameCapsIff DEF FrameCaps, FrameCapsIn
<1> HIDE DEF cap
<1>5. FrameCaps' \subseteq FrameCaps
  <2>1. PICK c \in CapEntry : c = cap
    BY <1>2
  <2>2. caps' = [caps EXCEPT ![q] = insert(@, dst, c)] /\ caps \in [Pid -> CNode]
    BY <1>2, <1>3, <2>1
  <2>3. \A d \in FrameCaps' : d \in FrameCaps \/ (d = c /\ c.type = "Frame")
    BY ONLY <2>2, InsertStepCaps, Zenon
  <2> QED BY <1>4, <2>1, <2>3
<1> QED BY <1>1, <1>5, QuietRanges, QuietHeaps, IdleHeld DEF HeldInv

(* A call fails: the frames it frees are in no range and behind no heap    *)
(* page. *)
LEMMA FailHeld ==
  ASSUME HeldInv, fail
  PROVE  Ranges' /\ HeapMapped' /\ CallFrames' /\ CallDone'
<1>1. /\ op # Idle /\ op \in Calls /\ op.step = "fail" /\ op.p \in Pid
      /\ op.pages \in Nat /\ op.phys \in Frame \cup {None}
  BY InCall DEF HeldInv, Inv, fail
<1>2. UNCHANGED <<map, handed, heap_break>> /\ op' = Idle
  BY DEF fail, ghosts, windows
<1>3. FrameCaps' \subseteq FrameCaps
  <2>1. CASE op.call \in {"dma", "frame"}
    <3> DEFINE cn == refund_untyped(caps[op.p], op.pages)
    <3>1. caps' = [caps EXCEPT ![op.p] = cn] /\ caps \in [Pid -> CNode]
      BY <2>1 DEF fail, HeldInv, Inv
    <3>2. caps[op.p] \in CNode
      BY <1>1, <3>1
    <3>3. /\ cn \in CNode
          /\ \A i \in Slot : /\ cn[i].type = caps[op.p][i].type
                             /\ caps[op.p][i].type # "Untyped" => cn[i] = caps[op.p][i]
      BY <1>1, <3>2, RefundKeeps
    <3> HIDE DEF cn
    <3>4. PICK q \in Pid, new \in CNode : q = op.p /\ new = cn
      BY <1>1, <3>3
    <3> QED BY <3>1, <3>3, <3>4, BudgetStepCaps
  <2>2. CASE op.call \notin {"dma", "frame"}
    BY <2>2 DEF fail, FrameCaps
  <2> QED BY <2>1, <2>2
<1>4. HeapMapped' /\ CallFrames' /\ CallDone'
  BY <1>2, QuietHeaps, IdleHeld DEF HeldInv
<1>5. CASE op.call = "frame" /\ op.phys # None
  <2> DEFINE F == Run(op.phys, op.pages)
  <2>1. op.phys \in Nat /\ F \subseteq allocated
    BY <1>1, <1>5, FrameIsNat DEF HeldInv, Inv, CallHolds
  <2>2. allocated' = allocated \ F
    BY <1>1, <1>5, <2>1, FreeKeeps DEF HeldInv, Inv, Allocator, fail
  <2>3. OffHeap(map, F) /\ \A h \in handed : F \cap Run(h.phys, h.pages) = {}
    BY <1>1, <1>5 DEF HeldInv, CallFrames
  <2> HIDE DEF F
  <2>4. HandedTypes'
    BY <1>2 DEF HeldInv, Ranges, HandedTypes
  <2>5. RangesBacked'
    <3>1. ASSUME NEW h \in handed, NEW i \in 0 .. h.pages - 1
          PROVE  map[h.p][h.va + i] = h.phys + i /\ h.phys + i \in allocated'
      <4>1. map[h.p][h.va + i] = h.phys + i /\ h.phys + i \in allocated
        BY DEF HeldInv, Ranges, RangesBacked
      <4>2. h.phys + i \in Run(h.phys, h.pages)
        <5>1. h.phys \in Nat /\ h.pages \in Nat
          BY DEF HeldInv, Ranges, HandedTypes
        <5> QED BY <5>1 DEF Run
      <4> QED BY <2>2, <2>3, <4>1, <4>2
    <3> QED BY <1>2, <3>1 DEF RangesBacked
  <2>6. HeapOwned'
    BY <1>2, <2>2, <2>3 DEF HeldInv, Ranges, HeapOwned, OffHeap
  <2>7. CapsOffHeap'
    BY <1>2, <1>3 DEF HeldInv, Ranges, CapsOffHeap, OffHeap, FramesOf
  <2> QED BY <1>4, <2>4, <2>5, <2>6, <2>7 DEF Ranges
<1>6. CASE ~(op.call = "frame" /\ op.phys # None)
  <2>1. allocated' = allocated
    BY <1>6 DEF fail, allocator
  <2> QED BY <1>2, <1>3, <1>4, <2>1, QuietRanges DEF HeldInv
<1> QED BY <1>5, <1>6

(* A call succeeds and hands out the pages it has mapped. *)
LEMMA FinishHeld ==
  ASSUME HeldInv, finish
  PROVE  Ranges' /\ HeapMapped' /\ CallFrames' /\ CallDone'
<1>1. /\ op # Idle /\ op \in Calls /\ op.step = "finish" /\ op.p \in Pid
      /\ op.pages \in Nat /\ op.va \in Nat /\ op.phys \in Frame \cup {None}
  BY InCall DEF HeldInv, Inv, finish
<1>2. op.call \in {"dma", "frame", "map"} /\ op.done = op.pages
  BY <1>1 DEF HeldInv, Inv, CallTypes, CallDone, Calls
<1>3. op.phys # None /\ op.phys \in Nat /\ Run(op.phys, op.pages) \subseteq allocated
  BY <1>1, <1>2, FrameIsNat DEF HeldInv, Inv, CallHolds
<1>4. UNCHANGED <<map, heap_break>> /\ allocated' = allocated
  BY DEF finish, allocator, windows
<1>5. CASE op.call = "frame" /\ ~insert_ok(caps[op.p], op.slot)
  <2>1. op' = [op EXCEPT !.step = "fail"] /\ UNCHANGED <<caps, handed>>
    BY <1>5 DEF finish
  <2>2. FrameCaps' = FrameCaps
    BY <2>1 DEF FrameCaps
  <2>3. /\ op'.call = op.call /\ op'.p = op.p /\ op'.pages = op.pages /\ op'.phys = op.phys
        /\ op'.va = op.va /\ op'.done = op.done /\ op'.step = "fail"
    BY <1>1, <2>1 DEF Calls
  <2>4. CallFrames' /\ CallDone'
    BY <1>1, <1>4, <2>1, <2>2, <2>3, CallHeld DEF HeldInv
  <2> QED BY <1>4, <2>1, <2>2, <2>4, QuietRanges, QuietHeaps DEF HeldInv
<1>6. CASE ~(op.call = "frame" /\ ~insert_ok(caps[op.p], op.slot))
  <2> DEFINE new == [p |-> op.p, va |-> op.va, pages |-> op.pages, phys |-> op.phys]
  <2>1. /\ op' = Idle /\ handed' = handed \cup {new}
        /\ caps' = IF op.call = "frame"
                     THEN [caps EXCEPT ![op.p] = insert(@, op.slot, frame_cap)] ELSE caps
    BY <1>6 DEF finish
  <2>2. /\ new \in [p : Pid, va : Nat, pages : Nat, phys : Nat]
        /\ new.p = op.p /\ new.va = op.va /\ new.pages = op.pages /\ new.phys = op.phys
    BY <1>1, <1>3
  <2> HIDE DEF new
  <2>3. HandedTypes'
    <3>1. op.va + op.pages <= HEAP_MAX
      <4>1. CASE op.call = "dma"
        BY <1>1, <4>1, WindowFacts DEF HeldInv, Inv, CallPages
      <4>2. CASE op.call \in {"frame", "map"}
        BY <1>1, <4>2, WindowFacts DEF HeldInv, Inv, CallPages
      <4> QED BY <1>2, <4>1, <4>2
    <3> QED BY <2>1, <2>2, <3>1 DEF HeldInv, Ranges, HandedTypes
  <2>4. RangesBacked'
    <3>1. ASSUME NEW i \in 0 .. op.pages - 1
          PROVE  map[op.p][op.va + i] = op.phys + i /\ op.phys + i \in allocated
      <4>1. map[op.p][op.va + i] = op.phys + i
        BY <1>1, <1>2 DEF HeldInv, CallDone
      <4>2. op.phys + i \in Run(op.phys, op.pages)
        BY <1>1, <1>3 DEF Run
      <4> QED BY <1>3, <4>1, <4>2
    <3> QED BY <1>4, <2>1, <2>2, <3>1 DEF HeldInv, Ranges, RangesBacked
  <2>5. OffHeap(map, Run(op.phys, op.pages))
    BY <1>1, <1>2, <1>3 DEF HeldInv, CallFrames
  <2>6. HeapOwned'
    <3>1. \A p \in Pid, v \in HeapPage : map[p][v] \notin new.phys .. new.phys + new.pages - 1
      BY <2>2, <2>5 DEF OffHeap, Run
    <3> QED BY <1>4, <2>1, <3>1 DEF HeldInv, Ranges, HeapOwned
  <2>7. CapsOffHeap'
    <3>1. CASE op.call # "frame"
      <4>1. FrameCaps' = FrameCaps
        BY <2>1, <3>1 DEF FrameCaps
      <4> QED BY <1>4, <4>1 DEF HeldInv, Ranges, CapsOffHeap, OffHeap, FramesOf
    <3>2. CASE op.call = "frame"
      <4>1. frame_cap \in CapEntry /\ frame_cap.object = op.phys
            /\ frame_cap.badge = op.pages
        BY <1>1, <1>3 DEF frame_cap, CapEntry, CapType
      <4> HIDE DEF frame_cap
      <4>2. PICK q \in Pid, cap \in CapEntry : q = op.p /\ cap = frame_cap
        BY <1>1, <4>1
      <4>3. caps' = [caps EXCEPT ![q] = insert(@, op.slot, cap)] /\ caps \in [Pid -> CNode]
        BY <2>1, <3>2, <4>2 DEF HeldInv, Inv
      <4>4. \A c \in FrameCaps' : c \in FrameCaps \/ (c = cap /\ cap.type = "Frame")
        BY ONLY <4>3, InsertStepCaps, Zenon
      <4>5. OffHeap(map, FramesOf(cap))
        BY <2>5, <4>1, <4>2 DEF FramesOf, Run
      <4>6. \A c \in FrameCaps' : OffHeap(map, FramesOf(c))
        BY <4>4, <4>5 DEF HeldInv, Ranges, CapsOffHeap
      <4> QED BY <1>4, <4>6 DEF CapsOffHeap, OffHeap, FramesOf
    <3> QED BY <3>1, <3>2
  <2> QED
    BY <1>4, <2>1, <2>3, <2>4, <2>6, <2>7, QuietHeaps, IdleHeld DEF HeldInv, Ranges
<1> QED BY <1>5, <1>6

(* A page is mapped.  It was not mapped before, so no page handed out is   *)
(* redirected, and a heap page gets a frame of its own. *)
LEMMA MapPageHeld ==
  ASSUME HeldInv, map_page
  PROVE  Ranges' /\ HeapMapped' /\ CallFrames' /\ CallDone'
<1>1. /\ op \in Calls /\ op.step = "map" /\ op # Idle /\ op.done < op.pages
      /\ page \in Page /\ page_frame \in Frame
      /\ op.p \in Pid /\ op.done \in Nat /\ op.pages \in Nat /\ op.va \in Nat
  BY MappingFacts DEF map_page, Calls, HeldInv
<1>2. UNCHANGED <<handed, heap_break>> /\ allocated' = allocated /\ FrameCaps' = FrameCaps
  BY DEF map_page, ghosts, windows, allocator, FrameCaps
<1>3. CASE map[op.p][page] # None
  <2>1. op' = [op EXCEPT !.step = "fail"] /\ map' = map
    BY <1>3 DEF map_page
  <2>2. /\ op'.call = op.call /\ op'.p = op.p /\ op'.pages = op.pages /\ op'.phys = op.phys
        /\ op'.va = op.va /\ op'.done = op.done /\ op'.step = "fail"
    BY <1>1, <2>1 DEF Calls
  <2>3. CallFrames' /\ CallDone'
    BY <1>1, <1>2, <2>1, <2>2, CallHeld DEF HeldInv
  <2> QED BY <1>2, <2>1, <2>3, QuietRanges, QuietHeaps DEF HeldInv
<1>4. CASE map[op.p][page] = None
  <2>1. PICK p \in Pid, v \in Page, f \in Frame :
            p = op.p /\ v = page /\ f = page_frame
    BY <1>1
  <2>2. map[p][v] = None /\ map' = [map EXCEPT ![p] = [map[p] EXCEPT ![v] = f]]
    BY <1>4, <2>1 DEF map_page
  <2>3. map \in [Pid -> [Page -> Frame \cup {None}]]
    BY DEF HeldInv, Inv, SpaceTypes
  <2>4. /\ map'[p][v] = f /\ f # None
        /\ \A q \in Pid, w \in Page : q # p \/ w # v => map'[q][w] = map[q][w]
    BY <2>2, <2>3, FrameIsNat
  <2>5. \A q \in Pid, w \in Page : map[q][w] # None => map'[q][w] = map[q][w]
    BY <2>2, <2>4
  <2>6. HeapPage \subseteq Page
    BY WindowFacts DEF HeapPage, Page
  <2>7. /\ op'.step = (IF op.call = "sbrk" THEN "heap" ELSE "map")
        /\ op'.call = op.call /\ op'.p = op.p
        /\ op'.pages = op.pages /\ op'.phys = op.phys /\ op'.va = op.va
        /\ op'.done = op.done + 1
    <3>1. op' = [op EXCEPT !.done = @ + 1,
                           !.step = IF op.call = "sbrk" THEN "heap" ELSE "map"]
      BY <1>4 DEF map_page
    <3> DEFINE step == IF op.call = "sbrk" THEN "heap" ELSE "map"
               done == op.done + 1
    <3>2. op' = [op EXCEPT !.done = done, !.step = step]
      BY <3>1
    <3> HIDE DEF step, done
    <3>3. /\ op'.step = step /\ op'.call = op.call /\ op'.p = op.p
          /\ op'.pages = op.pages /\ op'.phys = op.phys /\ op'.va = op.va /\ op'.done = done
      BY <1>1, <3>2 DEF Calls
    <3> QED BY <3>3 DEF step, done
  <2>8. v = op.va + op.done
    BY <2>1 DEF page
  <2>9. HandedTypes'
    BY <1>2 DEF HeldInv, Ranges, HandedTypes
  <2>10. RangesBacked'
    <3>1. ASSUME NEW h \in handed, NEW i \in 0 .. h.pages - 1
          PROVE  map'[h.p][h.va + i] = h.phys + i /\ h.phys + i \in allocated
      <4>1. map[h.p][h.va + i] = h.phys + i /\ h.phys + i \in allocated
        BY DEF HeldInv, Ranges, RangesBacked
      <4>2. h.p \in Pid /\ h.va + i \in Page /\ h.phys + i # None
        <5>1. h.p \in Pid /\ h.va \in Nat /\ h.pages \in Nat /\ h.phys \in Nat
              /\ h.va + h.pages <= HEAP_MAX
          BY DEF HeldInv, Ranges, HandedTypes
        <5> QED BY <5>1, WindowFacts DEF Page, None
      <4> QED BY <2>5, <4>1, <4>2
    <3> QED BY <1>2, <3>1 DEF RangesBacked
  <2>11. HeapMapped'
    <3>1. ASSUME NEW q \in Pid, NEW w \in HEAP_START .. heap_break[q] - 1
          PROVE  map'[q][w] # None
      <4>1. map[q][w] # None
        BY DEF HeldInv, HeapMapped
      <4>2. w \in Page
        <5>1. heap_break[q] \in HEAP_START .. HEAP_MAX
          BY DEF HeldInv, Inv, SpaceTypes
        <5> QED BY <5>1, WindowFacts DEF Page
      <4> QED BY <2>5, <4>1, <4>2
    <3> QED BY <1>2, <3>1 DEF HeapMapped
  <2>12. CASE op.call = "sbrk"
    <3>1. f = op.phys
      BY <2>1, <2>12 DEF page_frame
    <3>2. /\ f \in allocated /\ OffHeap(map, {f})
          /\ \A c \in FrameCaps : f \notin FramesOf(c)
          /\ \A h \in handed : f \notin Run(h.phys, h.pages)
      BY <1>1, <2>12, <3>1 DEF HeldInv, CallFrames
    <3>3. \A q \in Pid, w \in HeapPage : map[q][w] # f
      BY <3>2 DEF OffHeap
    <3>4. HeapOwned'
      <4> SUFFICES ASSUME NEW q \in Pid, NEW w \in HeapPage, map'[q][w] # None
                   PROVE  /\ map'[q][w] \in allocated
                          /\ \A r \in Pid, x \in HeapPage :
                                map'[r][x] = map'[q][w] => r = q /\ x = w
                          /\ \A h \in handed :
                                map'[q][w] \notin h.phys .. h.phys + h.pages - 1
        BY <1>2 DEF HeapOwned
      <4>1. CASE q = p /\ w = v
        <5>1. map'[q][w] = f
          BY <2>4, <4>1
        <5>2. \A h \in handed : f \notin h.phys .. h.phys + h.pages - 1
          BY <3>2 DEF Run
        <5>3. \A r \in Pid, x \in HeapPage : map'[r][x] = f => r = q /\ x = w
          BY <2>4, <2>6, <3>3, <4>1
        <5> QED BY <3>2, <5>1, <5>2, <5>3
      <4>2. CASE q # p \/ w # v
        <5>1. map'[q][w] = map[q][w] /\ map[q][w] # None
          BY <2>4, <2>6, <4>2
        <5>2. /\ map[q][w] \in allocated
              /\ \A r \in Pid, x \in HeapPage : map[r][x] = map[q][w] => r = q /\ x = w
              /\ \A h \in handed : map[q][w] \notin h.phys .. h.phys + h.pages - 1
          BY <5>1 DEF HeldInv, Ranges, HeapOwned
        <5>3. ASSUME NEW r \in Pid, NEW x \in HeapPage, map'[r][x] = map[q][w]
              PROVE  r = q /\ x = w
          <6>1. map[q][w] # f
            BY <3>3
          <6>2. map'[r][x] = map[r][x]
            BY <2>4, <2>6, <5>3, <6>1
          <6> QED BY <5>2, <5>3, <6>2
        <5> QED BY <5>1, <5>2, <5>3
      <4> QED BY <4>1, <4>2
    <3>5. CapsOffHeap'
      <4>1. ASSUME NEW c \in FrameCaps, NEW q \in Pid, NEW w \in HeapPage
            PROVE  map'[q][w] \notin FramesOf(c)
        <5>1. map[q][w] \notin FramesOf(c)
          BY DEF HeldInv, Ranges, CapsOffHeap, OffHeap
        <5>2. f \notin FramesOf(c)
          BY <3>2
        <5> QED BY <2>4, <2>6, <5>1, <5>2
      <4> QED BY <1>2, <4>1 DEF CapsOffHeap, OffHeap, FramesOf
    <3>6. CallFrames'
      BY <2>7, <2>12 DEF CallFrames
    <3>7. CallDone'
      <4>1. ASSUME NEW w \in op.va .. op.va + op.done PROVE map'[p][w] # None
        <5>1. CASE w = v
          BY <2>4, <5>1
        <5>2. CASE w # v
          <6>1. w \in op.va .. op.va + op.done - 1
            BY <1>1, <2>8, <5>2
          <6>2. map[p][w] # None
            BY <1>1, <2>1, <2>12, <6>1 DEF HeldInv, CallDone
          <6>3. w \in Page
            BY <1>1, <2>8, <6>1, WindowFacts DEF Page
          <6> QED BY <2>5, <6>2, <6>3
        <5> QED BY <5>1, <5>2
      <4>2. \A w \in op'.va .. op'.va + op'.done - 1 : map'[op'.p][w] # None
        <5>1. op.va + (op.done + 1) - 1 = op.va + op.done
          BY <1>1
        <5> QED BY <2>1, <2>7, <4>1, <5>1
      <4> QED BY <2>7, <2>12, <4>2 DEF CallDone
    <3> QED BY <2>9, <2>10, <2>11, <3>4, <3>5, <3>6, <3>7 DEF Ranges
  <2>13. CASE op.call # "sbrk"
    <3>1. f = op.phys + op.done /\ op.phys # None /\ op.phys \in Nat
          /\ Run(op.phys, op.pages) \subseteq allocated
      BY <1>1, <2>1, <2>13, FrameIsNat DEF page_frame, HeldInv, Inv, CallHolds, Calls
    <3>2. v \notin HeapPage
      <4>1. op.va + op.pages <= HEAP_START
        <5>1. CASE op.call = "dma"
          BY <1>1, <5>1, WindowFacts DEF HeldInv, Inv, CallPages
        <5>2. CASE op.call \in {"frame", "map"}
          BY <1>1, <5>2, WindowFacts DEF HeldInv, Inv, CallPages
        <5> QED BY <1>1, <2>13, <5>1, <5>2 DEF Calls
      <4> QED BY <1>1, <2>8, <4>1, WindowFacts DEF HeapPage
    <3>3. \A q \in Pid, w \in HeapPage : map'[q][w] = map[q][w]
      BY <2>4, <2>6, <3>2
    <3>4. HeapOwned'
      BY <1>2, <3>3 DEF HeldInv, Ranges, HeapOwned
    <3>5. CapsOffHeap'
      BY <1>2, <3>3 DEF HeldInv, Ranges, CapsOffHeap, OffHeap, FramesOf
    <3>6. CallFrames'
      <4>1. OffHeap(map, Run(op.phys, op.pages))'
        <5>1. OffHeap(map, Run(op.phys, op.pages))
          BY <1>1, <2>13, <3>1 DEF HeldInv, CallFrames
        <5> QED BY <2>7, <3>3, <5>1 DEF OffHeap, Run
      <4>2. op.call = "frame" =>
               \A h \in handed : Run(op.phys, op.pages)' \cap Run(h.phys, h.pages)' = {}
        <5>1. op.call = "frame" =>
                 \A h \in handed : Run(op.phys, op.pages) \cap Run(h.phys, h.pages) = {}
          BY <1>1, <3>1 DEF HeldInv, CallFrames
        <5> QED BY <2>7, <5>1 DEF Run
      <4> QED BY <1>2, <2>7, <2>13, <4>1, <4>2 DEF CallFrames
    <3>7. CallDone'
      <4>1. ASSUME NEW i \in 0 .. op.done PROVE map'[p][op.va + i] = op.phys + i
        <5>1. CASE i = op.done
          BY <2>4, <2>8, <3>1, <5>1
        <5>2. CASE i # op.done
          <6>1. i \in 0 .. op.done - 1
            BY <1>1, <5>2
          <6>2. map[p][op.va + i] = op.phys + i
            BY <1>1, <2>1, <2>13, <6>1 DEF HeldInv, CallDone
          <6>3. op.va + i \in Page /\ op.phys + i # None
            BY <1>1, <2>8, <3>1, <6>1, WindowFacts DEF Page, None
          <6> QED BY <2>5, <6>2, <6>3
        <5> QED BY <5>1, <5>2
      <4>2. \A i \in 0 .. op'.done - 1 : map'[op'.p][op'.va + i] = op'.phys + i
        <5>1. (op.done + 1) - 1 = op.done
          BY <1>1
        <5> QED BY <2>1, <2>7, <4>1, <5>1
      <4> QED BY <2>7, <2>13, <4>2 DEF CallDone
    <3> QED BY <2>9, <2>10, <2>11, <3>4, <3>5, <3>6, <3>7 DEF Ranges
  <2> QED BY <2>12, <2>13
<1> QED BY <1>3, <1>4

(* Every step keeps what has been handed out. *)
LEMMA NextHeld == HeldInv /\ [Next]_vars => HeldInv'
<1> SUFFICES ASSUME HeldInv, [Next]_vars PROVE HeldInv'
  OBVIOUS
<1>0. Inv'
  BY NextInv DEF HeldInv
<1>goal. SUFFICES Ranges' /\ HeapMapped' /\ CallFrames' /\ CallDone'
  BY <1>0 DEF HeldInv
<1> DEFINE Goal == Ranges' /\ HeapMapped' /\ CallFrames' /\ CallDone'
<1>1. /\ \A n \in 1 .. MAX_PAGES : n \in Nat \ {0}
      /\ \A out \in OutOk : out \in BOOLEAN
      /\ SrcArgs \subseteq SlotArg /\ DstArgs \subseteq SlotArg /\ MAX \in SlotArg
  BY MemoryAssumption DEF SlotArg
<1>2. ASSUME NEW p \in Pid, NEW n \in 1 .. MAX_PAGES, NEW out \in OutOk,
             sys_dma_alloc(p, n, out)
      PROVE  Goal
  BY <1>1, <1>2, ChargeHeld DEF sys_dma_alloc
<1>3. ASSUME NEW p \in Pid, NEW n \in 1 .. MAX_PAGES, NEW slot \in DstArgs,
             NEW out \in OutOk, sys_frame_alloc(p, n, slot, out)
      PROVE  Goal
  BY <1>1, <1>3, ChargeHeld DEF sys_frame_alloc
<1>4. ASSUME NEW p \in Pid, NEW slot \in SrcArgs, NEW out \in OutOk,
             sys_map_frame(p, slot, out)
      PROVE  Goal
  BY <1>1, <1>4, MapFrameHeld
<1>5. ASSUME NEW p \in Pid, NEW n \in 1 .. MAX_PAGES, sbrk_grow(p, n) \/ sbrk_shrink(p, n)
      PROVE  Goal
  BY <1>1, <1>5, SbrkHeld
<1>6. CASE take_frames \/ heap_frame \/ heap_done \/ map_table \/ map_page \/ mapped
           \/ finish \/ fail
  BY <1>6, TakeHeld, HeapFrameHeld, HeapDoneHeld, MapTableHeld, MapPageHeld, MappedHeld,
     FinishHeld, FailHeld
<1>7. ASSUME NEW p \in Pid, NEW q \in Pid, NEW src \in SrcArgs, NEW dst \in DstArgs,
             delegate(p, q, src, dst)
      PROVE  Goal
  BY <1>7, DelegateHeld
<1>8. CASE UNCHANGED vars
  <2>1. UNCHANGED <<map, handed, heap_break, allocated, op>> /\ FrameCaps' = FrameCaps
    BY <1>8 DEF vars, FrameCaps
  <2>2. CallFrames' /\ CallDone'
    <3>1. CASE op = Idle
      BY <2>1, <3>1, IdleHeld
    <3>2. CASE op # Idle
      BY <2>1, <3>2, CallHeld DEF HeldInv, CallDone
    <3> QED BY <3>1, <3>2
  <2> QED BY <2>1, <2>2, QuietRanges, QuietHeaps DEF HeldInv
<1> QED BY <1>2, <1>3, <1>4, <1>5, <1>6, <1>7, <1>8 DEF Next

(* What a call has handed out stays usable, whatever calls of whatever     *)
(* process fail half-way afterwards: a range that DMA_ALLOC, FRAME_ALLOC   *)
(* or MAP_FRAME returned is mapped to its frames and they stay allocated,  *)
(* and the heap below the break is mapped to frames that are in no other   *)
(* heap page and in no such range (process.rs, sbrk; syscall.rs,           *)
(* map_shared), for any memory map and any windows.                        *)
THEOREM HandedOutIsKept == Spec => []HandedOutStays
<1>1. Init => HeldInv
  <2> SUFFICES ASSUME Init PROVE HeldInv
    OBVIOUS
  <2>1. Inv
    BY InitInv
  <2>2. handed = {} /\ op = Idle
    BY DEF Init
  <2>3. \A p \in Pid, v \in HeapPage : map[p][v] = None
    BY WindowFacts DEF Init, HeapPage, Page
  <2>4. HandedTypes /\ RangesBacked /\ HeapOwned
    BY <2>2, <2>3 DEF HandedTypes, RangesBacked, HeapOwned
  <2>5. CapsOffHeap
    <3>1. ASSUME NEW c \in FrameCaps PROVE None \notin FramesOf(c)
      <4>1. FramesOf(c) \subseteq Frame
        BY <2>1 DEF Inv, FrameCapsLive, AllocatorTypes
      <4> QED BY <4>1, FrameIsNat
    <3> QED BY <2>3, <3>1 DEF CapsOffHeap, OffHeap
  <2>6. HeapMapped
    BY WindowFacts DEF Init, HeapMapped
  <2>7. CallFrames /\ CallDone
    BY <2>2 DEF CallFrames, CallDone
  <2> QED BY <2>1, <2>4, <2>5, <2>6, <2>7 DEF HeldInv, Ranges
<1>2. HeldInv => HandedOutStays
  BY DEF HeldInv, Ranges, HandedOutStays
<1> QED BY <1>1, <1>2, NextHeld, PTL DEF Spec
-----------------------------------------------------------------------------
(* Sums over finite sets.                                                  *)

(* Induction over the subsets of a finite set: a family that has every     *)
(* subset whose smaller subsets it has, has them all.                      *)
LEMMA SubsetInduction ==
  ASSUME NEW S, IsFiniteSet(S), NEW G,
         \A T \in SUBSET S :
            (\A U \in SUBSET T : U # T => U \in G) => T \in G
  PROVE  \A T \in SUBSET S : T \in G
<1> DEFINE bad == {n \in Nat : \E T \in SUBSET S : T \notin G /\ Cardinality(T) = n}
<1>1. \A T \in SUBSET S : IsFiniteSet(T) /\ Cardinality(T) \in Nat
  BY FS_Subset, FS_CardinalityType
<1>2. SUFFICES ASSUME bad # {} PROVE FALSE
  BY <1>1
<1>3. PICK n \in bad : \A m \in bad : n <= m
  <2>1. bad \subseteq Nat
    OBVIOUS
  <2> HIDE DEF bad
  <2> QED
    BY <1>2, <2>1, MinIsLeast
<1>4. PICK T \in SUBSET S : T \notin G /\ Cardinality(T) = n
  BY <1>3
<1>5. ASSUME NEW U \in SUBSET T, U # T PROVE U \in G
  <2>1. Cardinality(U) < Cardinality(T) /\ U \in SUBSET S /\ Cardinality(U) \in Nat
    BY <1>1, <1>5, FS_Subset
  <2>2. Cardinality(U) \notin bad
    BY <1>1, <1>3, <1>4, <2>1
  <2> QED
    BY <2>1, <2>2
<1> QED
  BY <1>4, <1>5

(* The sum of a function over a set takes the elements one by one. *)
Pick(s) == CHOOSE x \in s : TRUE
IsSum(it, f, S) ==
  it = [s \in SUBSET S |-> IF s = {} THEN 0 ELSE f[Pick(s)] + it[s \ {Pick(s)}]]
Summing(f, S) == CHOOSE it : IsSum(it, f, S)

(* The library's sum is the value of that function at the whole set. *)
LEMMA SumIsSumming ==
  ASSUME NEW f, NEW S PROVE SumFunctionOnSet(f, S) = Summing(f, S)[S]
  BY DEF SumFunctionOnSet, FoldFunctionOnSet, MapThenFoldSet, Summing, IsSum, Pick

(* The element taken is one of the set. *)
LEMMA PickIn == ASSUME NEW s, s # {} PROVE Pick(s) \in s
  BY DEF Pick

(* There is such a function: the one for the sets of at most n elements    *)
(* gives the one for the sets of at most n + 1.                            *)
LEMMA SummingExists ==
  ASSUME NEW f, NEW S, IsFiniteSet(S)
  PROVE  IsSum(Summing(f, S), f, S)
<1> DEFINE D(n) == {s \in SUBSET S : Cardinality(s) <= n}
           Upto(it, n) == it = [s \in D(n) |-> IF s = {} THEN 0
                                               ELSE f[Pick(s)] + it[s \ {Pick(s)}]]
           bad == {n \in Nat : ~ \E it : Upto(it, n)}
<1>1. \A T \in SUBSET S : IsFiniteSet(T) /\ Cardinality(T) \in Nat
  BY FS_Subset, FS_CardinalityType
<1>fewer. ASSUME NEW s \in SUBSET S, s # {}
       PROVE  s \ {Pick(s)} \in SUBSET S /\ Cardinality(s \ {Pick(s)}) = Cardinality(s) - 1
  BY <1>1, <1>fewer, PickIn, FS_RemoveElement
<1>empty. ASSUME NEW s \in SUBSET S, Cardinality(s) <= 0 PROVE s = {}
  BY <1>1, <1>empty, FS_EmptySet
<1>2. \E it : Upto(it, 0)
  <2> DEFINE it == [s \in D(0) |-> 0]
  <2>1. Upto(it, 0)
    BY <1>empty
  <2> QED
    BY <2>1
<1>3. ASSUME NEW n \in Nat, NEW g, Upto(g, n) PROVE \E it : Upto(it, n + 1)
  <2> DEFINE h == [s \in D(n + 1) |-> IF s = {} THEN 0 ELSE f[Pick(s)] + g[s \ {Pick(s)}]]
  <2>1. \A s \in D(n) : s \in D(n + 1) /\ h[s] = g[s]
    <3>1. \A s \in D(n) : s \in D(n + 1)
      BY <1>1
    <3>2. \A s \in D(n) : g[s] = IF s = {} THEN 0 ELSE f[Pick(s)] + g[s \ {Pick(s)}]
      BY <1>3
    <3>3. \A s \in D(n + 1) : h[s] = IF s = {} THEN 0 ELSE f[Pick(s)] + g[s \ {Pick(s)}]
      OBVIOUS
    <3> HIDE DEF h, D
    <3> QED
      BY <3>1, <3>2, <3>3
  <2>2. \A s \in D(n + 1) : s # {} => s \ {Pick(s)} \in D(n)
    BY <1>1, <1>fewer
  <2>3. \A s \in D(n + 1) : s # {} => h[s \ {Pick(s)}] = g[s \ {Pick(s)}]
    BY <2>1, <2>2
  <2>4. Upto(h, n + 1)
    <3> DEFINE k == [s \in D(n + 1) |-> IF s = {} THEN 0 ELSE f[Pick(s)] + h[s \ {Pick(s)}]]
    <3>1. \A s \in D(n + 1) : h[s] = k[s]
      BY <2>3
    <3>2. h = k
      BY <3>1
    <3> QED
      BY <3>2
  <2> QED
    BY <2>4
<1>4. \A n \in Nat : \E it : Upto(it, n)
  <2> SUFFICES ASSUME bad # {} PROVE FALSE
    OBVIOUS
  <2>1. bad \subseteq Nat
    OBVIOUS
  <2>2. PICK n \in bad : \A m \in bad : n <= m
    <3> HIDE DEF bad
    <3> QED
      BY <2>1, MinIsLeast
  <2>3. n # 0 /\ n \in Nat
    <3> HIDE DEF Upto
    <3> QED
      BY <1>2, <2>2
  <2>4. n - 1 \in Nat /\ n - 1 \notin bad
    <3> HIDE DEF bad
    <3> QED
      BY <2>2, <2>3
  <2>5. PICK g : Upto(g, n - 1)
    BY <2>4
  <2>6. \E it : Upto(it, (n - 1) + 1)
    <3> HIDE DEF Upto
    <3> QED
      BY <1>3, <2>4, <2>5
  <2>7. (n - 1) + 1 = n
    BY <2>3
  <2> QED
    <3> HIDE DEF Upto
    <3>1. n \notin bad
      BY <2>6, <2>7
    <3> QED
      BY <2>2, <3>1
<1>5. PICK it : Upto(it, Cardinality(S))
  BY <1>1, <1>4
<1>6. D(Cardinality(S)) = SUBSET S
  BY <1>1, FS_Subset
<1>7. IsSum(it, f, S)
  BY <1>5, <1>6 DEF IsSum
<1> QED
  BY <1>7 DEF Summing

(* The sums of functions that agree on a set agree on it. *)
LEMMA SumsAgree ==
  ASSUME NEW T, IsFiniteSet(T), NEW f, NEW g, \A x \in T : f[x] = g[x],
         NEW A, NEW B, T \subseteq A, T \subseteq B,
         NEW a, NEW b, IsSum(a, f, A), IsSum(b, g, B)
  PROVE  a[T] = b[T]
<1> DEFINE G == {s \in SUBSET T : a[s] = b[s]}
<1>1. ASSUME NEW s \in SUBSET T, \A u \in SUBSET s : u # s => u \in G PROVE s \in G
  <2>1. /\ a[s] = IF s = {} THEN 0 ELSE f[Pick(s)] + a[s \ {Pick(s)}]
        /\ b[s] = IF s = {} THEN 0 ELSE g[Pick(s)] + b[s \ {Pick(s)}]
    <3>1. s \in SUBSET A /\ s \in SUBSET B
      OBVIOUS
    <3> QED
      BY <3>1 DEF IsSum
  <2>2. CASE s = {}
    BY <2>1, <2>2
  <2>3. CASE s # {}
    <3>1. Pick(s) \in s
      BY <2>3, PickIn
    <3>2. s \ {Pick(s)} \in G
      BY <1>1, <3>1
    <3> QED
      BY <2>1, <2>3, <3>1, <3>2
  <2> QED
    BY <2>2, <2>3
<1>2. \A s \in SUBSET T : s \in G
  <2> HIDE DEF G
  <2> QED
    BY <1>1, SubsetInduction
<1> QED
  BY <1>2

(* A sum of naturals is a natural, and any element can be the first. *)
LEMMA AnyFirst ==
  ASSUME NEW T, IsFiniteSet(T), NEW f, \A x \in T : f[x] \in Nat,
         NEW a, IsSum(a, f, T)
  PROVE  a[T] \in Nat /\ \A x \in T : a[T] = f[x] + a[T \ {x}] /\ a[T \ {x}] \in Nat
<1> DEFINE G == {s \in SUBSET T : a[s] \in Nat /\ \A x \in s : a[s] = f[x] + a[s \ {x}]}
<1>1. ASSUME NEW s \in SUBSET T, \A u \in SUBSET s : u # s => u \in G PROVE s \in G
  <2>1. a[s] = IF s = {} THEN 0 ELSE f[Pick(s)] + a[s \ {Pick(s)}]
    BY DEF IsSum
  <2>2. CASE s = {}
    BY <2>1, <2>2
  <2>3. CASE s # {}
    <3> DEFINE c == Pick(s)
    <3>1. c \in s
      BY <2>3, PickIn
    <3>2. a[s] = f[c] + a[s \ {c}]
      BY <2>1, <2>3
    <3> HIDE DEF c
    <3>3. a[s \ {c}] \in Nat /\ f[c] \in Nat
      BY <1>1, <3>1
    <3>4. ASSUME NEW x \in s, x # c PROVE a[s] = f[x] + a[s \ {x}]
      <4>1. a[s \ {c}] = f[x] + a[(s \ {c}) \ {x}]
        BY <1>1, <3>1, <3>4
      <4>2. a[s \ {x}] = f[c] + a[(s \ {x}) \ {c}]
        BY <1>1, <3>1, <3>4
      <4>3. (s \ {c}) \ {x} = (s \ {x}) \ {c}
        OBVIOUS
      <4>4. a[(s \ {x}) \ {c}] \in Nat /\ f[x] \in Nat
        <5>1. (s \ {x}) \ {c} \in SUBSET s /\ (s \ {x}) \ {c} # s
          BY <3>1
        <5> QED
          BY <1>1, <5>1
      <4> DEFINE rest == a[(s \ {x}) \ {c}]
      <4>5. a[s \ {c}] = f[x] + rest /\ a[s \ {x}] = f[c] + rest /\ rest \in Nat
        BY <4>1, <4>2, <4>3, <4>4
      <4> HIDE DEF rest
      <4> QED
        BY <3>2, <3>3, <4>4, <4>5
    <3>5. a[s] \in Nat
      BY <3>2, <3>3
    <3>6. \A x \in s : a[s] = f[x] + a[s \ {x}]
      BY <3>2, <3>4
    <3> QED
      BY <3>5, <3>6
  <2> QED
    BY <2>2, <2>3
<1>2. \A s \in SUBSET T : s \in G
  <2> HIDE DEF G
  <2> QED
    BY <1>1, SubsetInduction
<1>3. T \in G /\ \A x \in T : T \ {x} \in G
  BY <1>2
<1> QED
  BY <1>3

(* A sum over a finite set depends on the values in the set only. *)
LEMMA SumSame ==
  ASSUME NEW T, IsFiniteSet(T), NEW f, NEW g, \A x \in T : f[x] = g[x]
  PROVE  SumFunctionOnSet(f, T) = SumFunctionOnSet(g, T)
  BY SumIsSumming, SummingExists, SumsAgree

(* The sum over nothing is zero. *)
LEMMA SumEmpty == ASSUME NEW f PROVE SumFunctionOnSet(f, {}) = 0
<1>1. IsSum(Summing(f, {}), f, {})
  BY SummingExists, FS_EmptySet
<1>2. Summing(f, {})[{}] = 0
  BY <1>1 DEF IsSum
<1> QED
  BY <1>2, SumIsSumming

(* A sum of naturals is a natural, and any element can be taken out of it. *)
LEMMA SumTake ==
  ASSUME NEW T, IsFiniteSet(T), NEW f, \A x \in T : f[x] \in Nat
  PROVE  /\ SumFunctionOnSet(f, T) \in Nat
         /\ \A x \in T : /\ SumFunctionOnSet(f, T \ {x}) \in Nat
                         /\ SumFunctionOnSet(f, T) = f[x] + SumFunctionOnSet(f, T \ {x})
<1> DEFINE a == Summing(f, T)
<1>1. IsSum(a, f, T) /\ SumFunctionOnSet(f, T) = a[T]
  BY SummingExists, SumIsSumming
<1>2. ASSUME NEW x \in T PROVE SumFunctionOnSet(f, T \ {x}) = a[T \ {x}]
  <2>1. IsFiniteSet(T \ {x})
    BY FS_RemoveElement
  <2>2. IsSum(Summing(f, T \ {x}), f, T \ {x})
    BY <2>1, SummingExists
  <2>3. Summing(f, T \ {x})[T \ {x}] = a[T \ {x}]
    <3> HIDE DEF a
    <3>1. T \ {x} \subseteq T /\ T \ {x} \subseteq T \ {x}
      OBVIOUS
    <3> QED
      BY <1>1, <2>1, <2>2, <3>1, SumsAgree
  <2> QED
    BY <2>3, SumIsSumming
<1> HIDE DEF a
<1>3. a[T] \in Nat /\ \A x \in T : a[T] = f[x] + a[T \ {x}] /\ a[T \ {x}] \in Nat
  BY <1>1, AnyFirst
<1> QED
  BY <1>1, <1>2, <1>3

(* Changing one value changes the sum by as much. *)
LEMMA SumChange ==
  ASSUME NEW T, IsFiniteSet(T), NEW f, NEW g, NEW x \in T,
         \A y \in T : f[y] \in Nat /\ g[y] \in Nat,
         \A y \in T : y # x => f[y] = g[y]
  PROVE  \E rest \in Nat : /\ SumFunctionOnSet(f, T) = f[x] + rest
                           /\ SumFunctionOnSet(g, T) = g[x] + rest
<1>1. SumFunctionOnSet(f, T \ {x}) = SumFunctionOnSet(g, T \ {x})
  <2>1. IsFiniteSet(T \ {x})
    BY FS_RemoveElement
  <2> QED
    BY <2>1, SumSame
<1>2. /\ SumFunctionOnSet(f, T) = f[x] + SumFunctionOnSet(f, T \ {x})
      /\ SumFunctionOnSet(g, T) = g[x] + SumFunctionOnSet(g, T \ {x})
      /\ SumFunctionOnSet(f, T \ {x}) \in Nat
  BY SumTake
<1> QED
  BY <1>1, <1>2

(* A sum of zeros is zero. *)
LEMMA SumZero ==
  ASSUME NEW T, IsFiniteSet(T), NEW f, \A x \in T : f[x] = 0
  PROVE  SumFunctionOnSet(f, T) = 0
<1> DEFINE a == Summing(f, T)
           G == {s \in SUBSET T : a[s] = 0}
<1>1. IsSum(a, f, T) /\ SumFunctionOnSet(f, T) = a[T]
  BY SummingExists, SumIsSumming
<1> HIDE DEF a
<1>2. ASSUME NEW s \in SUBSET T, \A u \in SUBSET s : u # s => u \in G PROVE s \in G
  <2>1. a[s] = IF s = {} THEN 0 ELSE f[Pick(s)] + a[s \ {Pick(s)}]
    BY <1>1 DEF IsSum
  <2>2. s # {} => f[Pick(s)] = 0 /\ a[s \ {Pick(s)}] = 0
    BY <1>2, PickIn
  <2>3. a[s] = 0
    BY <2>1, <2>2
  <2> QED
    BY <2>3
<1>3. \A s \in SUBSET T : s \in G
  <2> HIDE DEF G
  <2> QED
    BY <1>2, SubsetInduction
<1> QED
  BY <1>1, <1>3
-----------------------------------------------------------------------------
(* Budgets.                                                                *)

BudgetOf(cn) == SumFunctionOnSet([i \in Slot |-> cn[i].object], UntypedSlots(cn))
BudgetsOf(cs) == SumFunctionOnSet([p \in Pid |-> BudgetOf(cs[p])], Pid)

(* The sums of the model are these. *)
LEMMA BudgetsAre == Budgets = BudgetsOf(caps)
  BY DEF Budgets, Budget, BudgetsOf, BudgetOf, SumFunction

(* There are finitely many slots and processes, and a budget is a natural. *)
LEMMA BudgetType ==
  ASSUME NEW cn \in CNode
  PROVE  /\ IsFiniteSet(UntypedSlots(cn)) /\ IsFiniteSet(Pid) /\ BudgetOf(cn) \in Nat
         /\ \A i \in UntypedSlots(cn) : i \in Slot /\ cn[i].object \in Nat
<1>1. IsFiniteSet(Slot) /\ IsFiniteSet(Pid)
  <2>1. 0 \in Int /\ CAP_SLOTS - 1 \in Int /\ NUM_PROCS - 1 \in Int
    BY CapAssumption, MemoryAssumption
  <2>2. IsFiniteSet(0 .. CAP_SLOTS - 1) /\ IsFiniteSet(0 .. NUM_PROCS - 1)
    BY ONLY <2>1, FS_Interval, Zenon
  <2> QED
    BY <2>2 DEF Slot, Pid
<1>2. IsFiniteSet(UntypedSlots(cn))
  BY <1>1, FS_Subset DEF UntypedSlots
<1>3. \A i \in UntypedSlots(cn) : i \in Slot /\ cn[i].object \in Nat
  BY DEF UntypedSlots, CNode, CapEntry
<1>4. BudgetOf(cn) \in Nat
  BY <1>2, <1>3, SumTake DEF BudgetOf
<1> QED
  BY <1>1, <1>2, <1>3, <1>4

(* Changing the budget of one Untyped capability. *)
LEMMA BudgetChange ==
  ASSUME NEW cn \in CNode, NEW i \in UntypedSlots(cn), NEW v \in Nat,
         NEW new, new = [cn EXCEPT ![i].object = v]
  PROVE  /\ UntypedSlots(new) = UntypedSlots(cn)
         /\ BudgetOf(new) = BudgetOf(cn) - cn[i].object + v
<1>f. PICK f : f = [j \in Slot |-> cn[j].object]
  OBVIOUS
<1>g. PICK g : g = [j \in Slot |-> new[j].object]
  OBVIOUS
<1>t. PICK T : T = UntypedSlots(cn)
  OBVIOUS
<1>1. i \in Slot /\ cn[i] \in CapEntry /\ cn[i].object \in Nat
  BY BudgetType DEF UntypedSlots, CNode
<1>2. new = [cn EXCEPT ![i] = [cn[i] EXCEPT !.object = v]]
  OBVIOUS
<1>3. /\ [cn[i] EXCEPT !.object = v].type = cn[i].type
      /\ [cn[i] EXCEPT !.object = v].object = v
  BY <1>1 DEF CapEntry
<1>4. \A j \in Slot : new[j].type = cn[j].type /\ (j # i => new[j] = cn[j])
  BY <1>1, <1>2, <1>3 DEF CNode
<1>5. new[i].object = v
  BY <1>1, <1>2, <1>3 DEF CNode
<1>6. UntypedSlots(new) = T
  BY <1>4, <1>t DEF UntypedSlots
<1>7. /\ \A j \in T : f[j] \in Nat /\ g[j] \in Nat
      /\ \A j \in T : j # i => f[j] = g[j]
      /\ f[i] = cn[i].object /\ g[i] = v
  BY <1>1, <1>4, <1>5, <1>f, <1>g, <1>t, BudgetType
<1>8. IsFiniteSet(T) /\ i \in T
  BY <1>t, BudgetType
<1>9. PICK rest \in Nat : /\ SumFunctionOnSet(f, T) = f[i] + rest
                         /\ SumFunctionOnSet(g, T) = g[i] + rest
  <2>1. \A j \in T : f[j] \in Nat /\ g[j] \in Nat
    BY <1>7
  <2>2. \A j \in T : j # i => f[j] = g[j]
    BY <1>7
  <2> QED
    BY ONLY <1>8, <2>1, <2>2, SumChange
<1>10. BudgetOf(new) = SumFunctionOnSet(g, T) /\ BudgetOf(cn) = SumFunctionOnSet(f, T)
  BY <1>6, <1>f, <1>g, <1>t DEF BudgetOf
<1>11. BudgetOf(new) = BudgetOf(cn) - cn[i].object + v
  BY <1>1, <1>7, <1>9, <1>10
<1> QED
  BY <1>6, <1>11, <1>t

(* charge_untyped takes what was asked for from the table's budget. *)
LEMMA ChargePays ==
  ASSUME NEW cn \in CNode, NEW n \in Nat, charge_ok(cn, n)
  PROVE  /\ UntypedSlots(charge_untyped(cn, n)) = UntypedSlots(cn) /\ UntypedSlots(cn) # {}
         /\ BudgetOf(charge_untyped(cn, n)) = BudgetOf(cn) - n
<1> DEFINE payers == {j \in UntypedSlots(cn) : cn[j].object >= n}
           i == Min(payers)
<1>1. payers # {} /\ payers \subseteq Nat
  BY CapAssumption DEF charge_ok, UntypedSlots, Slot
<1>2. i \in payers
  BY <1>1, MinIsLeast
<1>3. charge_untyped(cn, n) = [cn EXCEPT ![i].object = cn[i].object - n]
  BY DEF charge_untyped
<1> HIDE DEF i
<1>4. i \in UntypedSlots(cn) /\ cn[i].object \in Nat /\ cn[i].object - n \in Nat
  BY <1>2, BudgetType
<1>5. BudgetOf(cn) \in Nat
  BY BudgetType
<1>6. PICK v \in Nat : v = cn[i].object - n
  BY <1>4
<1>7. PICK new : new = charge_untyped(cn, n)
  OBVIOUS
<1>8. new = [cn EXCEPT ![i].object = v]
  BY <1>3, <1>6, <1>7
<1>9. UntypedSlots(new) = UntypedSlots(cn) /\ BudgetOf(new) = BudgetOf(cn) - cn[i].object + v
  <2>1. i \in UntypedSlots(cn)
    BY <1>4
  <2> HIDE DEF payers
  <2>2. UntypedSlots(new) = UntypedSlots(cn)
    BY <1>8, <2>1, BudgetChange, ZenonT(60)
  <2>3. BudgetOf(new) = BudgetOf(cn) - cn[i].object + v
    BY <1>8, <2>1, BudgetChange
  <2> QED
    BY <2>2, <2>3
<1> QED
  BY <1>4, <1>5, <1>6, <1>7, <1>9

(* refund_untyped gives it back, to whichever Untyped capability is first. *)
LEMMA RefundPays ==
  ASSUME NEW cn \in CNode, NEW n \in Nat, UntypedSlots(cn) # {}
  PROVE  BudgetOf(refund_untyped(cn, n)) = BudgetOf(cn) + n
<1> DEFINE i == Min(UntypedSlots(cn))
<1>1. UntypedSlots(cn) \subseteq Nat
  BY CapAssumption DEF UntypedSlots, Slot
<1>2. i \in UntypedSlots(cn)
  BY <1>1, MinIsLeast
<1>3. refund_untyped(cn, n) = [cn EXCEPT ![i].object = cn[i].object + n]
  BY DEF refund_untyped
<1> HIDE DEF i
<1>4. cn[i].object \in Nat /\ cn[i].object + n \in Nat /\ BudgetOf(cn) \in Nat
  BY <1>2, BudgetType
<1>5. PICK v \in Nat : v = cn[i].object + n
  BY <1>4
<1>6. PICK new : new = refund_untyped(cn, n)
  OBVIOUS
<1>7. new = [cn EXCEPT ![i].object = v]
  BY <1>3, <1>5, <1>6
<1>8. BudgetOf(new) = BudgetOf(cn) - cn[i].object + v
  BY <1>2, <1>7, BudgetChange, ZenonT(60)
<1> QED
  BY <1>4, <1>5, <1>6, <1>8

(* Installing a capability in an empty slot adds its budget, if any. *)
LEMMA InsertPays ==
  ASSUME NEW cn \in CNode, NEW k, insert_ok(cn, k), NEW cap \in CapEntry
  PROVE  BudgetOf(insert(cn, k, cap)) =
            BudgetOf(cn) + (IF cap.type = "Untyped" THEN cap.object ELSE 0)
<1> DEFINE new == insert(cn, k, cap)
           f == [j \in Slot |-> cn[j].object]
           g == [j \in Slot |-> new[j].object]
           T == UntypedSlots(cn)
<1>1. k \in Slot /\ cn[k].type = "None"
  BY DEF insert_ok, NoCap, Cap
<1>2. new = [cn EXCEPT ![k] = cap]
  BY DEF insert
<1> HIDE DEF new
<1>3. new \in CNode /\ new[k] = cap /\ \A j \in Slot : j # k => new[j] = cn[j]
  BY <1>1, <1>2 DEF CNode
<1>4. k \notin T /\ \A j \in T : j \in Slot /\ f[j] = g[j] /\ g[j] \in Nat
  BY <1>1, <1>3, BudgetType DEF UntypedSlots
<1>5. IsFiniteSet(T) /\ BudgetOf(cn) = SumFunctionOnSet(f, T) /\ BudgetOf(cn) \in Nat
  BY BudgetType DEF BudgetOf
<1>6. SumFunctionOnSet(g, T) = BudgetOf(cn)
  <2> HIDE DEF f, g, T
  <2> QED
    BY <1>4, <1>5, SumSame
<1>7. CASE cap.type = "Untyped"
  <2>1. UntypedSlots(new) = T \cup {k}
    BY <1>1, <1>3, <1>7 DEF UntypedSlots
  <2>2. IsFiniteSet(T \cup {k}) /\ \A j \in T \cup {k} : g[j] \in Nat
    BY <1>3, <2>1, BudgetType
  <2>3. g[k] = cap.object /\ cap.object \in Nat
    BY <1>1, <1>3 DEF CapEntry
  <2>4. BudgetOf(new) = SumFunctionOnSet(g, T \cup {k})
    BY <2>1 DEF BudgetOf
  <2> HIDE DEF f, g, T
  <2>5. (T \cup {k}) \ {k} = T
    BY <1>4
  <2>6. SumFunctionOnSet(g, T \cup {k}) = g[k] + SumFunctionOnSet(g, T)
    BY <2>2, <2>5, SumTake
  <2> QED
    BY <1>5, <1>6, <1>7, <2>3, <2>4, <2>6 DEF new
<1>8. CASE cap.type # "Untyped"
  <2>1. UntypedSlots(new) = T
    BY <1>1, <1>3, <1>8 DEF UntypedSlots
  <2>2. BudgetOf(new) = SumFunctionOnSet(g, T)
    BY <2>1 DEF BudgetOf
  <2> QED
    BY <1>5, <1>6, <1>8, <2>2 DEF new
<1> QED
  BY <1>7, <1>8

(* A change of one table changes the sum by what its budget changed. *)
LEMMA BudgetsChange ==
  ASSUME NEW cs \in [Pid -> CNode], NEW p \in Pid, NEW cn \in CNode
  PROVE  /\ BudgetsOf(cs) \in Nat
         /\ BudgetsOf([cs EXCEPT ![p] = cn]) = BudgetsOf(cs) - BudgetOf(cs[p]) + BudgetOf(cn)
<1> DEFINE new == [cs EXCEPT ![p] = cn]
           f == [q \in Pid |-> BudgetOf(cs[q])]
           g == [q \in Pid |-> BudgetOf(new[q])]
<1>1. new \in [Pid -> CNode] /\ new[p] = cn /\ \A q \in Pid : q # p => new[q] = cs[q]
  OBVIOUS
<1> HIDE DEF new
<1>2. /\ \A q \in Pid : f[q] \in Nat /\ g[q] \in Nat
      /\ \A q \in Pid : q # p => f[q] = g[q]
      /\ f[p] = BudgetOf(cs[p]) /\ g[p] = BudgetOf(cn)
  BY <1>1, BudgetType
<1>3. IsFiniteSet(Pid) /\ BudgetsOf(cs) = SumFunctionOnSet(f, Pid)
      /\ BudgetsOf(new) = SumFunctionOnSet(g, Pid)
  BY BudgetType DEF BudgetsOf
<1> HIDE DEF f, g
<1>4. PICK rest \in Nat : /\ SumFunctionOnSet(f, Pid) = f[p] + rest
                         /\ SumFunctionOnSet(g, Pid) = g[p] + rest
  BY <1>2, <1>3, SumChange
<1>5. SumFunctionOnSet(f, Pid) \in Nat
  BY <1>2, <1>3, SumTake
<1> QED
  BY <1>2, <1>3, <1>4, <1>5 DEF new

(* The budgets of the initial tables add up to the root task's. *)
LEMMA SeedBudgets ==
  ASSUME caps = [p \in Pid |-> seed_caps(p)]
  PROVE  BudgetsOf(caps) = DMA_BUDGET
<1>1. ASSUME NEW p \in Pid, p # 0 PROVE BudgetOf(seed_caps(p)) = 0
  <2>1. UntypedSlots(seed_caps(p)) = {}
    <3>1. \A i \in Slot : seed_caps(p)[i].type # "Untyped"
      BY <1>1 DEF seed_caps, Cap, NoCap
    <3> QED
      BY <3>1 DEF UntypedSlots
  <2> QED
    BY <2>1, SumEmpty DEF BudgetOf
<1>2. BudgetOf(seed_caps(0)) = DMA_BUDGET
  <2> DEFINE f == [i \in Slot |-> seed_caps(0)[i].object]
  <2>1. 2 \in Slot /\ DMA_BUDGET \in Nat
    BY CapAssumption DEF Slot
  <2>2. seed_caps(0)[2] = Cap("Untyped", DMA_BUDGET)
    BY <2>1 DEF seed_caps, EP_SLOT, REPLY_EP_SLOT, NOTIF_SLOT
  <2>3. \A i \in Slot : i # 2 => seed_caps(0)[i].type # "Untyped"
    BY DEF seed_caps, Cap, NoCap
  <2>4. UntypedSlots(seed_caps(0)) = {2}
    BY <2>1, <2>2, <2>3 DEF UntypedSlots, Cap
  <2>5. f[2] = DMA_BUDGET
    BY <2>1, <2>2 DEF Cap
  <2>6. IsFiniteSet({2}) /\ {2} \ {2} = {}
    BY FS_Singleton
  <2> HIDE DEF f
  <2>7. SumFunctionOnSet(f, {2}) = f[2] + SumFunctionOnSet(f, {2} \ {2})
    BY <2>1, <2>5, <2>6, SumTake
  <2>8. SumFunctionOnSet(f, {}) = 0
    BY SumEmpty
  <2>9. SumFunctionOnSet(f, {2}) = DMA_BUDGET
    BY <2>1, <2>5, <2>6, <2>7, <2>8
  <2> QED
    BY <2>4, <2>9 DEF BudgetOf, f
<1>3. 0 \in Pid /\ DMA_BUDGET \in Nat /\ IsFiniteSet(Pid)
  <2>1. 0 \in Pid /\ DMA_BUDGET \in Nat
    BY CapAssumption, MemoryAssumption DEF Pid
  <2> QED
    BY <2>1, SeedCaps, BudgetType
<1>4. PICK f : f = [p \in Pid |-> BudgetOf(caps[p])]
  OBVIOUS
<1>5. f[0] = DMA_BUDGET /\ \A p \in Pid : p # 0 => f[p] = 0
  BY <1>1, <1>2, <1>3, <1>4
<1>6. SumFunctionOnSet(f, Pid) = f[0] + SumFunctionOnSet(f, Pid \ {0})
  <2>1. \A p \in Pid : f[p] \in Nat
    BY <1>3, <1>5
  <2> QED
    BY <1>3, <2>1, SumTake
<1>7. SumFunctionOnSet(f, Pid \ {0}) = 0
  <2>1. IsFiniteSet(Pid \ {0})
    BY <1>3, FS_RemoveElement
  <2>2. \A p \in Pid \ {0} : f[p] = 0
    BY <1>5
  <2> QED
    BY ONLY <2>1, <2>2, SumZero
<1> QED
  BY <1>3, <1>4, <1>5, <1>6, <1>7 DEF BudgetsOf

(* A call that has paid finds an Untyped capability for the refund. *)
Paying == op # Idle /\ op.call \in {"dma", "frame"}
Refundable == Paying => UntypedSlots(caps[op.p]) # {}
BudgetInv == Inv /\ Refundable /\ BudgetConserved

(* What a step of the tables does to the sum, against what the call, the   *)
(* grants and the copies account for. *)
LEMMA Accounts ==
  ASSUME BudgetInv, NEW p \in Pid, NEW cn \in CNode, caps' = [caps EXCEPT ![p] = cn],
         NEW d \in Int, BudgetOf(cn) = BudgetOf(caps[p]) + d,
         granted' \in Nat, minted' \in Nat, Charged' \in Nat,
         d + granted' + Charged' - minted' = granted + Charged - minted
  PROVE  BudgetConserved'
<1>1. /\ caps \in [Pid -> CNode] /\ granted \in Nat /\ minted \in Nat
      /\ CallTypes /\ BudgetConserved
  BY DEF BudgetInv, Inv
<1>2. Charged \in Nat
  BY <1>1 DEF Charged, CallTypes, Calls
<1>3. Budgets = BudgetsOf(caps) /\ Budgets' = BudgetsOf(caps')
  BY BudgetsAre DEF Budgets, Budget, BudgetsOf, BudgetOf, SumFunction
<1>4. BudgetsOf(caps) \in Nat /\ BudgetOf(caps[p]) \in Nat
  BY <1>1, BudgetsChange, BudgetType
<1>5. BudgetsOf(caps') = BudgetsOf(caps) - BudgetOf(caps[p]) + BudgetOf(cn)
  BY <1>1, BudgetsChange
<1>6. BudgetsOf(caps') = BudgetsOf(caps) + d
  BY <1>4, <1>5
<1>7. BudgetsOf(caps) + granted + Charged = minted
  BY <1>1, <1>3 DEF BudgetConserved
<1>8. BudgetsOf(caps') + granted' + Charged' = minted'
  <2>1. PICK s \in Nat : s = BudgetsOf(caps)
    BY <1>4
  <2>2. PICK g, h, m, n \in Nat : g = granted /\ h = granted' /\ m = minted /\ n = minted'
    BY <1>1
  <2>3. PICK c, e \in Nat : c = Charged /\ e = Charged'
    BY <1>2
  <2>4. s + g + c = m
    BY <1>7, <2>1, <2>2, <2>3
  <2>5. d + h + e - n = g + c - m
    BY <2>2, <2>3
  <2>6. s + d + h + e = n
    BY ONLY <2>4, <2>5
  <2> QED
    BY <1>6, <2>1, <2>2, <2>3, <2>6
<1> QED
  BY <1>3, <1>8 DEF BudgetConserved

(* A step that touches no table, grants and copies nothing, and leaves the *)
(* price of the call. *)
LEMMA QuietAccounts ==
  ASSUME BudgetInv, caps' = caps, granted' = granted, minted' = minted, Charged' = Charged
  PROVE  BudgetConserved'
<1>1. Budgets' = Budgets
  BY DEF Budgets, Budget, SumFunction
<1> QED
  BY <1>1 DEF BudgetInv, BudgetConserved

(* A step inside a call: what it asked for stays. *)
LEMMA CallGoesOn ==
  ASSUME op \in Calls, op'.call = op.call, op'.pages = op.pages, op'.p = op.p, caps' = caps
  PROVE  op' # Idle /\ Charged' = Charged /\ (Refundable => Refundable')
<1>1. op # Idle /\ op' # Idle
  BY DEF Calls, Idle
<1> QED
  BY <1>1 DEF Charged, Refundable, Paying

(* A call that pays nothing begins or ends. *)
LEMMA NoPayment ==
  ASSUME ~Paying, ~Paying' PROVE Charged' = Charged /\ Refundable'
  BY DEF Paying, Charged, Refundable

(* DMA_ALLOC and FRAME_ALLOC pay first. *)
LEMMA ChargeBudget ==
  ASSUME BudgetInv, NEW name \in {"dma", "frame"}, NEW p \in Pid, NEW n \in Nat, NEW slot,
         NEW out, charge(name, p, n, slot, out)
  PROVE  Refundable' /\ BudgetConserved'
<1> DEFINE cn == charge_untyped(caps[p], n)
<1>1. /\ op = Idle /\ charge_ok(caps[p], n) /\ caps' = [caps EXCEPT ![p] = cn]
      /\ op' = Call(name, "take", p, n, slot, out) /\ granted' = granted /\ minted' = minted
  BY DEF charge, ghosts
<1>2. caps \in [Pid -> CNode] /\ granted \in Nat /\ minted \in Nat /\ caps[p] \in CNode
  BY DEF BudgetInv, Inv
<1>3. cn \in CNode /\ UntypedSlots(cn) # {} /\ BudgetOf(cn) = BudgetOf(caps[p]) - n
  BY <1>1, <1>2, ChargeKeeps, ChargePays
<1>4. /\ op'.call = name /\ op'.pages = n /\ op'.p = p /\ op' # Idle
  BY <1>1 DEF Call, Idle
<1>5. Charged = 0 /\ Charged' = n
  BY <1>1, <1>4 DEF Charged
<1> HIDE DEF cn
<1>6. Refundable'
  <2>1. caps'[p] = cn
    BY <1>1, <1>2
  <2> QED
    BY <1>3, <1>4, <2>1 DEF Refundable
<1>7. BudgetConserved'
  <2>1. PICK d \in Int : d = -n
    OBVIOUS
  <2>2. BudgetOf(cn) = BudgetOf(caps[p]) + d
    BY <1>2, <1>3, <2>1, BudgetType
  <2>3. granted' \in Nat /\ minted' \in Nat /\ Charged' \in Nat
    BY <1>1, <1>2, <1>5
  <2>4. d + granted' + Charged' - minted' = granted + Charged - minted
    BY <1>1, <1>2, <1>5, <2>1
  <2> QED
    BY <1>1, <1>3, <2>2, <2>3, <2>4, Accounts
<1> QED
  BY <1>6, <1>7

(* A call that succeeds keeps what it paid; its Frame capability is no     *)
(* budget. *)
LEMMA FinishBudget ==
  ASSUME BudgetInv, finish PROVE Refundable' /\ BudgetConserved'
<1>1. /\ op # Idle /\ op \in Calls /\ op.p \in Pid /\ op.pages \in Nat
      /\ op.phys \in Frame \cup {None}
  BY InCall DEF BudgetInv, Inv, finish
<1>2. /\ caps \in [Pid -> CNode] /\ granted \in Nat /\ minted \in Nat
      /\ CallHolds /\ CallTypes /\ op.step = "finish" /\ minted' = minted
      /\ Refundable /\ BudgetConserved
  BY InCall DEF BudgetInv, Inv, finish
<1>3. CASE op.call = "frame" /\ ~insert_ok(caps[op.p], op.slot)
  <2>1. op' = [op EXCEPT !.step = "fail"] /\ caps' = caps /\ granted' = granted
    BY <1>3 DEF finish
  <2>2. op'.call = op.call /\ op'.pages = op.pages /\ op'.p = op.p
    BY <1>1, <2>1 DEF Calls
  <2> QED
    BY <1>1, <1>2, <2>1, <2>2, CallGoesOn, QuietAccounts
<1>4. CASE ~(op.call = "frame" /\ ~insert_ok(caps[op.p], op.slot))
  <2>1. /\ op' = Idle
        /\ caps' = IF op.call = "frame"
                     THEN [caps EXCEPT ![op.p] = insert(@, op.slot, frame_cap)] ELSE caps
        /\ granted' = IF op.call = "map" THEN granted ELSE granted + op.pages
    BY <1>4 DEF finish
  <2>2. Refundable' /\ Charged' = 0
    BY <2>1 DEF Refundable, Paying, Charged
  <2>3. CASE op.call = "map"
    <3>1. Charged = 0
      BY <2>3 DEF Charged
    <3> QED
      BY <1>2, <2>1, <2>2, <2>3, <3>1, QuietAccounts
  <2>4. CASE op.call \in {"dma", "frame"}
    <3>1. Charged = op.pages /\ granted' = granted + op.pages
      BY <1>1, <2>1, <2>4 DEF Charged
    <3>2. PICK p \in Pid : p = op.p
      BY <1>1
    <3>3. PICK cn \in CNode : caps' = [caps EXCEPT ![p] = cn]
                              /\ BudgetOf(cn) = BudgetOf(caps[p]) + 0
      <4>1. caps[p] \in CNode /\ BudgetOf(caps[p]) \in Nat
        BY <1>2, BudgetType
      <4>2. CASE op.call = "dma"
        <5>1. PICK cn \in CNode : cn = caps[p]
          BY <4>1
        <5>2. caps' = [caps EXCEPT ![p] = cn]
          BY <1>2, <2>1, <4>2, <5>1
        <5>3. BudgetOf(cn) = BudgetOf(caps[p]) + 0
          BY <4>1, <5>1
        <5> QED
          BY <5>2, <5>3
      <4>3. CASE op.call = "frame"
        <5>1. PICK cap \in CapEntry : cap = frame_cap /\ cap.type # "Untyped"
          <6>1. op.phys \in Nat
            BY <1>1, <1>2, <4>3, FrameIsNat DEF CallHolds
          <6>2. frame_cap \in CapEntry /\ frame_cap.type = "Frame"
            BY <1>1, <6>1 DEF frame_cap, CapEntry, CapType
          <6> HIDE DEF frame_cap
          <6> QED
            BY <6>2
        <5>2. PICK k : k = op.slot
          OBVIOUS
        <5>3. insert_ok(caps[p], k) /\ caps' = [caps EXCEPT ![p] = insert(caps[p], k, cap)]
          BY <1>2, <1>4, <2>1, <3>2, <4>3, <5>1, <5>2
        <5>4. insert(caps[p], k, cap) \in CNode
          BY <4>1, InsertKeeps
        <5>5. BudgetOf(insert(caps[p], k, cap)) =
                 BudgetOf(caps[p]) + (IF cap.type = "Untyped" THEN cap.object ELSE 0)
          BY <4>1, <5>3, InsertPays
        <5>6. BudgetOf(insert(caps[p], k, cap)) = BudgetOf(caps[p]) + 0
          BY <5>1, <5>5
        <5> QED
          BY <5>3, <5>4, <5>6
      <4> QED
        BY <2>4, <4>2, <4>3
    <3>4. granted' \in Nat /\ minted' \in Nat /\ Charged' \in Nat
      BY <1>1, <1>2, <2>2, <3>1
    <3>5. PICK d \in Int : d = 0
      OBVIOUS
    <3>6. d + granted' + Charged' - minted' = granted + Charged - minted
      BY <1>1, <1>2, <2>2, <3>1, <3>5
    <3>7. BudgetOf(cn) = BudgetOf(caps[p]) + d
      BY <3>3, <3>5
    <3>8. BudgetConserved'
      BY <3>3, <3>4, <3>6, <3>7, Accounts
    <3> QED
      BY <2>2, <3>8
  <2>5. op.call \in {"dma", "frame", "map"}
    BY <1>1, <1>2 DEF Calls, CallTypes
  <2> QED
    BY <2>3, <2>4, <2>5
<1> QED
  BY <1>3, <1>4

(* A call that fails gives back what it paid. *)
LEMMA FailBudget ==
  ASSUME BudgetInv, fail PROVE Refundable' /\ BudgetConserved'
<1>1. op # Idle /\ op \in Calls /\ op.p \in Pid /\ op.pages \in Nat
  BY InCall DEF BudgetInv, Inv, fail
<1>2. /\ caps \in [Pid -> CNode] /\ granted \in Nat /\ minted \in Nat /\ Refundable
      /\ op' = Idle /\ minted' = minted /\ granted' = granted
  BY DEF BudgetInv, Inv, fail, ghosts
<1>3. Refundable' /\ Charged' = 0
  BY <1>2 DEF Refundable, Paying, Charged
<1>4. CASE op.call \notin {"dma", "frame"}
  <2>1. Charged = 0 /\ caps' = caps
    BY <1>4 DEF Charged, fail
  <2> QED
    BY <1>2, <1>3, <2>1, QuietAccounts
<1>5. CASE op.call \in {"dma", "frame"}
  <2>1. PICK p \in Pid, n \in Nat : p = op.p /\ n = op.pages
    BY <1>1
  <2>2. UntypedSlots(caps[p]) # {} /\ caps[p] \in CNode /\ Charged = n
    BY <1>1, <1>2, <1>5, <2>1 DEF Refundable, Paying, Charged
  <2>3. PICK cn : cn = refund_untyped(caps[p], n)
    OBVIOUS
  <2>4. cn \in CNode /\ BudgetOf(cn) = BudgetOf(caps[p]) + n
    BY <2>2, <2>3, RefundKeeps, RefundPays
  <2>5. caps' = [caps EXCEPT ![p] = cn]
    BY <1>5, <2>1, <2>3 DEF fail
  <2>6. granted' \in Nat /\ minted' \in Nat /\ Charged' \in Nat /\ n \in Int
    BY <1>2, <1>3
  <2>7. n + granted' + Charged' - minted' = granted + Charged - minted
    BY <1>2, <1>3, <2>2
  <2>8. BudgetConserved'
    BY <2>4, <2>5, <2>6, <2>7, Accounts
  <2> QED
    BY <1>3, <2>8
<1> QED
  BY <1>4, <1>5

(* Delegation mints what the copy is worth. *)
LEMMA DelegateBudget ==
  ASSUME BudgetInv, NEW p \in Pid, NEW q \in Pid, NEW src, NEW dst, delegate(p, q, src, dst)
  PROVE  Refundable' /\ BudgetConserved'
<1>1. /\ caps \in [Pid -> CNode] /\ granted \in Nat /\ minted \in Nat
      /\ op = Idle /\ op' = Idle /\ granted' = granted
      /\ insert_ok(caps[q], dst) /\ src \in Slot
      /\ caps' = [caps EXCEPT ![q] = insert(caps[q], dst, caps[p][src])]
      /\ minted' = IF caps[p][src].type = "Untyped" THEN minted + caps[p][src].object
                                                    ELSE minted
  BY DEF BudgetInv, Inv, delegate, get_ok
<1>2. Refundable' /\ Charged = 0 /\ Charged' = 0
  BY <1>1 DEF Refundable, Paying, Charged
<1>3. PICK cap \in CapEntry : cap = caps[p][src]
  BY <1>1 DEF CNode
<1>4. PICK d \in Nat : d = IF cap.type = "Untyped" THEN cap.object ELSE 0
  BY DEF CapEntry
<1>5. PICK cn : cn = insert(caps[q], dst, cap)
  OBVIOUS
<1>6. cn \in CNode /\ BudgetOf(cn) = BudgetOf(caps[q]) + d
  <2>1. caps[q] \in CNode
    BY <1>1
  <2>2. cn \in CNode
    BY <1>5, <2>1, InsertKeeps
  <2>3. BudgetOf(insert(caps[q], dst, cap)) =
           BudgetOf(caps[q]) + (IF cap.type = "Untyped" THEN cap.object ELSE 0)
    BY <1>1, <2>1, InsertPays
  <2> QED
    BY <1>4, <1>5, <2>2, <2>3
<1>7. caps' = [caps EXCEPT ![q] = cn]
  BY <1>1, <1>3, <1>5
<1>8. minted' = minted + d
  BY <1>1, <1>3, <1>4
<1>9. granted' \in Nat /\ minted' \in Nat /\ Charged' \in Nat /\ d \in Int
  BY <1>1, <1>2, <1>8
<1>10. d + granted' + Charged' - minted' = granted + Charged - minted
  <2>1. granted \in Nat /\ minted \in Nat /\ granted' = granted
    BY <1>1
  <2> QED
    BY <1>2, <1>8, <2>1
<1>11. BudgetConserved'
  BY <1>6, <1>7, <1>9, <1>10, Accounts
<1> QED
  BY <1>2, <1>11

(* The other steps of a call go on, or begin or end a call that pays       *)
(* nothing. *)
LEMMA OtherBudget ==
  ASSUME BudgetInv,
         \/ \E p \in Pid, slot \in SrcArgs, out \in OutOk : sys_map_frame(p, slot, out)
         \/ \E p \in Pid, n \in 1 .. MAX_PAGES : sbrk_grow(p, n) \/ sbrk_shrink(p, n)
         \/ take_frames \/ heap_frame \/ heap_done \/ map_table \/ map_page \/ mapped
  PROVE  Refundable' /\ BudgetConserved'
<1>1. Refundable /\ CallTypes
  BY DEF BudgetInv, Inv
<1>2. caps' = caps /\ granted' = granted /\ minted' = minted
  BY DEF sys_map_frame, sbrk_grow, sbrk_shrink, take_frames, heap_frame, heap_done, map_table,
     map_page, mapped, ghosts
<1>3. SUFFICES Charged' = Charged /\ Refundable'
  BY <1>2, QuietAccounts
<1>begin. ASSUME NEW p \in Pid, NEW slot, NEW n, NEW out,
                 sys_map_frame(p, slot, out) \/ sbrk_grow(p, n) \/ sbrk_shrink(p, n)
          PROVE  Charged' = Charged /\ Refundable'
  <2>1. ~Paying /\ ~Paying'
    BY <1>begin DEF sys_map_frame, sbrk_grow, sbrk_shrink, Paying, Call, Idle
  <2> QED
    BY <2>1, NoPayment
<1>4. CASE take_frames \/ map_table \/ map_page \/ mapped
  <2>1. op \in Calls
    BY <1>1, <1>4 DEF take_frames, map_table, map_page, mapped, Mapping, At, CallTypes
  <2>2. op'.call = op.call /\ op'.pages = op.pages /\ op'.p = op.p
    <3>1. CASE take_frames
      BY <2>1, <3>1 DEF take_frames, Calls
    <3>2. CASE map_table
      BY <2>1, <3>2 DEF map_table, Calls
    <3>3. CASE map_page
      BY <2>1, <3>3 DEF map_page, Calls
    <3>4. CASE mapped
      BY <2>1, <3>4 DEF mapped, Calls
    <3> QED
      BY <1>4, <3>1, <3>2, <3>3, <3>4
  <2> QED
    BY <1>1, <1>2, <2>1, <2>2, CallGoesOn
<1>5. CASE heap_frame \/ heap_done
  <2>1. op \in Calls /\ op.call = "sbrk"
    BY <1>1, <1>5 DEF heap_frame, heap_done, At, CallTypes
  <2>2. op' = Idle \/ op'.call = "sbrk"
    <3>1. CASE heap_frame
      BY <2>1, <3>1 DEF heap_frame, Calls
    <3>2. CASE heap_done
      BY <3>2 DEF heap_done
    <3> QED
      BY <1>5, <3>1, <3>2
  <2>3. ~Paying /\ ~Paying'
    BY <2>1, <2>2 DEF Paying
  <2> QED
    BY <2>3, NoPayment
<1> QED
  BY <1>begin, <1>4, <1>5

(* Every step keeps the account. *)
LEMMA NextBudget == BudgetInv /\ [Next]_vars => BudgetInv'
<1> SUFFICES ASSUME BudgetInv, [Next]_vars PROVE BudgetInv'
  OBVIOUS
<1>1. Inv'
  BY NextInv DEF BudgetInv
<1>2. SUFFICES Refundable' /\ BudgetConserved'
  BY <1>1 DEF BudgetInv
<1>3. \A n \in 1 .. MAX_PAGES : n \in Nat
  BY MemoryAssumption
<1>4. ASSUME NEW p \in Pid, NEW n \in 1 .. MAX_PAGES, NEW out \in OutOk,
             sys_dma_alloc(p, n, out)
      PROVE  Refundable' /\ BudgetConserved'
  BY <1>3, <1>4, ChargeBudget DEF sys_dma_alloc
<1>5. ASSUME NEW p \in Pid, NEW n \in 1 .. MAX_PAGES, NEW slot \in DstArgs,
             NEW out \in OutOk, sys_frame_alloc(p, n, slot, out)
      PROVE  Refundable' /\ BudgetConserved'
  BY <1>3, <1>5, ChargeBudget DEF sys_frame_alloc
<1>6. CASE finish \/ fail
  BY <1>6, FinishBudget, FailBudget
<1>7. ASSUME NEW p \in Pid, NEW q \in Pid, NEW src \in SrcArgs, NEW dst \in DstArgs,
             delegate(p, q, src, dst)
      PROVE  Refundable' /\ BudgetConserved'
  BY <1>7, DelegateBudget
<1>8. CASE UNCHANGED vars
  <2>1. /\ caps' = caps /\ granted' = granted /\ minted' = minted /\ op' = op
    BY <1>8 DEF vars
  <2>2. Charged' = Charged /\ Refundable'
    BY <2>1 DEF Charged, Refundable, Paying, BudgetInv
  <2> QED
    BY <2>1, <2>2, QuietAccounts
<1> QED
  BY <1>4, <1>5, <1>6, <1>7, <1>8, OtherBudget DEF Next

(* Budget is neither lost nor made: at every moment what the processes     *)
(* hold, what successful calls have taken and what the call in progress    *)
(* has paid add up to what was given out (sys_dma_alloc, sys_frame_alloc,  *)
(* charge_untyped, refund_untyped), for any number of processes, slots and *)
(* copies of the Untyped capability.                                       *)
THEOREM BudgetBalances == Spec => []BudgetConserved
<1>1. Init => BudgetInv
  <2> SUFFICES ASSUME Init PROVE BudgetInv
    OBVIOUS
  <2>1. Inv
    BY InitInv
  <2>2. Charged = 0 /\ Refundable /\ granted = 0 /\ minted = DMA_BUDGET
    BY DEF Init, Charged, Refundable, Paying
  <2>3. Budgets = DMA_BUDGET
    BY BudgetsAre, SeedBudgets DEF Init
  <2>4. DMA_BUDGET \in Nat
    BY CapAssumption
  <2>5. BudgetConserved
    BY <2>2, <2>3, <2>4 DEF BudgetConserved
  <2> QED
    BY <2>1, <2>2, <2>5 DEF BudgetInv
<1>2. BudgetInv => BudgetConserved
  BY DEF BudgetInv
<1> QED
  BY <1>1, <1>2, NextBudget, PTL DEF Spec
=============================================================================
