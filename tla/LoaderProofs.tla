----------------------------- MODULE LoaderProofs -----------------------------
(***************************************************************************)
(* The safety properties of module Loader, for any set of images, any page *)
(* and table size, any number of frames and processes and any arguments.   *)
(*                                                                         *)
(* The proof has three layers, each an invariant that relies on the ones   *)
(* before it.  Safe: the state is well typed, a spawn in progress stays    *)
(* within its bounds, and no frame is used twice.  Shape: the space under  *)
(* construction has exactly the pages the steps taken so far gave it, with *)
(* the rights of the image, and no process has a page behind its break.    *)
(* Contents: those pages hold what has been copied so far.                 *)
(***************************************************************************)
EXTENDS Loader, FiniteSetTheorems, SequenceTheorems, WellFoundedInduction, TLAPS

Bytes == 0 .. PAGE - 1
TableIndex == {v \div PT_SPAN : v \in Page}
Entry == [frame : Frame \cup {None}, writable : BOOLEAN, executable : BOOLEAN]

(* The steps of a spawn, and the record of one in progress.                *)
Early == {"space", "check", "map", "copy"}
Late == {"stack", "env", "envpages", "install"}
BuildOp == [step : Early \cup Late, parent : Pid, ptr : Nat, len : Nat,
            pages : SUBSET Page, seg : Nat, i : Nat]
Building == op.step \in Early \cup Late

HeapPage == HEAP_START \div PAGE
StackPage == USER_STACK_VA \div PAGE
TopPage == USER_ADDR_MAX \div PAGE
-----------------------------------------------------------------------------
(* The first layer: types, bounds and frames.                              *)

(* The image passed the checks of load: its segments end below the heap.   *)
ImageLow ==
    \A k \in DOMAIN segments : segments[k].vaddr + segments[k].memsz <= HEAP_START
ImageChecked == next_pid > 0 \/ op.step \in {"map", "copy"} \cup Late => ImageLow

(* The environment lies in mapped pages of the parent.                     *)
EnvMapped ==
    op.step \in {"envpages", "install"} /\ op.len > 0 =>
        op.ptr + op.len < USER_ADDR_MAX /\ user_range_ok(op.parent, op.ptr, op.len)

(* How far each step of a spawn can be.                                    *)
SpawnBounds ==
    Building =>
        /\ next_pid < MAX_PROCS
        /\ HEAP_START + op.len <= USER_ADDR_MAX
        /\ op.len > 0 => op.parent < next_pid
        /\ op.step = "env" => op.len > 0
        /\ op.step \in {"space", "check", "map"} => op.seg = 1 /\ op.i = 0
        /\ op.step = "map" => op.pages \subseteq ImagePages
        /\ op.step = "copy" =>
              /\ op.seg \in 1 .. Len(segments) + 1
              /\ op.i > 0 => op.seg \in DOMAIN segments /\ op.i <= segments[op.seg].filesz
        /\ op.step = "stack" => op.i <= USER_STACK_PAGES
        /\ op.step = "envpages" => op.i <= pages_for(op.len) /\ op.len > 0

(* A frame is free, or backs one page, or holds one page table.            *)
FreeIsUnused ==
    /\ \A p \in Pid, v \in Page : map[p][v].frame \notin avail
    /\ \A p \in Pid, t \in TableIndex : tables[p][t] \notin avail
PagesDistinct ==
    \A p, q \in Pid : \A v, w \in Page :
        map[p][v].frame = map[q][w].frame => map[p][v].frame = None \/ <<p, v>> = <<q, w>>
TablesDistinct ==
    \A p, q \in Pid : \A t, u \in TableIndex :
        tables[p][t] = tables[q][u] => tables[p][t] = None \/ <<p, t>> = <<q, u>>
PagesAreNotTables ==
    \A p, q \in Pid : \A v \in Page, t \in TableIndex :
        map[p][v].frame = tables[q][t] => map[p][v].frame = None
NoneIsUnmapped ==
    \A p \in Pid, v \in Page : map[p][v].frame = None <=> map[p][v] = Unmapped

Unshared ==
    FreeIsUnused /\ PagesDistinct /\ TablesDistinct /\ PagesAreNotTables /\ NoneIsUnmapped

Safe == TypeOK /\ ImageChecked /\ EnvMapped /\ SpawnBounds /\ Unshared
-----------------------------------------------------------------------------
(* The second layer: which pages are mapped, and with which rights.        *)

(* The pages the spawn in progress has mapped so far.                      *)
Built ==
    CASE op.step = "map"  -> ImagePages \ op.pages
      [] op.step = "copy" -> ImagePages
      [] op.step = "stack" -> ImagePages \cup StackPage .. StackPage + op.i - 1
      [] op.step = "env" -> ImagePages \cup StackPages
      [] op.step = "envpages" ->
            ImagePages \cup StackPages \cup HeapPage .. HeapPage + op.i - 1
      [] op.step = "install" ->
            ImagePages \cup StackPages \cup HeapPage .. HeapPage + pages_for(op.len) - 1
      [] OTHER -> {}

SpaceBuilt ==
    next_pid \in Pid =>
        \A v \in Page : map[next_pid][v] # Unmapped <=> v \in Built

(* Nothing is mapped for a PID that has not been reached.                  *)
NotReached == \A p \in Pid : p > next_pid => \A v \in Page : map[p][v] = Unmapped

(* The rights of every mapped page, of unfinished spaces too.              *)
AllRights ==
    \A p \in Pid, v \in Page : map[p][v] # Unmapped =>
        /\ map[p][v].writable <=> (v \notin ImagePages \/ rights(v).writable)
        /\ map[p][v].executable <=> rights(v).executable

(* The break of a process lies in its heap.                                *)
BreakInHeap == \A p \in Running : heap_break[p] \div PAGE >= HeapPage

(* The Process that is about to be installed.                              *)
ProcessMade ==
    op.step \in {"env", "envpages", "install"} =>
        IF op.step = "install"
          THEN /\ heap_break[next_pid] \div PAGE = HeapPage + pages_for(op.len)
               /\ envp_user[next_pid] = IF op.len = 0 THEN 0 ELSE HEAP_START
               /\ envp_len[next_pid] = op.len
          ELSE /\ heap_break[next_pid] = HEAP_START
               /\ envp_user[next_pid] = 0 /\ envp_len[next_pid] = 0

Shape == SpaceBuilt /\ NotReached /\ AllRights /\ BreakInHeap /\ ProcessMade
-----------------------------------------------------------------------------
(* The third layer: what the pages hold.                                   *)

(* How many bytes of segment k have been copied, and the segments whose    *)
(* copied bytes cover an address.                                          *)
CopiedLen(k) ==
    IF op.step \in Late \/ k < op.seg THEN segments[k].filesz
    ELSE IF k = op.seg THEN op.i ELSE 0
CopiedAt(a) ==
    {k \in DOMAIN segments :
        segments[k].vaddr <= a /\ a < segments[k].vaddr + CopiedLen(k)}

(* The byte a segment has for an address.                                  *)
FileByte(k, a) == image.bytes[segments[k].offset + (a - segments[k].vaddr) + 1]

(* What the space under construction holds at an address.                  *)
Content(a) ==
    IF CopiedAt(a) # {} THEN FileByte(Max(CopiedAt(a)), a)
    ELSE IF a \in HEAP_START .. HEAP_START + Len(given[next_pid]) - 1
           THEN given[next_pid][a - HEAP_START + 1]
    ELSE 0

(* A byte is copied only to a page that a segment covers.                  *)
CopiedToImage ==
    Building => \A a \in Nat : CopiedAt(a) # {} => a \div PAGE \in ImagePages

(* Every page mapped so far holds what it should at this point.            *)
ContentBuilt ==
    Building =>
        \A v \in Page : map[next_pid][v] # Unmapped =>
            \A o \in Bytes : ram[map[next_pid][v].frame][o] = Content(PAGE * v + o)

(* The environment the child gets is the one its parent has.               *)
WithEnv == op.step \in {"envpages", "install"} /\ op.len > 0
EnvGiven ==
    /\ \A p \in Pid : p > next_pid => given[p] = <<>>
    /\ next_pid \in Pid =>
         given[next_pid] =
            IF WithEnv THEN [k \in 1 .. op.len |-> peek(op.parent, op.ptr + k - 1)]
            ELSE <<>>

(* The space in progress, and the processes that have not run yet.         *)
SpaceFilled == CopiedToImage /\ ContentBuilt
Contents == EnvGiven /\ SpaceFilled /\ LoadedAsLinked

Inv == Safe /\ Shape /\ Contents
-----------------------------------------------------------------------------
(* Arithmetic.                                                             *)

(* Quotient and remainder. *)
LEMMA DivMod ==
  ASSUME NEW d \in Nat \ {0}, NEW a \in Nat
  PROVE  /\ a \div d \in Nat /\ a % d \in 0 .. d - 1
         /\ a = d * (a \div d) + (a % d)
  OBVIOUS

(* Quotient and remainder are unique. *)
LEMMA DivUnique ==
  ASSUME NEW d \in Nat \ {0}, NEW q \in Nat, NEW r \in 0 .. d - 1
  PROVE  (d * q + r) \div d = q /\ (d * q + r) % d = r
  OBVIOUS

(* Multiplication is monotone. *)
LEMMA MulStep ==
  ASSUME NEW d \in Nat \ {0}, NEW q \in Nat, NEW h \in Nat, q < h
  PROVE  d * q + d <= d * h
  OBVIOUS

(* ... and distributes. *)
LEMMA MulAdd ==
  ASSUME NEW d \in Nat, NEW q \in Nat, NEW h \in Nat
  PROVE  d * (q + h) = d * q + h * d /\ h * d \in Nat
  OBVIOUS

(* ... and can be cancelled. *)
LEMMA MulCancel ==
  ASSUME NEW d \in Nat \ {0}, NEW q \in Nat, NEW h \in Nat, d * q <= d * h
  PROVE  q <= h
<1> SUFFICES ASSUME h < q PROVE FALSE
  OBVIOUS
<1>1. d * h + d <= d * q
  BY MulStep
<1> QED
  BY <1>1

(* The page of an address below a page boundary lies below that page. *)
LEMMA DivLess ==
  ASSUME NEW d \in Nat \ {0}, NEW a \in Nat, NEW h \in Nat, a < d * h
  PROVE  a \div d < h
<1> DEFINE q == a \div d
           r == a % d
<1>1. q \in Nat /\ r \in 0 .. d - 1 /\ a = d * q + r
  BY DivMod
<1> HIDE DEF q, r
<1>2. SUFFICES ASSUME h <= q PROVE FALSE
  BY <1>1 DEF q
<1>3. q = h \/ h < q
  BY <1>1, <1>2
<1>4. d * h <= d * q
  BY <1>1, <1>3, MulStep
<1> QED
  BY <1>1, <1>4

(* The page of an address at or behind a page boundary lies behind it. *)
LEMMA DivAtLeast ==
  ASSUME NEW d \in Nat \ {0}, NEW a \in Nat, NEW h \in Nat, d * h <= a
  PROVE  h <= a \div d
<1> DEFINE q == a \div d
           r == a % d
<1>1. q \in Nat /\ r \in 0 .. d - 1 /\ a = d * q + r
  BY DivMod
<1> HIDE DEF q, r
<1>2. SUFFICES ASSUME q < h PROVE FALSE
  BY <1>1 DEF q
<1>3. d * q + d <= d * h
  BY <1>1, <1>2, MulStep
<1> QED
  BY <1>1, <1>3

(* Moving by whole pages. *)
LEMMA DivAdd ==
  ASSUME NEW d \in Nat \ {0}, NEW a \in Nat, NEW k \in Nat
  PROVE  (a + k * d) \div d = a \div d + k
<1> DEFINE q == a \div d
           r == a % d
<1>1. q \in Nat /\ r \in 0 .. d - 1 /\ a = d * q + r
  BY DivMod
<1> HIDE DEF q, r
<1>2. a + k * d = d * (q + k) + r /\ q + k \in Nat
  BY <1>1
<1>3. (d * (q + k) + r) \div d = q + k
  BY <1>1, <1>2, DivUnique
<1> QED
  BY <1>2, <1>3 DEF q

(* The constants, with the page boundaries as multiples of PAGE. *)
LEMMA Constants ==
  /\ PAGE \in Nat \ {0} /\ PT_SPAN \in Nat \ {0} /\ MAX_PROCS \in Nat \ {0}
  /\ USER_STACK_PAGES \in Nat
  /\ HEAP_START \in Nat /\ HEAP_MAX \in Nat /\ USER_ADDR_MAX \in Nat
  /\ HEAP_START < HEAP_MAX /\ HEAP_MAX <= USER_ADDR_MAX
  /\ StackPage \in Nat /\ HeapPage \in Nat /\ TopPage \in Nat
  /\ HEAP_START = PAGE * HeapPage /\ USER_ADDR_MAX = PAGE * TopPage
  /\ StackPage + USER_STACK_PAGES <= HeapPage /\ HeapPage <= TopPage
  /\ Page = 0 .. TopPage - 1 /\ Pid = 0 .. MAX_PROCS - 1
<1>1. /\ PAGE \in Nat \ {0} /\ PT_SPAN \in Nat \ {0} /\ MAX_PROCS \in Nat \ {0}
      /\ USER_STACK_PAGES \in Nat
  BY LoaderAssumption
<1>2. /\ HEAP_START \in Nat /\ HEAP_MAX \in Nat /\ USER_ADDR_MAX \in Nat
      /\ USER_STACK_VA \in Nat
      /\ HEAP_START < HEAP_MAX /\ HEAP_MAX <= USER_ADDR_MAX
      /\ USER_STACK_VA + USER_STACK_PAGES * PAGE <= HEAP_START
      /\ HEAP_START % PAGE = 0 /\ USER_STACK_VA % PAGE = 0
      /\ USER_ADDR_MAX % PAGE = 0
  BY LoaderAssumption
<1>3. StackPage \in Nat /\ USER_STACK_VA = PAGE * StackPage
  <2>1. USER_STACK_VA \div PAGE \in Nat
        /\ USER_STACK_VA = PAGE * (USER_STACK_VA \div PAGE) + (USER_STACK_VA % PAGE)
    BY <1>1, <1>2, DivMod
  <2> QED
    BY <1>1, <1>2, <2>1 DEF StackPage
<1>4. HeapPage \in Nat /\ HEAP_START = PAGE * HeapPage
  <2>1. HEAP_START \div PAGE \in Nat
        /\ HEAP_START = PAGE * (HEAP_START \div PAGE) + (HEAP_START % PAGE)
    BY <1>1, <1>2, DivMod
  <2> QED
    BY <1>1, <1>2, <2>1 DEF HeapPage
<1>5. TopPage \in Nat /\ USER_ADDR_MAX = PAGE * TopPage
  <2>1. USER_ADDR_MAX \div PAGE \in Nat
        /\ USER_ADDR_MAX = PAGE * (USER_ADDR_MAX \div PAGE) + (USER_ADDR_MAX % PAGE)
    BY <1>1, <1>2, DivMod
  <2> QED
    BY <1>1, <1>2, <2>1 DEF TopPage
<1>6. StackPage + USER_STACK_PAGES <= HeapPage
  <2>1. PAGE * (StackPage + USER_STACK_PAGES) <= PAGE * HeapPage
    BY <1>1, <1>2, <1>3, <1>4
  <2> QED
    BY <1>1, <1>3, <1>4, <2>1, MulCancel
<1>7. HeapPage <= TopPage
  <2>1. PAGE * HeapPage <= PAGE * TopPage
    BY <1>2, <1>4, <1>5
  <2> QED
    BY <1>1, <1>4, <1>5, <2>1, MulCancel
<1> QED
  BY <1>1, <1>2, <1>3, <1>4, <1>5, <1>6, <1>7 DEF Page, TopPage, Pid

(* The page and the offset of a user address. *)
LEMMA PageOf ==
  ASSUME NEW a \in Nat, a < USER_ADDR_MAX
  PROVE  /\ a \div PAGE \in Page /\ a % PAGE \in Bytes
         /\ a = PAGE * (a \div PAGE) + (a % PAGE)
<1>1. /\ a \div PAGE \in Nat /\ a % PAGE \in 0 .. PAGE - 1
      /\ a = PAGE * (a \div PAGE) + (a % PAGE)
  BY Constants, DivMod
<1>2. a \div PAGE < TopPage
  BY Constants, DivLess
<1> QED
  BY <1>1, <1>2, Constants DEF Bytes

(* The pages of an object that ends at or below a page boundary. *)
LEMMA PagesFor ==
  ASSUME NEW x \in Nat, NEW h \in Nat, x <= PAGE * h
  PROVE  pages_for(x) \in Nat /\ pages_for(x) <= h
<1>1. PAGE \in Nat \ {0}
  BY Constants
<1>2. x + PAGE - 1 \in Nat /\ x + PAGE - 1 < PAGE * (h + 1) /\ h + 1 \in Nat
  BY <1>1
<1>3. (x + PAGE - 1) \div PAGE < h + 1
  BY <1>1, <1>2, DivLess
<1>4. (x + PAGE - 1) \div PAGE \in Nat
  BY <1>1, <1>2, DivMod
<1> QED
  BY <1>3, <1>4 DEF pages_for

(* A segment below the heap covers pages below the heap. *)
LEMMA CoveredBelow ==
  ASSUME NEW seg \in Segment, seg.vaddr + seg.memsz <= HEAP_START
  PROVE  Covered(seg) \subseteq 0 .. HeapPage - 1
<1>1. /\ seg.vaddr \in Nat /\ seg.vaddr + seg.memsz \in Nat
      /\ PAGE \in Nat \ {0} /\ HeapPage \in Nat
      /\ seg.vaddr + seg.memsz <= PAGE * HeapPage
  BY Constants DEF Segment
<1>2. seg.vaddr \div PAGE \in Nat
  BY <1>1, DivMod
<1>3. pages_for(seg.vaddr + seg.memsz) \in Nat
      /\ pages_for(seg.vaddr + seg.memsz) <= HeapPage
  BY <1>1, PagesFor
<1> QED
  BY <1>1, <1>2, <1>3 DEF Covered

(* The pages of an environment that fits the user half. *)
LEMMA EnvPageFits ==
  ASSUME NEW len \in Nat, HEAP_START + len <= USER_ADDR_MAX
  PROVE  /\ pages_for(len) \in Nat
         /\ \A i \in Nat : i < pages_for(len) => HeapPage + i \in Page
<1>1. /\ TopPage - HeapPage \in Nat /\ HeapPage \in Nat
      /\ len <= PAGE * (TopPage - HeapPage)
  BY Constants
<1>2. pages_for(len) \in Nat /\ pages_for(len) <= TopPage - HeapPage
  BY <1>1, PagesFor
<1> QED
  BY <1>1, <1>2, Constants
-----------------------------------------------------------------------------
(* Frames.                                                                 *)

(* A nonempty set of naturals has a least element, and Min is it. *)
LEMMA MinIsLeast ==
  ASSUME NEW S, S \subseteq Nat, S # {}
  PROVE  Min(S) \in S /\ \A y \in S : Min(S) <= y
<1>1. PICK x \in S : \A y \in S : ~(<<y, x>> \in OpToRel(<, Nat))
  BY NatLessThanWellFounded, WFMin, Zenon
<1>2. \A y \in S : x <= y
  <2> TAKE y \in S
  <2>1. y \in Nat /\ x \in Nat
    OBVIOUS
  <2>2. ~(y < x)
    BY <1>1, <2>1, Zenon DEF OpToRel
  <2> QED
    BY <2>1, <2>2
<1>3. \E z \in S : \A y \in S : z <= y
  BY <1>2
<1> QED
  BY <1>3 DEF Min

(* The frames are finitely many naturals. *)
LEMMA FramesFinite ==
  /\ Frame \subseteq Nat /\ None \notin Frame
  /\ \A S \in SUBSET Frame : IsFiniteSet(S)
  /\ \A n \in FrameCounts : 0 .. n - 1 \subseteq Frame
<1>1. PICK most \in FrameCounts : \A n \in FrameCounts : n <= most
  BY LoaderAssumption
<1>2. FrameCounts \subseteq Nat
  BY LoaderAssumption
<1>3. \E x \in FrameCounts : \A y \in FrameCounts : x >= y
  BY <1>1, <1>2
<1>4. Max(FrameCounts) \in FrameCounts /\ \A y \in FrameCounts : Max(FrameCounts) >= y
  BY <1>3 DEF Max
<1> DEFINE m == Max(FrameCounts)
<1>5. m \in Nat /\ \A n \in FrameCounts : n <= m /\ n \in Nat
  BY <1>2, <1>4
<1> HIDE DEF m
<1>6. IsFiniteSet(0 .. m - 1)
  BY <1>5, FS_Interval
<1>7. Frame = 0 .. m - 1
  BY DEF Frame, m
<1>8. \A S \in SUBSET Frame : IsFiniteSet(S)
  BY <1>6, <1>7, FS_Subset
<1> QED
  BY <1>5, <1>7, <1>8 DEF None

(* map_ok: there is a frame for the page, and another one for its table. *)
LEMMA MapOkFrames ==
  ASSUME avail \subseteq Frame, NEW p, NEW v, map_ok(p, v)
  PROVE  /\ Min(avail) \in avail
         /\ has_table(p, v) \/ Min(avail \ {Min(avail)}) \in avail \ {Min(avail)}
<1>1. IsFiniteSet(avail) /\ avail \subseteq Nat
  BY FramesFinite
<1>2. avail # {}
  <2> SUFFICES ASSUME avail = {} PROVE FALSE
    OBVIOUS
  <2>1. Cardinality(avail) = 0
    BY FS_EmptySet
  <2> QED
    BY <2>1 DEF map_ok
<1>3. Min(avail) \in avail
  BY <1>1, <1>2, MinIsLeast
<1>4. CASE ~has_table(p, v)
  <2>1. Cardinality(avail) >= 2
    BY <1>4 DEF map_ok
  <2>2. Cardinality(avail \ {Min(avail)}) = Cardinality(avail) - 1
    BY <1>1, <1>3, FS_RemoveElement
  <2>3. Cardinality(avail) \in Nat
    BY <1>1, FS_CardinalityType
  <2>4. avail \ {Min(avail)} # {}
    <3> SUFFICES ASSUME avail \ {Min(avail)} = {} PROVE FALSE
      OBVIOUS
    <3>1. Cardinality(avail \ {Min(avail)}) = 0
      BY FS_EmptySet
    <3> QED
      BY <2>1, <2>2, <2>3, <3>1
  <2> QED
    BY <1>1, <1>3, <2>4, MinIsLeast
<1> QED
  BY <1>3, <1>4

(* A page is mapped to a frame that nothing else uses. *)
LEMMA MapResult ==
  ASSUME TypeOK, Unshared, NEW p \in Pid, NEW v \in Page,
         NEW w \in BOOLEAN, NEW x \in BOOLEAN,
         map_ok(p, v), map_page(p, v, w, x), avail' \subseteq avail \ frames_for(p, v)
  PROVE  /\ Min(avail) \in avail /\ avail' \subseteq avail
         /\ map' \in [Pid -> [Page -> Entry]]
         /\ tables' \in [Pid -> [TableIndex -> Frame \cup {None}]]
         /\ map'[p][v] = [frame |-> Min(avail), writable |-> w, executable |-> x]
         /\ \A q \in Pid, u \in Page : q # p \/ u # v => map'[q][u] = map[q][u]
         /\ Unshared'
<1> DEFINE f == Min(avail)
           g == Min(avail \ {f})
           t0 == v \div PT_SPAN
           e == [frame |-> f, writable |-> w, executable |-> x]
<1>1. /\ map \in [Pid -> [Page -> Entry]] /\ avail \subseteq Frame
      /\ tables \in [Pid -> [TableIndex -> Frame \cup {None}]]
      /\ t0 \in TableIndex
  BY DEF TypeOK, Entry, TableIndex
<1>2. f \in avail /\ (has_table(p, v) \/ g \in avail \ {f})
  BY <1>1, MapOkFrames
<1>3. e \in Entry /\ e.frame = f
  BY <1>1, <1>2 DEF Entry
<1>4. map' = [map EXCEPT ![p] = [map[p] EXCEPT ![v] = e]]
  BY DEF map_page
<1>5. \/ avail' \subseteq avail \ {f} /\ tables' = tables
      \/ /\ g \in avail \ {f} /\ avail' \subseteq (avail \ {f}) \ {g}
         /\ tables' = [tables EXCEPT ![p] = [tables[p] EXCEPT ![t0] = g]]
  BY <1>2 DEF map_page, frames_for, table_frame
<1> HIDE DEF e, f, g, t0
<1>6. map' \in [Pid -> [Page -> Entry]]
  BY <1>1, <1>3, <1>4
<1>7. /\ map'[p][v] = e
      /\ \A q \in Pid, u \in Page : q # p \/ u # v => map'[q][u] = map[q][u]
  BY <1>1, <1>4
<1>8. tables' \in [Pid -> [TableIndex -> Frame \cup {None}]]
  <2>1. g \in avail => [tables[p] EXCEPT ![t0] = g] \in [TableIndex -> Frame \cup {None}]
    BY <1>1
  <2> QED
    BY <1>1, <1>5, <2>1
<1>9. \/ avail' \subseteq avail \ {f} /\ tables' = tables
      \/ /\ g \in avail \ {f} /\ avail' \subseteq (avail \ {f}) \ {g}
         /\ tables'[p][t0] = g
         /\ \A q \in Pid, t \in TableIndex : q # p \/ t # t0 => tables'[q][t] = tables[q][t]
  BY <1>1, <1>5
<1>10. None \notin avail /\ f # None
  BY <1>1, <1>2, FramesFinite
<1>11. FreeIsUnused'
  BY <1>2, <1>3, <1>7, <1>9 DEF Unshared, FreeIsUnused
<1>12. PagesDistinct'
  BY <1>2, <1>3, <1>7 DEF Unshared, FreeIsUnused, PagesDistinct
<1>13. TablesDistinct'
  BY <1>9 DEF Unshared, FreeIsUnused, TablesDistinct
<1>14. PagesAreNotTables'
  BY <1>2, <1>3, <1>7, <1>9 DEF Unshared, FreeIsUnused, PagesAreNotTables
<1>15. NoneIsUnmapped'
  <2>1. e # Unmapped
    BY <1>3, <1>10 DEF Unmapped
  <2> QED
    BY <1>3, <1>7, <1>10, <2>1 DEF Unshared, NoneIsUnmapped
<1>16. avail' \subseteq avail
  BY <1>9
<1> QED
  BY <1>2, <1>6, <1>7, <1>8, <1>11, <1>12, <1>13, <1>14, <1>15, <1>16
     DEF Unshared, e, f

(* vspace_alloc_map gives the page such a frame. *)
LEMMA AllocResult ==
  ASSUME TypeOK, Unshared, NEW p \in Pid, NEW v \in Page,
         NEW w \in BOOLEAN, NEW x \in BOOLEAN,
         map_ok(p, v), alloc_map(p, v, w, x)
  PROVE  /\ Min(avail) \in avail /\ avail' \subseteq avail
         /\ map' \in [Pid -> [Page -> Entry]]
         /\ tables' \in [Pid -> [TableIndex -> Frame \cup {None}]]
         /\ map'[p][v] = [frame |-> Min(avail), writable |-> w, executable |-> x]
         /\ \A q \in Pid, u \in Page : q # p \/ u # v => map'[q][u] = map[q][u]
         /\ Unshared'
<1>1. map_page(p, v, w, x) /\ avail' \subseteq avail \ frames_for(p, v)
  BY DEF alloc_map
<1> QED
  BY <1>1, MapResult, Zenon

(* Frames that are taken away, or spaces that are dropped, leave the       *)
(* others unshared.                                                        *)
LEMMA FewerUnshared ==
  ASSUME TypeOK, Unshared, avail' \subseteq avail,
         \A p \in Pid, v \in Page : map'[p][v] \in {map[p][v], Unmapped},
         \A p \in Pid, t \in TableIndex : tables'[p][t] \in {tables[p][t], None}
  PROVE  Unshared'
<1>1. Unmapped.frame = None /\ None \notin avail
  BY FramesFinite DEF Unmapped, TypeOK
<1>2. FreeIsUnused'
  BY <1>1 DEF Unshared, FreeIsUnused
<1>3. PagesDistinct' /\ TablesDistinct'
  BY <1>1 DEF Unshared, PagesDistinct, TablesDistinct
<1>4. PagesAreNotTables' /\ NoneIsUnmapped'
  BY <1>1 DEF Unshared, PagesAreNotTables, NoneIsUnmapped
<1> QED
  BY <1>2, <1>3, <1>4 DEF Unshared
-----------------------------------------------------------------------------
(* The first layer is inductive.                                           *)

(* A spawn in progress is a record of its step and arguments. *)
LEMMA OpIsRecord ==
  ASSUME TypeOK, Building
  PROVE  op \in BuildOp
  BY DEF TypeOK, Building, BuildOp, Early, Late, Idle, Panicked

(* A record of a spawn in progress is a value of op. *)
LEMMA RecordIsOp ==
  ASSUME NEW o \in BuildOp
  PROVE  o \in {Idle, Panicked} \cup
              [step : {"space", "check", "map", "copy", "stack", "env", "envpages",
                       "install"},
               parent : Pid, ptr : Nat, len : Nat, pages : SUBSET Page,
               seg : Nat, i : Nat]
  BY DEF BuildOp, Early, Late

(* The image never changes, nor what is derived from it. *)
LEMMA ImageSame ==
  ASSUME image' = image
  PROVE  /\ segments' = segments /\ ImagePages' = ImagePages
         /\ ImageLow' <=> ImageLow
  BY DEF segments, ImagePages, ImageLow

(* The segments of the image. *)
LEMMA SegmentType ==
  ASSUME TypeOK
  PROVE  /\ segments \in Seq(Segment) /\ DOMAIN segments = 1 .. Len(segments)
         /\ Len(segments) \in Nat /\ image.bytes \in Seq(Byte)
         /\ \A k \in DOMAIN segments : segments[k] \in Segment
<1>1. image \in ImageSet
  BY LoaderAssumption DEF TypeOK
<1>2. segments \in Seq(Segment) /\ image.bytes \in Seq(Byte)
  BY <1>1 DEF ImageSet, segments
<1> QED
  BY <1>2

(* The pages of a checked image lie below the heap. *)
LEMMA ImageBelowHeap ==
  ASSUME TypeOK, ImageLow
  PROVE  ImagePages \subseteq 0 .. HeapPage - 1 /\ ImagePages \subseteq Page
<1>1. ASSUME NEW v \in ImagePages PROVE v \in 0 .. HeapPage - 1
  <2>1. PICK k \in DOMAIN segments : v \in Covered(segments[k])
    BY DEF ImagePages
  <2>2. segments[k] \in Segment /\ segments[k].vaddr + segments[k].memsz <= HEAP_START
    BY SegmentType DEF ImageLow
  <2> QED
    BY <2>1, <2>2, CoveredBelow
<1>2. 0 .. HeapPage - 1 \subseteq Page
  BY Constants
<1> QED
  BY <1>1, <1>2

(* The initial state. *)
LEMMA InitSafe == Init => Safe
<1> SUFFICES ASSUME Init PROVE Safe
  OBVIOUS
<1>1. PICK n \in FrameCounts : avail = 0 .. n - 1
  BY DEF Init
<1>2. avail \subseteq Frame
  BY <1>1, FramesFinite
<1>3. ram \in [Frame -> [0 .. PAGE - 1 -> Byte]]
  BY LoaderAssumption DEF Init
<1>4. Unmapped \in Entry
  BY DEF Unmapped, Entry
<1>5. map \in [Pid -> [Page -> Entry]]
  BY <1>4 DEF Init
<1>6. tables \in [Pid -> [{v \div PT_SPAN : v \in Page} -> Frame \cup {None}]]
  BY DEF Init
<1>7. {heap_break, envp_user, envp_len} \subseteq [Pid -> Nat]
  BY Constants DEF Init
<1>8. next_pid \in 0 .. MAX_PROCS /\ fresh \subseteq Running
  BY Constants DEF Init, Running
<1>9. given \in [Pid -> Seq(Byte)]
  BY DEF Init
<1>10. TypeOK
  BY <1>2, <1>3, <1>5, <1>6, <1>7, <1>8, <1>9 DEF TypeOK, Entry, Init
<1>11. op.step = "idle" /\ next_pid = 0
  BY DEF Init, Idle
<1>12. ImageChecked /\ EnvMapped /\ SpawnBounds
  BY <1>11 DEF ImageChecked, EnvMapped, SpawnBounds, Building, Early, Late
<1>13. /\ \A p \in Pid, v \in Page : map[p][v] = Unmapped /\ map[p][v].frame = None
       /\ \A p \in Pid, t \in TableIndex : tables[p][t] = None
       /\ None \notin avail
  BY <1>2, FramesFinite DEF Init, Unmapped, TableIndex
<1>14. Unshared
  BY <1>13 DEF Unshared, FreeIsUnused, PagesDistinct, TablesDistinct,
               PagesAreNotTables, NoneIsUnmapped
<1> QED
  BY <1>10, <1>12, <1>14 DEF Safe

(* A step that leaves memory alone. *)
LEMMA MemorySame ==
  ASSUME Safe, UNCHANGED <<image, avail, map, tables>>
  PROVE  Unshared'
  BY DEF Safe, Unshared, FreeIsUnused, PagesDistinct, TablesDistinct,
         PagesAreNotTables, NoneIsUnmapped

(* The beginning of a spawn. *)
LEMMA BeginSafe ==
  ASSUME Safe, NEW p \in Pid, NEW ptr \in Nat, NEW len \in Nat,
         HEAP_START + len <= USER_ADDR_MAX, len > 0 => p < next_pid,
         Begin(p, ptr, len)
  PROVE  Safe'
<1> DEFINE o == [step |-> "space", parent |-> p, ptr |-> ptr, len |-> len,
                 pages |-> {}, seg |-> 1, i |-> 0]
<1>1. op' = o /\ UNCHANGED <<image, avail, ram, map, tables, heap_break, envp_user,
                             envp_len, next_pid, given, fresh>>
      /\ next_pid < MAX_PROCS /\ op = Idle
  BY DEF Begin, process
<1>2. o \in BuildOp
  BY DEF BuildOp, Early
<1>3. TypeOK'
  BY <1>1, <1>2, RecordIsOp DEF Safe, TypeOK, Running
<1>4. ImageChecked'
  BY <1>1, ImageSame DEF Safe, ImageChecked, Late
<1>5. EnvMapped' /\ SpawnBounds'
  BY <1>1 DEF EnvMapped, SpawnBounds
<1> QED
  BY <1>1, <1>3, <1>4, <1>5, MemorySame DEF Safe

(* A spawn that fails. *)
LEMMA GiveUpSafe ==
  ASSUME Safe, Building, give_up, avail' \subseteq avail,
         ram' \in [Frame -> [0 .. PAGE - 1 -> Byte]]
  PROVE  Safe'
<1> DEFINE none == [v \in Page |-> Unmapped]
           notables == [t \in TableIndex |-> None]
<1>1. /\ op' \in {Idle, Panicked} /\ map' = [map EXCEPT ![next_pid] = none]
      /\ tables' = [tables EXCEPT ![next_pid] = notables]
      /\ given' = [given EXCEPT ![next_pid] = <<>>]
      /\ UNCHANGED <<image, heap_break, envp_user, envp_len, next_pid, fresh>>
  BY DEF give_up, process, TableIndex
<1>2. next_pid \in Pid
  BY Constants DEF Safe, SpawnBounds, TypeOK
<1>3. none \in [Page -> Entry]
  BY DEF Unmapped, Entry
<1>4. map' \in [Pid -> [Page -> Entry]]
      /\ \A p \in Pid, v \in Page : map'[p][v] \in {map[p][v], Unmapped}
  BY <1>1, <1>2, <1>3 DEF Safe, TypeOK, Entry
<1>5. tables' \in [Pid -> [TableIndex -> Frame \cup {None}]]
      /\ \A p \in Pid, t \in TableIndex : tables'[p][t] \in {tables[p][t], None}
  BY <1>1, <1>2 DEF Safe, TypeOK, TableIndex
<1>6. given' \in [Pid -> Seq(Byte)]
  BY <1>1, <1>2 DEF Safe, TypeOK
<1>7. TypeOK'
  BY <1>1, <1>4, <1>5, <1>6 DEF Safe, TypeOK, Running, Entry, TableIndex
<1>8. Unshared'
  BY <1>4, <1>5, FewerUnshared DEF Safe
<1>9. op'.step \in {"idle", "panic"}
  BY <1>1 DEF Idle, Panicked
<1>10. ImageChecked' /\ EnvMapped' /\ SpawnBounds'
  BY <1>1, <1>9, ImageSame DEF Safe, ImageChecked, EnvMapped, SpawnBounds, Building,
                               Early, Late
<1> QED
  BY <1>7, <1>8, <1>10 DEF Safe

(* What fill_zero and lose_frame do to the free frames and the memory. *)
LEMMA LoseFrame ==
  ASSUME Safe, lose_frame
  PROVE  /\ avail' \subseteq avail /\ ram' \in [Frame -> [0 .. PAGE - 1 -> Byte]]
         /\ \A f \in Frame \ avail : ram'[f] = ram[f]
<1>1. avail \subseteq Frame /\ ram \in [Frame -> [0 .. PAGE - 1 -> Byte]]
  BY DEF Safe, TypeOK
<1>2. CASE avail = {}
  BY <1>1, <1>2 DEF lose_frame
<1>3. CASE avail # {}
  <2>1. Min(avail) \in avail
    BY <1>1, <1>3, MinIsLeast, FramesFinite
  <2>2. avail' = avail \ {Min(avail)} /\ ram' = [ram EXCEPT ![Min(avail)] = Zeros]
    BY <1>3 DEF lose_frame, fill_zero
  <2>3. Zeros \in [0 .. PAGE - 1 -> Byte]
    BY LoaderAssumption DEF Zeros
  <2> QED
    BY <1>1, <2>1, <2>2, <2>3
<1> QED
  BY <1>2, <1>3

(* Both ways for a spawn to fail. *)
LEMMA FailSafe ==
  ASSUME Safe, Building, refuse \/ (give_up /\ lose_frame)
  PROVE  Safe'
<1>1. CASE refuse
  BY <1>1, GiveUpSafe DEF refuse, Safe, TypeOK
<1>2. CASE give_up /\ lose_frame
  BY <1>2, LoseFrame, GiveUpSafe
<1> QED
  BY <1>1, <1>2

(* A spawn goes on without touching a page table. *)
LEMMA QuietSafe ==
  ASSUME Safe, Building, op' \in BuildOp,
         UNCHANGED <<image, map, tables, next_pid, fresh>>, avail' \subseteq avail,
         ram' \in [Frame -> [0 .. PAGE - 1 -> Byte]],
         {heap_break', envp_user', envp_len'} \subseteq [Pid -> Nat],
         given' \in [Pid -> Seq(Byte)],
         ImageChecked', EnvMapped', SpawnBounds'
  PROVE  Safe'
<1>1. TypeOK'
  BY RecordIsOp DEF Safe, TypeOK, Running
<1>2. Unshared'
  BY FewerUnshared DEF Safe
<1> QED
  BY <1>1, <1>2 DEF Safe

(* vspace_new, and the steps that only move on to the next pass. *)
LEMMA MoveSafe ==
  ASSUME Safe, \/ vspace_new \/ load_check \/ load_mapped \/ next_segment \/ loaded
  PROVE  Safe'
<1> USE DEF At, Goto
<1>1. Building /\ (Building => op \in BuildOp)
  BY OpIsRecord DEF vspace_new, load_check, load_mapped, next_segment, loaded,
                    Copying, Building, Early, Late, Safe
<1>2. /\ ram \in [Frame -> [0 .. PAGE - 1 -> Byte]] /\ avail \subseteq Frame
      /\ {heap_break, envp_user, envp_len} \subseteq [Pid -> Nat]
      /\ given \in [Pid -> Seq(Byte)]
  BY DEF Safe, TypeOK
<1>3. SUFFICES ASSUME ~refuse PROVE Safe'
  BY <1>1, FailSafe
<1>4. /\ UNCHANGED <<image, ram, map, tables, heap_break, envp_user, envp_len,
                     next_pid, given, fresh>>
      /\ avail' \subseteq avail
  BY <1>3 DEF vspace_new, load_check, load_mapped, next_segment, loaded, process
<1>5. segments' = segments /\ ImagePages' = ImagePages /\ (ImageLow' <=> ImageLow)
  BY <1>4, ImageSame
<1>6. CASE vspace_new
  <2>1. op' = [op EXCEPT !.step = "check", !.i = 0] /\ op.step = "space"
    BY <1>3, <1>6 DEF vspace_new
  <2>2. op' \in BuildOp /\ op'.step = "check"
    BY <1>1, <2>1 DEF BuildOp, Early
  <2>3. ImageChecked' /\ EnvMapped' /\ SpawnBounds'
    BY <1>1, <1>4, <1>5, <2>1, <2>2
       DEF Safe, ImageChecked, EnvMapped, SpawnBounds, Late, BuildOp
  <2> QED
    BY <1>1, <1>2, <1>4, <2>2, <2>3, QuietSafe
<1>7. CASE load_check
  <2>1. /\ op' = [op EXCEPT !.step = "map",
                     !.pages = UNION {Covered(segments[k]) : k \in DOMAIN segments}]
        /\ op.step = "check"
        /\ \A k \in DOMAIN segments : ~(segments[k].vaddr + segments[k].memsz >= WORD)
    BY <1>3, <1>7 DEF load_check
  <2>2. ImageLow
    <3> SUFFICES ASSUME NEW k \in DOMAIN segments
                 PROVE  segments[k].vaddr + segments[k].memsz <= HEAP_START
      BY DEF ImageLow
    <3>1. segments[k] \in Segment /\ WORD \in Nat
      BY SegmentType, LoaderAssumption DEF Safe
    <3>2. segments[k].vaddr + segments[k].memsz < WORD
      BY <2>1, <3>1 DEF Segment
    <3> QED
      BY <3>2, LoaderAssumption DEF segments, Safe, TypeOK
  <2>3. ImagePages \subseteq Page
    BY <2>2, ImageBelowHeap DEF Safe
  <2>4. op' = [op EXCEPT !.step = "map", !.pages = ImagePages]
    BY <2>1 DEF ImagePages
  <2>5. op' \in BuildOp /\ op'.step = "map" /\ op'.pages = ImagePages
    BY <1>1, <2>3, <2>4 DEF BuildOp, Early
  <2>6. ImageChecked' /\ EnvMapped'
    BY <1>5, <2>2, <2>5 DEF ImageChecked, EnvMapped
  <2>7. SpawnBounds'
    BY <1>1, <1>4, <1>5, <2>1, <2>4, <2>5 DEF Safe, SpawnBounds, BuildOp
  <2> QED
    BY <1>1, <1>2, <1>4, <2>5, <2>6, <2>7, QuietSafe
<1>8. CASE load_mapped
  <2>1. op' = [op EXCEPT !.step = "copy", !.i = 0] /\ op.step = "map"
    BY <1>8 DEF load_mapped
  <2>2. op' \in BuildOp /\ op'.step = "copy" /\ op'.i = 0 /\ op'.seg = 1
    BY <1>1, <2>1 DEF BuildOp, Early, Safe, SpawnBounds
  <2>3. ImageChecked' /\ EnvMapped'
    BY <1>4, <1>5, <2>1, <2>2 DEF Safe, ImageChecked, EnvMapped
  <2>4. 1 \in 1 .. Len(segments) + 1
    BY SegmentType DEF Safe
  <2>5. SpawnBounds'
    BY <1>1, <1>4, <1>5, <2>1, <2>2, <2>4 DEF Safe, SpawnBounds, BuildOp
  <2> QED
    BY <1>1, <1>2, <1>4, <2>2, <2>3, <2>5, QuietSafe
<1>9. CASE next_segment
  <2>1. op' = [op EXCEPT !.seg = @ + 1, !.i = 0] /\ op.step = "copy"
        /\ op.seg \in DOMAIN segments
    BY <1>9 DEF next_segment, Copying
  <2>2. op.seg \in 1 .. Len(segments) /\ Len(segments) \in Nat
    BY <2>1, SegmentType DEF Safe
  <2>3. op' \in BuildOp /\ op'.step = "copy" /\ op'.i = 0 /\ op'.seg = op.seg + 1
    <3>1. \A n \in Nat : [op EXCEPT !.seg = n, !.i = 0] \in BuildOp
      BY <1>1 DEF BuildOp
    <3>2. op' = [op EXCEPT !.seg = op.seg + 1, !.i = 0] /\ op.seg + 1 \in Nat
      BY <2>1, <2>2
    <3> QED
      BY <1>1, <2>1, <3>1, <3>2 DEF BuildOp
  <2>4. op'.seg \in 1 .. Len(segments) + 1
    BY <2>2, <2>3
  <2>5. ImageChecked' /\ EnvMapped'
    BY <1>4, <1>5, <2>1, <2>3 DEF Safe, ImageChecked, EnvMapped
  <2>6. SpawnBounds'
    BY <1>1, <1>4, <1>5, <2>1, <2>3, <2>4 DEF Safe, SpawnBounds, BuildOp
  <2> QED
    BY <1>1, <1>2, <1>4, <2>3, <2>5, <2>6, QuietSafe
<1>10. CASE loaded
  <2>1. op' = [op EXCEPT !.step = "stack", !.i = 0] /\ op.step = "copy"
    BY <1>10 DEF loaded
  <2>2. op' \in BuildOp /\ op'.step = "stack" /\ op'.i = 0
    BY <1>1, <2>1 DEF BuildOp, Early, Late
  <2>3. ImageChecked' /\ EnvMapped'
    BY <1>4, <1>5, <2>1, <2>2 DEF Safe, ImageChecked, EnvMapped
  <2>4. SpawnBounds'
    BY <1>1, <1>4, <1>5, <2>1, <2>2, Constants DEF Safe, SpawnBounds, BuildOp
  <2> QED
    BY <1>1, <1>2, <1>4, <2>2, <2>3, <2>4, QuietSafe
<1> QED
  BY <1>6, <1>7, <1>8, <1>9, <1>10

(* A piece of a segment: it lies in one page, and in the segment's data. *)
LEMMA PieceBounds ==
  ASSUME Safe, Copying, op.i < this.filesz
  PROVE  /\ this \in Segment /\ op.i \in Nat /\ va \in Nat
         /\ va % PAGE \in Bytes /\ va = PAGE * (va \div PAGE) + (va % PAGE)
         /\ va \div PAGE \in Nat
         /\ piece \in Nat /\ piece > 0
         /\ piece <= PAGE - (va % PAGE) /\ op.i + piece <= this.filesz
<1>1. op \in BuildOp
  BY OpIsRecord DEF Safe, Copying, At, Building, Early
<1>2. this \in Segment /\ op.i \in Nat
  BY <1>1, SegmentType DEF Safe, Copying, this, BuildOp
<1>3. va \in Nat /\ this.filesz \in Nat
  BY <1>2 DEF va, Segment
<1>4. /\ va % PAGE \in Bytes /\ va \div PAGE \in Nat
      /\ va = PAGE * (va \div PAGE) + (va % PAGE)
  BY <1>3, Constants, DivMod DEF Bytes
<1> DEFINE S == {PAGE - (va % PAGE), this.filesz - op.i}
<1>5. S \subseteq Nat /\ S # {} /\ \A n \in S : n > 0
  BY <1>2, <1>3, <1>4, Constants DEF Bytes
<1>6. Min(S) \in S /\ \A y \in S : Min(S) <= y
  BY <1>5, MinIsLeast
<1>7. piece \in Nat /\ piece > 0 /\ piece <= PAGE - (va % PAGE)
      /\ piece <= this.filesz - op.i
  BY <1>5, <1>6 DEF piece
<1> QED
  BY <1>2, <1>3, <1>4, <1>7

(* The bytes of a piece come from the file. *)
LEMMA PieceBytes ==
  ASSUME Safe, Copying, op.i < this.filesz, piece_ok, NEW o \in Nat,
         va % PAGE <= o, o <= (va % PAGE) + piece - 1
  PROVE  /\ image.bytes[this.offset + op.i + (o - (va % PAGE)) + 1] \in Byte
         /\ o \in Bytes
<1>1. /\ this \in Segment /\ op.i \in Nat /\ va % PAGE \in Bytes /\ piece \in Nat
      /\ piece > 0 /\ piece <= PAGE - (va % PAGE)
  BY PieceBounds
<1>2. image.bytes \in Seq(Byte) /\ Len(image.bytes) \in Nat
  BY SegmentType DEF Safe
<1>3. this.offset + op.i + piece <= Len(image.bytes) /\ this.offset \in Nat
  BY <1>1 DEF piece_ok, Segment
<1> DEFINE n == this.offset + op.i + (o - (va % PAGE)) + 1
<1>4. n \in 1 .. Len(image.bytes)
  BY <1>1, <1>2, <1>3, SMTT(60) DEF Bytes
<1> HIDE DEF n
<1>5. image.bytes[n] \in Byte
  BY <1>2, <1>4
<1> QED
  BY <1>1, <1>5, Constants DEF n, Bytes

(* Copying a piece. *)
LEMMA CopySafe ==
  ASSUME Safe, copy_piece
  PROVE  Safe'
<1>1. Building /\ op \in BuildOp /\ Copying /\ op.i < this.filesz
  BY OpIsRecord DEF copy_piece, Copying, At, Building, Early, Safe
<1>2. SUFFICES ASSUME piece_ok PROVE Safe'
  BY <1>1, FailSafe DEF copy_piece
<1>3. /\ copied(piece)
      /\ UNCHANGED <<image, avail, map, tables, heap_break, envp_user, envp_len,
                     next_pid, given, fresh>>
  BY <1>2 DEF copy_piece, process
<1> DEFINE f == map[next_pid][va \div PAGE].frame
           first == va % PAGE
           row(r) == [o \in DOMAIN r |->
                        IF o \in first .. first + piece - 1
                          THEN image.bytes[this.offset + op.i + (o - first) + 1]
                          ELSE r[o]]
<1>4. ram' = [ram EXCEPT ![f] = row(ram[f])] /\ op' = [op EXCEPT !.i = @ + piece]
  BY <1>3 DEF copied
<1>5. /\ op.i \in Nat /\ piece \in Nat /\ op.i + piece <= this.filesz
      /\ first \in Bytes
  BY <1>1, PieceBounds
<1>6. ram' \in [Frame -> [0 .. PAGE - 1 -> Byte]]
  <2>1. ram \in [Frame -> [0 .. PAGE - 1 -> Byte]]
    BY DEF Safe, TypeOK
  <2>2. CASE f \in Frame
    <3>1. DOMAIN ram[f] = Bytes
      BY <2>1, <2>2, SMTT(60) DEF Bytes
    <3>2. \A o \in Bytes : row(ram[f])[o] \in Byte
      <4> TAKE o \in Bytes
      <4>1. row(ram[f])[o] = IF o \in first .. first + piece - 1
                               THEN image.bytes[this.offset + op.i + (o - first) + 1]
                               ELSE ram[f][o]
        BY <3>1, SMTT(60)
      <4>2. CASE o \in first .. first + piece - 1
        <5>1. o \in Nat /\ first <= o /\ o <= first + piece - 1
          BY <1>5, <4>2, SMTT(60) DEF Bytes
        <5> QED
          BY <1>1, <1>2, <4>1, <4>2, <5>1, PieceBytes
      <4>3. CASE o \notin first .. first + piece - 1
        BY <2>1, <2>2, <4>1, <4>3 DEF Bytes
      <4> QED
        BY <4>2, <4>3, SMTT(60)
    <3>3. row(ram[f]) \in [0 .. PAGE - 1 -> Byte]
      BY <3>1, <3>2 DEF Bytes
    <3> HIDE DEF row, f
    <3> QED
      BY <1>4, <2>1, <2>2, <3>3
  <2>3. CASE f \notin Frame
    <3> HIDE DEF row, f
    <3>1. ram' = ram
      BY <1>4, <2>1, <2>3
    <3> QED
      BY <2>1, <3>1
  <2> QED
    BY <2>2, <2>3
<1>7. op' \in BuildOp /\ op'.i = op.i + piece /\ op'.step = "copy" /\ op.step = "copy"
  <2>1. \A n \in Nat : [op EXCEPT !.i = n] \in BuildOp
    BY <1>1 DEF BuildOp
  <2>2. op.i + piece \in Nat /\ op' = [op EXCEPT !.i = op.i + piece]
    BY <1>4, <1>5
  <2> QED
    BY <1>1, <2>1, <2>2 DEF BuildOp, Copying, At
<1>8. segments' = segments /\ ImagePages' = ImagePages /\ (ImageLow' <=> ImageLow)
  BY <1>3, ImageSame
<1>9. ImageChecked' /\ EnvMapped'
  BY <1>3, <1>7, <1>8 DEF Safe, ImageChecked, EnvMapped
<1>10. SpawnBounds'
  <2>1. op'.seg = op.seg /\ op'.len = op.len /\ op'.parent = op.parent
    BY <1>1, <1>4 DEF BuildOp
  <2>2. op'.i > 0 => op.seg \in DOMAIN segments /\ op'.i <= segments[op.seg].filesz
    BY <1>1, <1>5, <1>7 DEF Copying, this
  <2> QED
    BY <1>1, <1>3, <1>7, <1>8, <2>1, <2>2 DEF Safe, SpawnBounds
<1> QED
  BY <1>1, <1>3, <1>6, <1>7, <1>9, <1>10, QuietSafe DEF Safe, TypeOK

(* A spawn maps a page of its space to a new frame. *)
LEMMA SpawnAllocSafe ==
  ASSUME Safe, Building, NEW v \in Page, NEW w \in BOOLEAN, NEW x \in BOOLEAN,
         map_ok(next_pid, v), alloc_map(next_pid, v, w, x),
         ram' \in [Frame -> [0 .. PAGE - 1 -> Byte]],
         op' \in BuildOp, op'.step = op.step, op'.len = op.len,
         op'.ptr = op.ptr, op'.parent = op.parent,
         UNCHANGED <<image, heap_break, envp_user, envp_len, next_pid, given, fresh>>,
         SpawnBounds'
  PROVE  Safe'
<1>1. next_pid \in Pid /\ next_pid \in Nat /\ op \in BuildOp
  <2>1. next_pid \in Pid /\ next_pid \in Nat
    BY Constants DEF Safe, SpawnBounds, TypeOK
  <2> QED
    BY <2>1, OpIsRecord DEF Safe
<1>2. /\ avail' \subseteq avail /\ map' \in [Pid -> [Page -> Entry]]
      /\ tables' \in [Pid -> [TableIndex -> Frame \cup {None}]]
      /\ \A q \in Pid, u \in Page : q # next_pid \/ u # v => map'[q][u] = map[q][u]
      /\ Unshared'
  BY <1>1, AllocResult DEF Safe
<1>3. TypeOK'
  BY <1>2, RecordIsOp DEF Safe, TypeOK, Running, Entry, TableIndex
<1>4. ImageChecked'
  BY ImageSame DEF Safe, ImageChecked
<1>5. EnvMapped'
  <2> SUFFICES ASSUME op.step \in {"envpages", "install"}, op.len > 0
               PROVE  op.ptr + op.len < USER_ADDR_MAX
                      /\ user_range_ok(op.parent, op.ptr, op.len)'
    BY DEF EnvMapped
  <2>1. /\ op.ptr + op.len < USER_ADDR_MAX /\ user_range_ok(op.parent, op.ptr, op.len)
        /\ op.parent # next_pid /\ op.parent \in Pid
        /\ op.ptr \in Nat /\ op.len \in Nat
    <3>1. op.parent \in Pid /\ op.ptr \in Nat /\ op.len \in Nat
      BY <1>1 DEF BuildOp
    <3>2. op.parent < next_pid
      BY DEF Safe, SpawnBounds
    <3> QED
      BY <1>1, <3>1, <3>2, Constants DEF Safe, EnvMapped
  <2>2. op.ptr + op.len - 1 \in Nat /\ op.ptr + op.len - 1 < USER_ADDR_MAX
        /\ op.ptr < USER_ADDR_MAX
    BY <2>1, Constants
  <2>3. (op.ptr + op.len - 1) \div PAGE \in Page /\ op.ptr \div PAGE \in Page
    BY <2>1, <2>2, PageOf
  <2>4. \A lo, hi \in Page : lo .. hi \subseteq Page
    BY Constants
  <2>5. \A u \in Page : map'[op.parent][u] = map[op.parent][u]
    BY <1>2, <2>1
  <2> QED
    BY <2>1, <2>3, <2>4, <2>5 DEF user_range_ok
<1> QED
  BY <1>2, <1>3, <1>4, <1>5 DEF Safe

(* Memory after a frame was taken and filled. *)
LEMMA FillSafe ==
  ASSUME Safe, Min(avail) \in avail, NEW bytes \in [0 .. PAGE - 1 -> Byte],
         ram' = [ram EXCEPT ![Min(avail)] = bytes]
  PROVE  /\ ram' \in [Frame -> [0 .. PAGE - 1 -> Byte]]
         /\ ram'[Min(avail)] = bytes
         /\ \A f \in Frame \ avail : ram'[f] = ram[f]
  BY DEF Safe, TypeOK

(* A page of zeros. *)
LEMMA ZerosType == Zeros \in [0 .. PAGE - 1 -> Byte]
  BY LoaderAssumption DEF Zeros

(* The rights of a page are Booleans. *)
LEMMA RightsType ==
  ASSUME NEW v
  PROVE  rights(v).writable \in BOOLEAN /\ rights(v).executable \in BOOLEAN
  BY DEF rights

(* A stack page lies below the heap. *)
LEMMA StackBelowHeap ==
  ASSUME NEW i \in Nat, i < USER_STACK_PAGES
  PROVE  StackPage + i \in Page /\ StackPage + i < HeapPage
  BY Constants

(* load's second pass. *)
LEMMA MapSafe ==
  ASSUME Safe, load_map
  PROVE  Safe'
<1> DEFINE v == Min(op.pages)
<1>1. Building /\ op \in BuildOp /\ op.step = "map" /\ op.pages # {}
  BY OpIsRecord DEF load_map, At, Building, Early, Safe
<1>2. SUFFICES ASSUME map_ok(next_pid, v) PROVE Safe'
  BY <1>1, FailSafe DEF load_map
<1>3. /\ alloc_map(next_pid, v, rights(v).writable, rights(v).executable)
      /\ fill_zero /\ op' = [op EXCEPT !.pages = @ \ {v}]
      /\ UNCHANGED <<image, heap_break, envp_user, envp_len, next_pid, given, fresh>>
  BY <1>2 DEF load_map, process
<1>4. op.pages \subseteq Page /\ Page \subseteq Nat
  BY <1>1, Constants DEF BuildOp
<1>5. v \in op.pages /\ v \in Page
  BY <1>1, <1>4, MinIsLeast
<1> HIDE DEF v
<1>6. Min(avail) \in avail
  BY <1>2, MapOkFrames DEF Safe, TypeOK
<1>7. ram' \in [Frame -> [0 .. PAGE - 1 -> Byte]]
  BY <1>3, <1>6, ZerosType, FillSafe DEF fill_zero
<1>8. /\ op' \in BuildOp /\ op'.step = op.step /\ op'.len = op.len
      /\ op'.ptr = op.ptr /\ op'.parent = op.parent /\ op'.seg = op.seg
      /\ op'.i = op.i /\ op'.pages = op.pages \ {v}
  BY <1>1, <1>3, <1>4 DEF BuildOp
<1>9. SpawnBounds'
  BY <1>1, <1>3, <1>8, ImageSame DEF Safe, SpawnBounds
<1> QED
  BY <1>1, <1>2, <1>3, <1>5, <1>7, <1>8, <1>9, RightsType, SpawnAllocSafe

(* The user stack. *)
LEMMA StackSafe ==
  ASSUME Safe, stack_page
  PROVE  Safe'
<1> DEFINE v == USER_STACK_VA \div PAGE + op.i
<1>1. Building /\ op \in BuildOp /\ op.step = "stack" /\ op.i < USER_STACK_PAGES
  BY OpIsRecord DEF stack_page, At, Building, Late, Safe
<1>2. SUFFICES ASSUME map_ok(next_pid, v) PROVE Safe'
  BY <1>1, FailSafe DEF stack_page
<1>3. /\ alloc_map(next_pid, v, TRUE, FALSE)
      /\ fill_zero /\ op' = [op EXCEPT !.i = @ + 1]
      /\ UNCHANGED <<image, heap_break, envp_user, envp_len, next_pid, given, fresh>>
  BY <1>2 DEF stack_page, process
<1>4. op.i \in Nat /\ v \in Page
  BY <1>1, StackBelowHeap DEF StackPage, BuildOp
<1> HIDE DEF v
<1>5. Min(avail) \in avail
  BY <1>2, MapOkFrames DEF Safe, TypeOK
<1>6. ram' \in [Frame -> [0 .. PAGE - 1 -> Byte]]
  BY <1>3, <1>5, ZerosType, FillSafe DEF fill_zero
<1>7. /\ op' \in BuildOp /\ op'.step = op.step /\ op'.len = op.len
      /\ op'.ptr = op.ptr /\ op'.parent = op.parent /\ op'.i = op.i + 1
  BY <1>1, <1>3, <1>4 DEF BuildOp
<1>8. SpawnBounds'
  <2>1. op'.i <= USER_STACK_PAGES
    BY <1>1, <1>4, <1>7, Constants
  <2> QED
    BY <1>1, <1>3, <1>7, <2>1 DEF Safe, SpawnBounds
<1>9. \A w, x \in BOOLEAN : alloc_map(next_pid, v, w, x) => Safe'
  BY <1>1, <1>2, <1>3, <1>4, <1>6, <1>7, <1>8, SpawnAllocSafe
<1> QED
  BY <1>3, <1>9

(* The Process of the new space. *)
LEMMA CreatedSafe ==
  ASSUME Safe, created
  PROVE  Safe'
<1> DEFINE s == IF op.len = 0 THEN "install" ELSE "env"
<1>1. Building /\ op \in BuildOp /\ op.step = "stack"
  BY OpIsRecord DEF created, At, Building, Late, Safe
<1>2. /\ heap_break' = [heap_break EXCEPT ![next_pid] = HEAP_START]
      /\ envp_user' = [envp_user EXCEPT ![next_pid] = 0]
      /\ envp_len' = [envp_len EXCEPT ![next_pid] = 0]
      /\ op' = [op EXCEPT !.step = s, !.i = 0]
      /\ UNCHANGED <<image, avail, ram, map, tables, next_pid, given, fresh>>
  BY DEF created, Goto
<1>3. {heap_break', envp_user', envp_len'} \subseteq [Pid -> Nat]
  <2>1. heap_break \in [Pid -> Nat] /\ envp_user \in [Pid -> Nat]
        /\ envp_len \in [Pid -> Nat] /\ HEAP_START \in Nat /\ 0 \in Nat
    BY Constants DEF Safe, TypeOK
  <2>2. heap_break' \in [Pid -> Nat]
    BY ONLY <1>2, <2>1
  <2>3. envp_user' \in [Pid -> Nat] /\ envp_len' \in [Pid -> Nat]
    BY ONLY <1>2, <2>1
  <2> QED
    BY <2>2, <2>3
<1>4. /\ op' \in BuildOp /\ op'.step = s /\ op'.len = op.len /\ op'.parent = op.parent
      /\ s \in {"env", "install"} /\ op.len \in Nat
      /\ (s = "env" => op.len > 0) /\ (s = "install" => op.len = 0)
  <2>1. /\ s \in {"env", "install"} /\ op.len \in Nat
        /\ (s = "env" => op.len > 0) /\ (s = "install" => op.len = 0)
    BY <1>1 DEF BuildOp
  <2>2. \A t \in Late : LET o == [op EXCEPT !.step = t, !.i = 0]
                       IN  /\ o \in BuildOp /\ o.step = t /\ o.len = op.len
                           /\ o.parent = op.parent
    BY <1>1 DEF BuildOp
  <2> HIDE DEF s
  <2> QED
    BY <1>2, <2>1, <2>2 DEF Late
<1> HIDE DEF s
<1>5. ImageChecked'
  BY <1>1, <1>2, ImageSame DEF Safe, ImageChecked, Late
<1>6. EnvMapped' /\ SpawnBounds'
  BY <1>1, <1>2, <1>4 DEF Safe, EnvMapped, SpawnBounds
<1> QED
  BY <1>1, <1>2, <1>3, <1>4, <1>5, <1>6, QuietSafe DEF Safe, TypeOK

(* Division is monotone. *)
LEMMA DivMono ==
  ASSUME NEW d \in Nat \ {0}, NEW a \in Nat, NEW b \in Nat, a <= b
  PROVE  a \div d <= b \div d
<1> DEFINE q == a \div d
<1>1. q \in Nat /\ a % d \in 0 .. d - 1 /\ a = d * q + (a % d)
  BY DivMod
<1>2. d * q <= b
  BY <1>1
<1> HIDE DEF q
<1> QED
  BY <1>1, <1>2, DivAtLeast DEF q

(* The byte at a mapped address. *)
LEMMA PeekByte ==
  ASSUME Safe, NEW p \in Pid, NEW a \in Nat, a < USER_ADDR_MAX,
         map[p][a \div PAGE] # Unmapped
  PROVE  /\ peek(p, a) = ram[map[p][a \div PAGE].frame][a % PAGE]
         /\ peek(p, a) \in Byte
<1> DEFINE v == a \div PAGE
           o == a % PAGE
<1>1. v \in Page /\ o \in 0 .. PAGE - 1
  BY PageOf DEF Bytes
<1>2. peek(p, a) = ram[map[p][v].frame][o]
  BY DEF peek
<1> HIDE DEF v, o
<1>3. map[p][v] # Unmapped
  BY DEF v
<1>4. map[p][v].frame \in Frame
  BY <1>1, <1>3 DEF Safe, TypeOK, Unshared, NoneIsUnmapped
<1>5. ram \in [Frame -> [0 .. PAGE - 1 -> Byte]]
  BY DEF Safe, TypeOK
<1>6. \A f \in Frame, u \in 0 .. PAGE - 1 : ram[f][u] \in Byte
  BY <1>5
<1>7. ram[map[p][v].frame][o] \in Byte
  BY ONLY <1>1, <1>4, <1>6
<1> QED
  BY <1>2, <1>7 DEF v, o

(* Every byte of a checked user range is mapped. *)
LEMMA RangeMapped ==
  ASSUME NEW p \in Pid, NEW ptr \in Nat, NEW len \in Nat,
         ptr + len < USER_ADDR_MAX, user_range_ok(p, ptr, len),
         NEW k \in Nat, k < len
  PROVE  map[p][(ptr + k) \div PAGE] # Unmapped /\ ptr + k < USER_ADDR_MAX
<1>1. /\ PAGE \in Nat \ {0} /\ ptr + k \in Nat /\ ptr + len - 1 \in Nat
      /\ ptr <= ptr + k /\ ptr + k <= ptr + len - 1 /\ USER_ADDR_MAX \in Nat
  BY Constants
<1> DEFINE v == (ptr + k) \div PAGE
           lo == ptr \div PAGE
           hi == (ptr + len - 1) \div PAGE
<1>2. v \in Nat /\ lo \in Nat /\ hi \in Nat
  BY <1>1, DivMod
<1>3. lo <= v /\ v <= hi
  BY <1>1, DivMono
<1> HIDE DEF v, lo, hi
<1>4. v \in lo .. hi
  BY <1>2, <1>3
<1>5. \A u \in lo .. hi : map[p][u] # Unmapped
  BY DEF user_range_ok, lo, hi
<1> QED
  BY <1>1, <1>4, <1>5 DEF v

(* spawn_env checks the range of the environment. *)
LEMMA EnvCheckSafe ==
  ASSUME Safe, env_check
  PROVE  Safe'
<1>1. Building /\ op \in BuildOp /\ op.step = "env"
  BY OpIsRecord DEF env_check, At, Building, Late, Safe
<1>2. SUFFICES ASSUME op.ptr + op.len < USER_ADDR_MAX,
                      user_range_ok(op.parent, op.ptr, op.len)
               PROVE  Safe'
  BY <1>1, FailSafe DEF env_check
<1> DEFINE env == [k \in 1 .. op.len |-> peek(op.parent, op.ptr + k - 1)]
<1>3. /\ op' = [op EXCEPT !.step = "envpages", !.i = 0]
      /\ given' = [given EXCEPT ![next_pid] = env]
      /\ UNCHANGED <<image, avail, ram, map, tables, heap_break, envp_user, envp_len,
                     next_pid, fresh>>
  BY <1>2 DEF env_check, Goto, process
<1>4. op.ptr \in Nat /\ op.len \in Nat /\ op.parent \in Pid
  BY <1>1 DEF BuildOp
<1>5. \A k \in 1 .. op.len : peek(op.parent, op.ptr + k - 1) \in Byte
  <2> TAKE k \in 1 .. op.len
  <2>1. k - 1 \in Nat /\ k - 1 < op.len /\ op.ptr + (k - 1) = op.ptr + k - 1
    BY <1>4
  <2>2. map[op.parent][(op.ptr + (k - 1)) \div PAGE] # Unmapped
        /\ op.ptr + (k - 1) < USER_ADDR_MAX
    BY <1>2, <1>4, <2>1, RangeMapped
  <2>3. op.ptr + (k - 1) \in Nat
    BY <1>4, <2>1
  <2>4. peek(op.parent, op.ptr + (k - 1)) \in Byte
    BY <1>4, <2>2, <2>3, PeekByte
  <2> QED
    BY <2>1, <2>4
<1>6. env \in Seq(Byte)
  BY <1>4, <1>5
<1> HIDE DEF env
<1>7. given' \in [Pid -> Seq(Byte)]
  BY <1>3, <1>6 DEF Safe, TypeOK
<1>8. /\ op' \in BuildOp /\ op'.step = "envpages" /\ op'.i = 0
      /\ op'.len = op.len /\ op'.ptr = op.ptr /\ op'.parent = op.parent
  BY <1>1, <1>3 DEF BuildOp, Early, Late
<1>9. ImageChecked'
  BY <1>1, <1>3, ImageSame DEF Safe, ImageChecked, Late
<1>10. EnvMapped'
  BY <1>2, <1>3, <1>8 DEF EnvMapped, user_range_ok
<1>11. SpawnBounds'
  <2>1. HEAP_START + op.len <= USER_ADDR_MAX /\ op.len > 0
    BY <1>1 DEF Safe, SpawnBounds
  <2>2. 0 <= pages_for(op.len)
    BY <1>4, <2>1, EnvPageFits
  <2> QED
    BY <1>1, <1>3, <1>8, <2>1, <2>2 DEF Safe, SpawnBounds
<1> QED
  BY <1>1, <1>3, <1>7, <1>8, <1>9, <1>10, <1>11, QuietSafe DEF Safe, TypeOK

(* The bytes of a page of the environment. *)
LEMMA EnvBytes ==
  ASSUME Safe, op.step = "envpages", op \in BuildOp
  PROVE  /\ env_bytes(op.i) \in [0 .. PAGE - 1 -> Byte]
         /\ \A o \in Bytes : op.i * PAGE + o < op.len =>
                /\ map[op.parent][(op.ptr + (op.i * PAGE + o)) \div PAGE] # Unmapped
                /\ op.ptr + (op.i * PAGE + o) < USER_ADDR_MAX
                /\ env_bytes(op.i)[o] = peek(op.parent, op.ptr + (op.i * PAGE + o))
         /\ \A o \in Bytes : ~(op.i * PAGE + o < op.len) => env_bytes(op.i)[o] = 0
<1>1. /\ op.len \in Nat /\ op.ptr \in Nat /\ op.i \in Nat /\ op.parent \in Pid
      /\ PAGE \in Nat \ {0}
  BY Constants DEF BuildOp
<1>2. op.len > 0 /\ op.ptr + op.len < USER_ADDR_MAX
      /\ user_range_ok(op.parent, op.ptr, op.len)
  BY DEF Safe, SpawnBounds, Building, Late, EnvMapped
<1>3. ASSUME NEW o \in Bytes, op.i * PAGE + o < op.len
      PROVE  /\ map[op.parent][(op.ptr + (op.i * PAGE + o)) \div PAGE] # Unmapped
             /\ op.ptr + (op.i * PAGE + o) < USER_ADDR_MAX
             /\ peek(op.parent, op.ptr + (op.i * PAGE + o)) \in Byte
             /\ env_bytes(op.i)[o] = peek(op.parent, op.ptr + (op.i * PAGE + o))
  <2> DEFINE k == op.i * PAGE + o
  <2>1. k \in Nat /\ k < op.len
    BY <1>1, <1>3 DEF Bytes
  <2>2. op.ptr + op.i * PAGE + o = op.ptr + k
    BY <1>1 DEF Bytes
  <2>3. env_bytes(op.i)[o] = peek(op.parent, op.ptr + k)
    BY <1>3, <2>2 DEF env_bytes, Bytes
  <2> HIDE DEF k
  <2>4. map[op.parent][(op.ptr + k) \div PAGE] # Unmapped
        /\ op.ptr + k < USER_ADDR_MAX
    BY <1>1, <1>2, <2>1, RangeMapped
  <2>5. op.ptr + k \in Nat
    BY <1>1, <2>1
  <2>6. peek(op.parent, op.ptr + k) \in Byte
    BY <1>1, <2>4, <2>5, PeekByte
  <2> QED
    BY <2>3, <2>4, <2>6 DEF k
<1>4. ASSUME NEW o \in Bytes, ~(op.i * PAGE + o < op.len)
      PROVE  env_bytes(op.i)[o] = 0
  BY <1>4 DEF env_bytes, Bytes
<1>5. \A o \in Bytes : env_bytes(op.i)[o] \in Byte
  BY <1>3, <1>4, LoaderAssumption
<1>6. \E e : env_bytes(op.i) = [o \in 0 .. PAGE - 1 |-> e[o]]
  <2>1. env_bytes(op.i) = [o \in 0 .. PAGE - 1 |-> env_bytes(op.i)[o]]
    BY DEF env_bytes
  <2> QED
    BY <2>1
<1>7. env_bytes(op.i) \in [0 .. PAGE - 1 -> Byte]
  BY <1>5, <1>6 DEF Bytes
<1> QED
  BY <1>3, <1>4, <1>7

(* The pages of the environment. *)
LEMMA EnvPageSafe ==
  ASSUME Safe, env_page
  PROVE  Safe'
<1> DEFINE v == HEAP_START \div PAGE + op.i
<1>1. Building /\ op \in BuildOp /\ op.step = "envpages" /\ op.i < pages_for(op.len)
  BY OpIsRecord DEF env_page, At, Building, Late, Safe, env_pages
<1>2. SUFFICES ASSUME map_ok(next_pid, v) PROVE Safe'
  BY <1>1, FailSafe DEF env_page
<1>3. /\ alloc_map(next_pid, v, TRUE, FALSE)
      /\ ram' = [ram EXCEPT ![Min(avail)] = env_bytes(op.i)]
      /\ op' = [op EXCEPT !.i = @ + 1]
      /\ UNCHANGED <<image, heap_break, envp_user, envp_len, next_pid, given, fresh>>
  BY <1>2 DEF env_page, process
<1>4. op.i \in Nat /\ op.len \in Nat
  BY <1>1 DEF BuildOp
<1>5. HEAP_START + op.len <= USER_ADDR_MAX /\ op.len > 0
  BY <1>1 DEF Safe, SpawnBounds
<1>6. v \in Page /\ pages_for(op.len) \in Nat
  BY <1>1, <1>4, <1>5, EnvPageFits DEF HeapPage
<1> HIDE DEF v
<1>7. Min(avail) \in avail
  BY <1>2, MapOkFrames DEF Safe, TypeOK
<1>8. ram' \in [Frame -> [0 .. PAGE - 1 -> Byte]]
  BY <1>1, <1>3, <1>7, EnvBytes, FillSafe
<1>9. /\ op' \in BuildOp /\ op'.step = op.step /\ op'.len = op.len
      /\ op'.ptr = op.ptr /\ op'.parent = op.parent /\ op'.i = op.i + 1
  BY <1>1, <1>3, <1>4 DEF BuildOp
<1>10. SpawnBounds'
  <2>1. op'.i <= pages_for(op'.len)
    BY <1>1, <1>4, <1>6, <1>9
  <2> QED
    BY <1>1, <1>3, <1>5, <1>9, <2>1 DEF Safe, SpawnBounds
<1>11. \A w, x \in BOOLEAN : alloc_map(next_pid, v, w, x) => Safe'
  BY <1>1, <1>2, <1>3, <1>6, <1>8, <1>9, <1>10, SpawnAllocSafe
<1> QED
  BY <1>3, <1>11

(* The environment is in place. *)
LEMMA EnvDoneSafe ==
  ASSUME Safe, env_done
  PROVE  Safe'
<1>1. Building /\ op \in BuildOp /\ op.step = "envpages"
  BY OpIsRecord DEF env_done, At, Building, Late, Safe
<1>2. /\ envp_user' = [envp_user EXCEPT ![next_pid] = HEAP_START]
      /\ envp_len' = [envp_len EXCEPT ![next_pid] = op.len]
      /\ heap_break' = [heap_break EXCEPT ![next_pid] =
                          HEAP_START + pages_for(op.len) * PAGE]
      /\ op' = [op EXCEPT !.step = "install", !.i = 0]
      /\ UNCHANGED <<image, avail, ram, map, tables, next_pid, given, fresh>>
  BY DEF env_done, Goto, env_pages
<1>3. op.len \in Nat /\ HEAP_START + op.len <= USER_ADDR_MAX
  BY <1>1 DEF BuildOp, Safe, SpawnBounds
<1>4. HEAP_START + pages_for(op.len) * PAGE \in Nat /\ HEAP_START \in Nat
  BY <1>3, EnvPageFits, Constants
<1>5. {heap_break', envp_user', envp_len'} \subseteq [Pid -> Nat]
  <2>1. heap_break \in [Pid -> Nat] /\ envp_user \in [Pid -> Nat]
        /\ envp_len \in [Pid -> Nat]
    BY DEF Safe, TypeOK
  <2> DEFINE b == HEAP_START + pages_for(op.len) * PAGE
  <2>2. b \in Nat /\ heap_break' = [heap_break EXCEPT ![next_pid] = b]
    BY <1>2, <1>4
  <2> HIDE DEF b
  <2>3. heap_break' \in [Pid -> Nat]
    BY ONLY <2>1, <2>2
  <2>4. envp_user' \in [Pid -> Nat] /\ envp_len' \in [Pid -> Nat]
    BY ONLY <1>2, <1>3, <1>4, <2>1
  <2> QED
    BY <2>3, <2>4
<1>6. /\ op' \in BuildOp /\ op'.step = "install" /\ op'.len = op.len
      /\ op'.ptr = op.ptr /\ op'.parent = op.parent
  BY <1>1, <1>2 DEF BuildOp, Early, Late
<1>7. ImageChecked'
  BY <1>1, <1>2, ImageSame DEF Safe, ImageChecked, Late
<1>8. EnvMapped'
  BY <1>1, <1>2, <1>6 DEF Safe, EnvMapped, user_range_ok
<1>9. SpawnBounds'
  BY <1>1, <1>2, <1>6 DEF Safe, SpawnBounds
<1> QED
  BY <1>1, <1>2, <1>5, <1>6, <1>7, <1>8, <1>9, QuietSafe DEF Safe, TypeOK

(* The process is installed, or its handle has no slot. *)
LEMMA InstallSafe ==
  ASSUME Safe, NEW ok \in BOOLEAN, install(ok)
  PROVE  Safe'
<1>1. Building /\ op \in BuildOp /\ op.step = "install"
  BY OpIsRecord DEF install, At, Building, Late, Safe
<1>2. SUFFICES ASSUME ok PROVE Safe'
  BY <1>1, FailSafe DEF install
<1>3. /\ op' = Idle /\ next_pid' = next_pid + 1
      /\ fresh' = fresh \cup {next_pid}
      /\ UNCHANGED <<image, avail, ram, map, tables, heap_break, envp_user, envp_len,
                     given>>
  BY <1>2 DEF install, process
<1>4. next_pid \in 0 .. MAX_PROCS /\ next_pid < MAX_PROCS /\ MAX_PROCS \in Nat
  BY <1>1, Constants DEF Safe, TypeOK, SpawnBounds
<1>5. next_pid' \in 0 .. MAX_PROCS
  BY <1>3, <1>4
<1>6. fresh' \subseteq Running'
  BY <1>3, <1>4 DEF Safe, TypeOK, Running
<1>7. TypeOK'
  BY <1>3, <1>5, <1>6 DEF Safe, TypeOK
<1>8. ImageChecked'
  BY <1>1, <1>3, ImageSame DEF Safe, ImageChecked, Late
<1>9. EnvMapped' /\ SpawnBounds'
  BY <1>3 DEF EnvMapped, SpawnBounds, Idle, Building, Early, Late
<1> QED
  BY <1>3, <1>7, <1>8, <1>9, MemorySame DEF Safe

(* Outside a spawn there is nothing to keep of it. *)
LEMMA IdleSafe ==
  ASSUME Safe, op = Idle, TypeOK', Unshared', UNCHANGED <<image, next_pid, op>>
  PROVE  Safe'
<1>1. op'.step = "idle" /\ op.step = "idle"
  BY DEF Idle
<1>2. ImageChecked' /\ EnvMapped' /\ SpawnBounds'
  BY <1>1, ImageSame DEF Safe, ImageChecked, EnvMapped, SpawnBounds, Building, Early, Late
<1> QED
  BY <1>2 DEF Safe

(* A program writes a byte of a page it has mapped. *)
LEMMA StoreSafe ==
  ASSUME Safe, NEW p \in Pid, NEW a \in Stores, NEW b \in Byte, store(p, a, b)
  PROVE  Safe'
<1> DEFINE f == map[p][a \div PAGE].frame
           o == a % PAGE
           row == [ram[f] EXCEPT ![o] = b]
<1>1. /\ op = Idle /\ ram' = [ram EXCEPT ![f] = row]
      /\ fresh' = fresh \ {p}
      /\ UNCHANGED <<image, avail, map, tables, heap_break, envp_user, envp_len,
                     next_pid, op, given>>
  BY DEF store, process
<1>2. ram \in [Frame -> [0 .. PAGE - 1 -> Byte]]
  BY DEF Safe, TypeOK
<1>3. f \in Frame => row \in [0 .. PAGE - 1 -> Byte]
  BY <1>2
<1> HIDE DEF row, f
<1>4. ram' \in [Frame -> [0 .. PAGE - 1 -> Byte]]
  BY <1>1, <1>2, <1>3
<1>5. TypeOK'
  BY <1>1, <1>4 DEF Safe, TypeOK, Running
<1> QED
  BY <1>1, <1>5, MemorySame, IdleSafe

(* The break of a process that may still grow. *)
LEMMA BreakPage ==
  ASSUME Safe, NEW p \in Pid, heap_break[p] + PAGE <= HEAP_MAX
  PROVE  /\ heap_break[p] \in Nat /\ heap_break[p] \div PAGE \in Page
         /\ (heap_break[p] + PAGE) \div PAGE = heap_break[p] \div PAGE + 1
<1>1. heap_break[p] \in Nat
  BY DEF Safe, TypeOK
<1> DEFINE b == heap_break[p]
<1> HIDE DEF b
<1>2. b \in Nat /\ b < USER_ADDR_MAX
  BY <1>1, Constants DEF b
<1>3. (b + 1 * PAGE) \div PAGE = b \div PAGE + 1
  BY <1>2, Constants, DivAdd
<1>4. b + 1 * PAGE = b + PAGE
  BY <1>2, Constants
<1>5. b \div PAGE \in Page
  BY <1>2, PageOf
<1> QED
  BY <1>1, <1>3, <1>4, <1>5 DEF b

(* A program grows its heap. *)
LEMMA SbrkSafe ==
  ASSUME Safe, NEW p \in Pid, sbrk(p)
  PROVE  Safe'
<1> DEFINE v == heap_break[p] \div PAGE
<1>1. /\ op = Idle /\ fresh' = fresh \ {p} /\ heap_break[p] + PAGE <= HEAP_MAX
      /\ UNCHANGED <<image, envp_user, envp_len, next_pid, op, given>>
  BY DEF sbrk
<1>2. heap_break[p] \in Nat /\ v \in Page
  BY <1>1, BreakPage
<1>3. CASE map_ok(p, v)
  <2>1. /\ alloc_map(p, v, TRUE, FALSE) /\ fill_zero
        /\ heap_break' = [heap_break EXCEPT ![p] = @ + PAGE]
    BY <1>3 DEF sbrk
  <2>2. \A w, x \in BOOLEAN : alloc_map(p, v, w, x) =>
          /\ avail' \subseteq avail /\ map' \in [Pid -> [Page -> Entry]]
          /\ tables' \in [Pid -> [TableIndex -> Frame \cup {None}]]
          /\ Unshared' /\ Min(avail) \in avail
    BY <1>2, <1>3, AllocResult DEF Safe
  <2>3. /\ avail' \subseteq avail /\ map' \in [Pid -> [Page -> Entry]]
        /\ tables' \in [Pid -> [TableIndex -> Frame \cup {None}]]
        /\ Unshared' /\ Min(avail) \in avail
    BY <2>1, <2>2
  <2>4. ram' \in [Frame -> [0 .. PAGE - 1 -> Byte]]
    BY <2>1, <2>3, ZerosType, FillSafe DEF fill_zero
  <2>5. heap_break' \in [Pid -> Nat]
    <3>1. heap_break \in [Pid -> Nat]
      BY DEF Safe, TypeOK
    <3>2. heap_break[p] + PAGE \in Nat
      BY <1>2, Constants
    <3> QED
      BY <2>1, <3>1, <3>2
  <2>6. TypeOK'
    BY <1>1, <2>3, <2>4, <2>5 DEF Safe, TypeOK, Running, Entry, TableIndex
  <2> QED
    BY <1>1, <2>3, <2>6, IdleSafe
<1>4. CASE ~map_ok(p, v)
  <2>1. lose_frame /\ UNCHANGED <<map, tables, heap_break>>
    BY <1>4 DEF sbrk
  <2>2. avail' \subseteq avail /\ ram' \in [Frame -> [0 .. PAGE - 1 -> Byte]]
    BY <2>1, LoseFrame
  <2>3. TypeOK'
    BY <1>1, <2>1, <2>2 DEF Safe, TypeOK, Running
  <2>4. Unshared'
    BY <2>1, <2>2, FewerUnshared DEF Safe
  <2> QED
    BY <1>1, <2>3, <2>4, IdleSafe
<1> QED
  BY <1>3, <1>4

(* What a heap that grows half way does to the frames. *)
LEMMA ShortResult ==
  ASSUME Safe, NEW p \in Pid, sbrk_short(p)
  PROVE  /\ heap_break[p] + PAGE <= HEAP_MAX
         /\ heap_break[p] \div PAGE \in Page
         /\ avail' = {} /\ Unshared'
         /\ map' \in [Pid -> [Page -> Entry]]
         /\ tables' \in [Pid -> [TableIndex -> Frame \cup {None}]]
         /\ ram' \in [Frame -> [0 .. PAGE - 1 -> Byte]]
         /\ map'[p][heap_break[p] \div PAGE].writable
         /\ ~map'[p][heap_break[p] \div PAGE].executable
         /\ \A q \in Pid, u \in Page :
               q # p \/ u # heap_break[p] \div PAGE => map'[q][u] = map[q][u]
         /\ \A f \in Frame \ avail : ram'[f] = ram[f]
<1> DEFINE v == heap_break[p] \div PAGE
           left == avail \ frames_for(p, v)
<1>1. /\ heap_break[p] + 2 * PAGE <= HEAP_MAX /\ map_ok(p, v)
      /\ map_page(p, v, TRUE, FALSE) /\ avail' = {}
      /\ ram' = [f \in Frame |-> IF f \in {Min(avail)} \cup left THEN Zeros ELSE ram[f]]
  BY DEF sbrk_short
<1>2. heap_break[p] \in Nat /\ heap_break[p] + PAGE <= HEAP_MAX
  <2>1. heap_break[p] \in Nat
    BY DEF Safe, TypeOK
  <2> QED
    BY <1>1, <2>1, Constants
<1>3. v \in Page
  BY <1>2, BreakPage
<1>4. left \subseteq avail
  OBVIOUS
<1> HIDE DEF v, left
<1>5. avail' \subseteq avail \ frames_for(p, v)
  BY <1>1
<1>6. \A w, x \in BOOLEAN : map_page(p, v, w, x) =>
         /\ Min(avail) \in avail
         /\ map' \in [Pid -> [Page -> Entry]]
         /\ tables' \in [Pid -> [TableIndex -> Frame \cup {None}]]
         /\ map'[p][v] = [frame |-> Min(avail), writable |-> w, executable |-> x]
         /\ \A q \in Pid, u \in Page : q # p \/ u # v => map'[q][u] = map[q][u]
         /\ Unshared'
  BY <1>1, <1>3, <1>5, MapResult DEF Safe
<1>7. /\ Min(avail) \in avail
      /\ map' \in [Pid -> [Page -> Entry]]
      /\ tables' \in [Pid -> [TableIndex -> Frame \cup {None}]]
      /\ map'[p][v] = [frame |-> Min(avail), writable |-> TRUE, executable |-> FALSE]
      /\ \A q \in Pid, u \in Page : q # p \/ u # v => map'[q][u] = map[q][u]
      /\ Unshared'
  BY <1>1, <1>6
<1>8. map'[p][v].writable /\ ~map'[p][v].executable
  BY <1>7
<1>9. /\ ram' \in [Frame -> [0 .. PAGE - 1 -> Byte]]
      /\ \A f \in Frame \ avail : ram'[f] = ram[f]
  <2>1. ram \in [Frame -> [0 .. PAGE - 1 -> Byte]]
    BY DEF Safe, TypeOK
  <2> QED
    BY <1>1, <1>4, <1>7, <2>1, ZerosType
<1> QED
  BY <1>1, <1>2, <1>3, <1>7, <1>8, <1>9 DEF v

(* A heap grows half way, or shrinks. *)
LEMMA BreakSafe ==
  ASSUME Safe, NEW p \in Pid, sbrk_short(p) \/ sbrk_shrink(p)
  PROVE  Safe'
<1>1. CASE sbrk_short(p)
  <2>1. /\ op = Idle /\ fresh' = fresh \ {p}
        /\ UNCHANGED <<image, heap_break, envp_user, envp_len, next_pid, op, given>>
    BY <1>1 DEF sbrk_short, process
  <2>2. TypeOK' /\ Unshared'
    BY <1>1, <2>1, ShortResult DEF Safe, TypeOK, Running, Entry, TableIndex
  <2> QED
    BY <2>1, <2>2, IdleSafe
<1>2. CASE sbrk_shrink(p)
  <2>1. /\ op = Idle /\ fresh' = fresh \ {p} /\ heap_break[p] - PAGE >= HEAP_START
        /\ heap_break' = [heap_break EXCEPT ![p] = heap_break[p] - PAGE]
        /\ UNCHANGED <<image, avail, ram, map, tables, envp_user, envp_len, next_pid, op,
                       given>>
    BY <1>2 DEF sbrk_shrink
  <2>2. heap_break \in [Pid -> Nat] /\ heap_break[p] \in Nat
    BY DEF Safe, TypeOK
  <2>3. heap_break[p] - PAGE \in Nat
    BY <2>1, <2>2, Constants
  <2>4. heap_break' \in [Pid -> Nat]
    BY <2>1, <2>2, <2>3
  <2>5. TypeOK'
    BY <2>1, <2>4 DEF Safe, TypeOK, Running
  <2> QED
    BY <2>1, <2>5, MemorySame, IdleSafe
<1> QED
  BY <1>1, <1>2

(* The beginnings of a spawn name the parent, and a range of its memory.   *)
LEMMA SpawnBegins ==
  ASSUME TypeOK, \/ run
                 \/ \E p \in Pid : spawn(p)
                 \/ \E p \in Pid, env \in EnvArgs : spawn_env(p, env[1], env[2])
  PROVE  \E p \in Pid : \E ptr \in Nat : \E len \in Nat :
            /\ HEAP_START + len <= USER_ADDR_MAX
            /\ len > 0 => p < next_pid
            /\ Begin(p, ptr, len)
<1>1. 0 \in Pid /\ HEAP_START + 0 <= USER_ADDR_MAX /\ 0 \in Nat /\ ~(0 > 0)
  BY Constants
<1>2. CASE run
  BY <1>1, <1>2 DEF run
<1>3. ASSUME NEW p \in Pid, spawn(p)
      PROVE  \E ptr \in Nat : \E len \in Nat :
                /\ HEAP_START + len <= USER_ADDR_MAX
                /\ len > 0 => p < next_pid
                /\ Begin(p, ptr, len)
  BY <1>1, <1>3 DEF spawn
<1>4. ASSUME NEW p \in Pid, NEW env \in EnvArgs, spawn_env(p, env[1], env[2])
      PROVE  \E ptr \in Nat : \E len \in Nat :
                /\ HEAP_START + len <= USER_ADDR_MAX
                /\ len > 0 => p < next_pid
                /\ Begin(p, ptr, len)
  <2>1. env[1] \in Nat /\ env[2] \in Nat /\ HEAP_START + env[2] <= USER_ADDR_MAX
    BY LoaderAssumption
  <2>2. p < next_pid
    BY <1>4, Constants DEF spawn_env, Running, TypeOK
  <2>3. Begin(p, 0, 0) \/ Begin(p, env[1], env[2])
    BY <1>4 DEF spawn_env
  <2> QED
    BY <1>1, <2>1, <2>2, <2>3
<1> QED
  BY <1>2, <1>3, <1>4

(* Every step keeps the first layer. *)
LEMMA StepSafe == Safe /\ [Next]_vars => Safe'
<1> SUFFICES ASSUME Safe, [Next]_vars PROVE Safe'
  OBVIOUS
<1>1. CASE \/ run
           \/ \E p \in Pid : spawn(p)
           \/ \E p \in Pid, env \in EnvArgs : spawn_env(p, env[1], env[2])
  <2>1. PICK p \in Pid : \E ptr \in Nat : \E len \in Nat :
            /\ HEAP_START + len <= USER_ADDR_MAX
            /\ len > 0 => p < next_pid
            /\ Begin(p, ptr, len)
    BY <1>1, SpawnBegins DEF Safe
  <2> QED
    BY <2>1, BeginSafe
<1>2. ASSUME NEW p \in Pid, sbrk(p) PROVE Safe'
  BY <1>2, SbrkSafe
<1>6. ASSUME NEW p \in Pid, sbrk_short(p) \/ sbrk_shrink(p) PROVE Safe'
  BY <1>6, BreakSafe
<1>3. ASSUME NEW p \in Pid, NEW a \in Stores, NEW b \in Byte, store(p, a, b)
      PROVE  Safe'
  BY <1>3, StoreSafe
<1>4. CASE SpawnStep
  <2>1. ASSUME NEW ok \in BOOLEAN, install(ok) PROVE Safe'
    BY <2>1, InstallSafe
  <2> QED
    BY <1>4, <2>1, MoveSafe, MapSafe, CopySafe, StackSafe, CreatedSafe, EnvCheckSafe,
       EnvPageSafe, EnvDoneSafe DEF SpawnStep
<1>5. CASE UNCHANGED vars
  <2>1. UNCHANGED <<image, avail, ram, map, tables, heap_break, envp_user, envp_len,
                    next_pid, op, given, fresh>>
    BY <1>5 DEF vars
  <2>2. TypeOK'
    BY <2>1 DEF Safe, TypeOK, Running
  <2>3. ImageChecked' /\ EnvMapped'
    BY <2>1, ImageSame DEF Safe, ImageChecked, EnvMapped, user_range_ok
  <2>4. SpawnBounds'
    BY <2>1, ImageSame DEF Safe, SpawnBounds, Building
  <2> QED
    BY <2>1, <2>2, <2>3, <2>4, MemorySame DEF Safe
<1> QED
  BY <1>1, <1>2, <1>3, <1>4, <1>5, <1>6 DEF Next

(* The first layer holds in every reachable state. *)
LEMMA SpecSafe == Spec => []Safe
  BY InitSafe, StepSafe, PTL DEF Spec

(* The state of the loader is well typed. *)
THEOREM LoaderTypes == Spec => []TypeOK
<1>1. Safe => TypeOK
  BY DEF Safe
<1> QED
  BY <1>1, SpecSafe, PTL

(* A set whose elements are all equal has at most one. *)
LEMMA AtMostOne ==
  ASSUME NEW S, \A x, y \in S : x = y
  PROVE  /\ Cardinality(S) \in {0, 1} /\ (Cardinality(S) = 1 => S # {})
<1>1. CASE S = {}
  BY <1>1, FS_EmptySet
<1>2. CASE S # {}
  <2>1. PICK x \in S : TRUE
    BY <1>2
  <2>2. S = {x}
    BY <2>1
  <2>3. Cardinality({x}) = 1
    BY FS_Singleton
  <2> QED
    BY <1>2, <2>2, <2>3
<1> QED
  BY <1>1, <1>2

(* No frame has two uses. *)
LEMMA SafeUnshared ==
  ASSUME Safe
  PROVE  FramesUnshared
<1> SUFFICES ASSUME NEW f \in Frame
             PROVE  Cardinality(Uses(f)) + Cardinality(TableUses(f))
                        + (IF f \in avail THEN 1 ELSE 0) <= 1
  BY DEF FramesUnshared
<1>1. f # None
  BY FramesFinite
<1>2. DOMAIN tables[0] = TableIndex
  <2>1. tables \in [Pid -> [TableIndex -> Frame \cup {None}]]
    BY DEF Safe, TypeOK, TableIndex
  <2>2. 0 \in Pid
    BY Constants
  <2> HIDE DEF TableIndex
  <2> QED
    BY ONLY <2>1, <2>2
<1>3. \A x \in Uses(f) : x[1] \in Pid /\ x[2] \in Page /\ x = <<x[1], x[2]>>
                         /\ map[x[1]][x[2]].frame = f
  BY DEF Uses
<1>4. \A x \in TableUses(f) : x[1] \in Pid /\ x[2] \in TableIndex /\ x = <<x[1], x[2]>>
                              /\ tables[x[1]][x[2]] = f
  BY <1>2 DEF TableUses
<1>5. \A x, y \in Uses(f) : x = y
  BY <1>1, <1>3 DEF Safe, Unshared, PagesDistinct
<1>6. \A x, y \in TableUses(f) : x = y
  BY <1>1, <1>4 DEF Safe, Unshared, TablesDistinct
<1>7. Uses(f) = {} \/ TableUses(f) = {}
  BY <1>1, <1>3, <1>4 DEF Safe, Unshared, PagesAreNotTables
<1>8. f \in avail => Uses(f) = {} /\ TableUses(f) = {}
  BY <1>3, <1>4 DEF Safe, Unshared, FreeIsUnused
<1> DEFINE m == Cardinality(Uses(f))
           n == Cardinality(TableUses(f))
<1>9. /\ m \in {0, 1} /\ (m = 1 => Uses(f) # {})
      /\ n \in {0, 1} /\ (n = 1 => TableUses(f) # {})
  BY <1>5, <1>6, AtMostOne
<1> HIDE DEF m, n
<1>10. m + n + (IF f \in avail THEN 1 ELSE 0) <= 1
  BY <1>7, <1>8, <1>9
<1> QED
  BY <1>10 DEF m, n

(* A frame backs one page of one process, or one page table, or is free:   *)
(* also after spawns that failed half-way, and for any number of frames.   *)
THEOREM NoFrameShared == Spec => []FramesUnshared
  BY SafeUnshared, SpecSafe, PTL
-----------------------------------------------------------------------------
(* The second layer is inductive.                                          *)

(* The processes that run come before the one that is built. *)
LEMMA RunningIsPid ==
  ASSUME TypeOK
  PROVE  /\ Running \subseteq Pid /\ next_pid \in Nat /\ next_pid \notin Running
         /\ \A p \in Running : p < next_pid
<1>1. next_pid \in 0 .. MAX_PROCS
  BY DEF TypeOK
<1>2. MAX_PROCS \in Nat \ {0} /\ Pid = 0 .. MAX_PROCS - 1
  BY Constants
<1> QED
  BY ONLY <1>1, <1>2 DEF Running

(* A spawn builds the space of the next PID. *)
LEMMA NextIsPid ==
  ASSUME Safe, Building
  PROVE  next_pid \in Pid
  BY Constants DEF Safe, SpawnBounds, TypeOK

(* The rights of a page come from the image. *)
LEMMA RightsSame ==
  ASSUME image' = image, NEW v
  PROVE  rights(v)' = rights(v)
  BY DEF rights, segments

(* A page that no segment covers gives no rights. *)
LEMMA NoRights ==
  ASSUME NEW v, v \notin ImagePages
  PROVE  ~rights(v).executable
  BY DEF rights, ImagePages

(* The pages built in each step. *)
LEMMA BuiltBy ==
  /\ op.step = "map" => Built = ImagePages \ op.pages
  /\ op.step = "copy" => Built = ImagePages
  /\ op.step = "stack" => Built = ImagePages \cup StackPage .. StackPage + op.i - 1
  /\ op.step = "env" => Built = ImagePages \cup StackPages
  /\ op.step = "envpages" =>
        Built = ImagePages \cup StackPages \cup HeapPage .. HeapPage + op.i - 1
  /\ op.step = "install" =>
        Built = ImagePages \cup StackPages \cup HeapPage .. HeapPage + pages_for(op.len) - 1
  /\ op.step \notin {"map", "copy"} \cup Late => Built = {}
  BY DEF Built, Late

(* The stack ends below the heap. *)
LEMMA StackPagesBelow ==
  /\ StackPages = StackPage .. StackPage + USER_STACK_PAGES - 1
  /\ \A v \in StackPages : v \in Nat /\ v < HeapPage
<1>1. StackPages = StackPage .. StackPage + USER_STACK_PAGES - 1
  BY DEF StackPages, StackPage
<1> QED
  BY <1>1, Constants

(* A step that maps nothing and builds nothing. *)
LEMMA QuietShape ==
  ASSUME Safe, Shape, UNCHANGED <<image, map, next_pid>>, Built' = Built,
         \A p \in Running : heap_break'[p] = heap_break[p],
         ProcessMade'
  PROVE  Shape'
<1>1. ImagePages' = ImagePages /\ \A v \in Page : rights(v)' = rights(v)
  BY ImageSame, RightsSame
<1>2. SpaceBuilt' /\ NotReached'
  BY DEF Shape, SpaceBuilt, NotReached
<1>3. AllRights'
  BY <1>1 DEF Shape, AllRights
<1>4. BreakInHeap'
  BY DEF Shape, BreakInHeap, Running
<1> QED
  BY <1>2, <1>3, <1>4 DEF Shape

(* A spawn maps one more page. *)
LEMMA SpawnAllocShape ==
  ASSUME Safe, Shape, Building, NEW v \in Page, NEW w \in BOOLEAN, NEW x \in BOOLEAN,
         map_ok(next_pid, v), alloc_map(next_pid, v, w, x),
         UNCHANGED <<image, heap_break, envp_user, envp_len, next_pid>>,
         Built' = Built \cup {v},
         op'.step = op.step, op'.len = op.len,
         w <=> (v \notin ImagePages \/ rights(v).writable),
         x <=> rights(v).executable
  PROVE  Shape'
<1>1. next_pid \in Pid /\ Running \subseteq Pid /\ next_pid \notin Running
      /\ next_pid \in Nat
  BY NextIsPid, RunningIsPid DEF Safe
<1> DEFINE e == [frame |-> Min(avail), writable |-> w, executable |-> x]
<1>2. /\ Min(avail) \in avail /\ map'[next_pid][v] = e
      /\ \A q \in Pid, u \in Page : q # next_pid \/ u # v => map'[q][u] = map[q][u]
  BY <1>1, AllocResult DEF Safe
<1>3. e # Unmapped
  <2>1. Min(avail) # None
    BY <1>2, FramesFinite DEF Safe, TypeOK
  <2> QED
    BY <2>1 DEF Unmapped
<1>4. e.writable = w /\ e.executable = x
  OBVIOUS
<1> HIDE DEF e
<1>5. ImagePages' = ImagePages /\ \A u \in Page : rights(u)' = rights(u)
  BY ImageSame, RightsSame
<1>6. SpaceBuilt'
  BY <1>1, <1>2, <1>3 DEF Shape, SpaceBuilt
<1>7. NotReached'
  BY <1>1, <1>2, Constants DEF Shape, NotReached
<1>8. AllRights'
  <2> SUFFICES ASSUME NEW q \in Pid, NEW u \in Page, map'[q][u] # Unmapped
               PROVE  /\ map'[q][u].writable <=> (u \notin ImagePages \/ rights(u).writable)
                      /\ map'[q][u].executable <=> rights(u).executable
    BY <1>5 DEF AllRights
  <2>1. CASE q = next_pid /\ u = v
    BY <1>2, <1>4, <2>1
  <2>2. CASE q # next_pid \/ u # v
    BY <1>2, <2>2 DEF Shape, AllRights
  <2> QED
    BY <2>1, <2>2
<1>9. BreakInHeap'
  BY <1>1, <1>2 DEF Shape, BreakInHeap, Running
<1>10. ProcessMade'
  BY DEF Shape, ProcessMade
<1> QED
  BY <1>6, <1>7, <1>8, <1>9, <1>10 DEF Shape

(* A spawn that fails. *)
LEMMA GiveUpShape ==
  ASSUME Safe, Shape, Building, give_up
  PROVE  Shape'
<1> DEFINE none == [v \in Page |-> Unmapped]
<1>1. /\ op' \in {Idle, Panicked} /\ map' = [map EXCEPT ![next_pid] = none]
      /\ UNCHANGED <<image, heap_break, next_pid>>
  BY DEF give_up, process
<1>2. next_pid \in Pid /\ Running \subseteq Pid /\ next_pid \notin Running
      /\ map \in [Pid -> [Page -> Entry]]
  BY NextIsPid, RunningIsPid DEF Safe, TypeOK, Entry
<1>3. /\ \A v \in Page : map'[next_pid][v] = Unmapped
      /\ \A p \in Pid : p # next_pid => map'[p] = map[p]
  BY <1>1, <1>2
<1>4. op'.step \in {"idle", "panic"}
  BY <1>1 DEF Idle, Panicked
<1>5. Built' = {}
  BY <1>4 DEF Built
<1>6. ImagePages' = ImagePages /\ \A u \in Page : rights(u)' = rights(u)
  BY <1>1, ImageSame, RightsSame
<1>7. SpaceBuilt' /\ ProcessMade'
  BY <1>1, <1>3, <1>4, <1>5 DEF SpaceBuilt, ProcessMade
<1>8. NotReached'
  BY <1>1, <1>3 DEF Shape, NotReached
<1>9. AllRights'
  BY <1>1, <1>2, <1>3, <1>6 DEF Shape, AllRights
<1>10. BreakInHeap'
  BY <1>1, <1>2, <1>3 DEF Shape, BreakInHeap, Running
<1> QED
  BY <1>7, <1>8, <1>9, <1>10 DEF Shape

(* The steps of a spawn that map nothing. *)
LEMMA MoveShape ==
  ASSUME Safe, Shape,
         \/ vspace_new \/ load_check \/ load_mapped \/ next_segment \/ loaded
         \/ copy_piece \/ created \/ env_check \/ env_done
  PROVE  Shape'
<1> USE DEF At, Goto
<1>1. Building /\ (Building => op \in BuildOp)
  BY OpIsRecord DEF vspace_new, load_check, load_mapped, next_segment, loaded,
     copy_piece, created, env_check, env_done, Copying, Building, Early, Late, Safe
<1>2. SUFFICES ASSUME ~refuse PROVE Shape'
  BY <1>1, GiveUpShape DEF refuse
<1>3. UNCHANGED <<image, map, next_pid>> /\ ImagePages' = ImagePages
  <2>1. UNCHANGED <<image, map, next_pid>>
    BY <1>2 DEF vspace_new, load_check, load_mapped, next_segment, loaded, copy_piece,
                copied, created, env_check, env_done
  <2> QED
    BY <2>1, ImageSame, SMTT(60)
<1>4. /\ op'.step = "map" => Built' = ImagePages \ op'.pages
      /\ op'.step = "copy" => Built' = ImagePages
      /\ op'.step = "stack" => Built' = ImagePages \cup StackPage .. StackPage + op'.i - 1
      /\ op'.step = "env" => Built' = ImagePages \cup StackPages
      /\ op'.step = "envpages" =>
            Built' = ImagePages \cup StackPages \cup HeapPage .. HeapPage + op'.i - 1
      /\ op'.step = "install" =>
            Built' = ImagePages \cup StackPages
                        \cup HeapPage .. HeapPage + pages_for(op'.len) - 1
      /\ op'.step \notin {"map", "copy"} \cup Late => Built' = {}
  BY <1>3, SMTT(60) DEF Built, Late
<1>5. /\ op'.len = op.len /\ next_pid \in Pid /\ next_pid \notin Running
      /\ op.len \in Nat /\ op.i \in Nat
  BY <1>1, <1>2, NextIsPid, RunningIsPid, ZenonT(60)
     DEF vspace_new, load_check, load_mapped, next_segment, loaded, copy_piece,
         copied, created, env_check, env_done, BuildOp, Safe
<1>6. CASE vspace_new \/ load_check \/ load_mapped \/ next_segment \/ loaded
           \/ copy_piece
  <2>1. UNCHANGED heap_break
    BY <1>2, <1>6 DEF vspace_new, load_check, load_mapped, next_segment, loaded,
                      copy_piece, process
  <2>2. op'.step \in {"check", "map", "copy", "stack"}
    BY <1>1, <1>2, <1>6 DEF vspace_new, load_check, load_mapped, next_segment, loaded,
                            copy_piece, copied, BuildOp, Copying
  <2>3. SUFFICES Built' = Built
    BY <1>3, <2>1, <2>2, QuietShape DEF ProcessMade
  <2>4. CASE vspace_new
    BY <1>1, <1>2, <1>4, <2>4, BuiltBy DEF vspace_new, BuildOp, Late
  <2>5. CASE load_check
    <3>1. op.step = "check" /\ op'.step = "map" /\ op'.pages = ImagePages
      BY <1>1, <1>2, <2>5 DEF load_check, ImagePages, BuildOp
    <3> QED
      BY <1>4, <3>1, BuiltBy DEF Late
  <2>6. CASE load_mapped
    BY <1>1, <1>4, <2>6, BuiltBy DEF load_mapped, BuildOp
  <2>7. CASE next_segment \/ copy_piece
    <3>1. op.step = "copy" /\ op'.step = "copy"
      BY <1>1, <1>2, <2>7 DEF next_segment, copy_piece, copied, Copying, BuildOp
    <3> QED
      BY <1>4, <3>1, BuiltBy, SMTT(60)
  <2>8. CASE loaded
    <3>1. op.step = "copy" /\ op'.step = "stack" /\ op'.i = 0
      BY <1>1, <2>8 DEF loaded, BuildOp
    <3>2. StackPage .. StackPage + 0 - 1 = {}
      BY Constants
    <3> QED
      BY <1>4, <3>1, <3>2, BuiltBy
  <2> QED
    BY <1>6, <2>4, <2>5, <2>6, <2>7, <2>8
<1>7. CASE created
  <2>1. /\ op.step = "stack" /\ op.i = USER_STACK_PAGES
        /\ op'.step = IF op.len = 0 THEN "install" ELSE "env"
        /\ heap_break' = [heap_break EXCEPT ![next_pid] = HEAP_START]
        /\ envp_user' = [envp_user EXCEPT ![next_pid] = 0]
        /\ envp_len' = [envp_len EXCEPT ![next_pid] = 0]
    BY <1>1, <1>7 DEF created, BuildOp
  <2>2. /\ heap_break'[next_pid] = HEAP_START
        /\ envp_user'[next_pid] = 0 /\ envp_len'[next_pid] = 0
        /\ \A p \in Running : heap_break'[p] = heap_break[p]
    BY <1>5, <2>1, RunningIsPid DEF Safe, TypeOK
  <2>3. pages_for(0) = 0 /\ HeapPage .. HeapPage + pages_for(0) - 1 = {}
    <3>1. pages_for(0) \in Nat /\ pages_for(0) <= 0
      BY Constants, PagesFor
    <3> QED
      BY <3>1, Constants
  <2>4. Built' = Built
    <3>1. Built = ImagePages \cup StackPages
      BY <2>1, BuiltBy, StackPagesBelow
    <3>2. CASE op.len = 0
      BY <1>4, <1>5, <2>1, <2>3, <3>1, <3>2
    <3>3. CASE op.len # 0
      BY <1>4, <2>1, <3>1, <3>3
    <3> QED
      BY <3>2, <3>3
  <2>5. ProcessMade'
    <3>1. HEAP_START \div PAGE = HeapPage + 0
      BY Constants DEF HeapPage
    <3> QED
      BY <1>3, <1>5, <2>1, <2>2, <2>3, <3>1 DEF ProcessMade
  <2> QED
    BY <1>3, <2>2, <2>4, <2>5, QuietShape
<1>8. CASE env_check
  <2>1. op.step = "env" /\ op'.step = "envpages" /\ op'.i = 0
        /\ UNCHANGED <<heap_break, envp_user, envp_len>>
    BY <1>1, <1>2, <1>8 DEF env_check, BuildOp, process
  <2>2. HeapPage .. HeapPage + 0 - 1 = {}
    BY Constants
  <2>3. Built' = Built
    BY <1>4, <2>1, <2>2, BuiltBy
  <2>4. ProcessMade'
    BY <1>3, <2>1 DEF Shape, ProcessMade
  <2> QED
    BY <1>3, <2>1, <2>3, <2>4, QuietShape
<1>9. CASE env_done
  <2>1. /\ op.step = "envpages" /\ op.i = pages_for(op.len) /\ op'.step = "install"
        /\ envp_user' = [envp_user EXCEPT ![next_pid] = HEAP_START]
        /\ envp_len' = [envp_len EXCEPT ![next_pid] = op.len]
        /\ heap_break' = [heap_break EXCEPT ![next_pid] =
                            HEAP_START + pages_for(op.len) * PAGE]
    BY <1>1, <1>9 DEF env_done, BuildOp, env_pages
  <2>2. /\ heap_break'[next_pid] = HEAP_START + pages_for(op.len) * PAGE
        /\ envp_user'[next_pid] = HEAP_START /\ envp_len'[next_pid] = op.len
        /\ \A p \in Running : heap_break'[p] = heap_break[p]
    BY <1>5, <2>1, RunningIsPid DEF Safe, TypeOK
  <2>3. HEAP_START + op.len <= USER_ADDR_MAX /\ op.len > 0
    BY <1>1, <2>1 DEF Safe, SpawnBounds
  <2>4. pages_for(op.len) \in Nat
    BY <1>5, <2>3, EnvPageFits
  <2>5. (HEAP_START + pages_for(op.len) * PAGE) \div PAGE = HeapPage + pages_for(op.len)
    BY <2>4, Constants, DivAdd DEF HeapPage
  <2>6. Built' = Built
    BY <1>4, <1>5, <2>1, BuiltBy
  <2>7. ProcessMade'
    BY <1>3, <1>5, <2>1, <2>2, <2>3, <2>5 DEF ProcessMade
  <2> QED
    BY <1>3, <2>2, <2>6, <2>7, QuietShape
<1> QED
  BY <1>6, <1>7, <1>8, <1>9

(* load's second pass: the page gets the rights of its segments. *)
LEMMA MapShape ==
  ASSUME Safe, Shape, load_map
  PROVE  Shape'
<1> DEFINE v == Min(op.pages)
<1>1. Building /\ op \in BuildOp /\ op.step = "map" /\ op.pages # {}
  BY OpIsRecord DEF load_map, At, Building, Early, Safe
<1>2. SUFFICES ASSUME map_ok(next_pid, v) PROVE Shape'
  BY <1>1, GiveUpShape DEF load_map
<1>3. /\ alloc_map(next_pid, v, rights(v).writable, rights(v).executable)
      /\ op' = [op EXCEPT !.pages = @ \ {v}]
      /\ UNCHANGED <<image, heap_break, envp_user, envp_len, next_pid>>
  BY <1>2 DEF load_map, process
<1>4. op.pages \subseteq Page /\ Page \subseteq Nat /\ op.pages \subseteq ImagePages
  BY <1>1, Constants DEF BuildOp, Safe, SpawnBounds
<1>5. v \in op.pages
  BY <1>1, <1>4, MinIsLeast
<1> HIDE DEF v
<1>6. op'.step = op.step /\ op'.len = op.len /\ op'.pages = op.pages \ {v}
  BY <1>1, <1>3 DEF BuildOp
<1>7. Built' = ImagePages \ op'.pages /\ Built = ImagePages \ op.pages
  BY <1>1, <1>3, <1>6, ImageSame DEF Built
<1>8. Built' = Built \cup {v}
  BY <1>4, <1>5, <1>6, <1>7
<1>9. rights(v).writable <=> (v \notin ImagePages \/ rights(v).writable)
  BY <1>4, <1>5
<1> QED
  BY <1>1, <1>2, <1>3, <1>4, <1>5, <1>6, <1>8, <1>9, RightsType, SpawnAllocShape

(* Stack and environment pages that no segment covers: writable, not       *)
(* executable.                                                             *)
LEMMA DataPageShape ==
  ASSUME Safe, Shape, Building, NEW v \in Page, v \notin ImagePages,
         map_ok(next_pid, v), alloc_map(next_pid, v, TRUE, FALSE),
         UNCHANGED <<image, heap_break, envp_user, envp_len, next_pid>>,
         Built' = Built \cup {v}, op'.step = op.step, op'.len = op.len
  PROVE  Shape'
<1>1. ~rights(v).executable
  BY NoRights
<1>2. \A w, x \in BOOLEAN : w /\ ~x /\ alloc_map(next_pid, v, w, x) => Shape'
  BY <1>1, SpawnAllocShape
<1> QED
  BY <1>2

(* The user stack. *)
LEMMA StackShape ==
  ASSUME Safe, Shape, stack_page
  PROVE  Shape'
<1> DEFINE v == USER_STACK_VA \div PAGE + op.i
<1>1. Building /\ op \in BuildOp /\ op.step = "stack" /\ op.i < USER_STACK_PAGES
  BY OpIsRecord DEF stack_page, At, Building, Late, Safe
<1>2. SUFFICES ASSUME map_ok(next_pid, v) PROVE Shape'
  BY <1>1, GiveUpShape DEF stack_page
<1>3. /\ alloc_map(next_pid, v, TRUE, FALSE) /\ op' = [op EXCEPT !.i = @ + 1]
      /\ UNCHANGED <<image, heap_break, envp_user, envp_len, next_pid>>
  BY <1>2 DEF stack_page, process
<1>4. op.i \in Nat /\ v = StackPage + op.i /\ v \in Page
  BY <1>1, StackBelowHeap DEF StackPage, BuildOp
<1> HIDE DEF v
<1>5. op'.step = op.step /\ op'.len = op.len /\ op'.i = op.i + 1
  BY <1>1, <1>3, <1>4 DEF BuildOp
<1>6. /\ Built' = ImagePages \cup StackPage .. StackPage + op'.i - 1
      /\ Built = ImagePages \cup StackPage .. StackPage + op.i - 1
  BY <1>1, <1>3, <1>5, ImageSame DEF Built
<1>7. StackPage .. StackPage + op'.i - 1 = (StackPage .. StackPage + op.i - 1) \cup {v}
  BY <1>4, <1>5, Constants
<1>8. Built' = Built \cup {v}
  BY <1>6, <1>7
<1>9. v \notin ImagePages
  BY <1>1, <1>2, <1>4, <1>6, NextIsPid DEF map_ok, Shape, SpaceBuilt
<1> QED
  BY <1>1, <1>2, <1>3, <1>4, <1>5, <1>8, <1>9, DataPageShape

(* The pages of the environment lie in the heap. *)
LEMMA EnvPageShape ==
  ASSUME Safe, Shape, env_page
  PROVE  Shape'
<1> DEFINE v == HEAP_START \div PAGE + op.i
<1>1. Building /\ op \in BuildOp /\ op.step = "envpages" /\ op.i < pages_for(op.len)
  BY OpIsRecord DEF env_page, At, Building, Late, Safe, env_pages
<1>2. SUFFICES ASSUME map_ok(next_pid, v) PROVE Shape'
  BY <1>1, GiveUpShape DEF env_page
<1>3. /\ alloc_map(next_pid, v, TRUE, FALSE) /\ op' = [op EXCEPT !.i = @ + 1]
      /\ UNCHANGED <<image, heap_break, envp_user, envp_len, next_pid>>
  BY <1>2 DEF env_page, process
<1>4. op.i \in Nat /\ op.len \in Nat /\ v = HeapPage + op.i
  BY <1>1 DEF HeapPage, BuildOp
<1>5. HEAP_START + op.len <= USER_ADDR_MAX
  BY <1>1 DEF Safe, SpawnBounds
<1>6. v \in Page
  BY <1>1, <1>4, <1>5, EnvPageFits
<1> HIDE DEF v
<1>7. op'.step = op.step /\ op'.len = op.len /\ op'.i = op.i + 1
  BY <1>1, <1>3, <1>4 DEF BuildOp
<1>8. /\ Built' = ImagePages \cup StackPages \cup HeapPage .. HeapPage + op'.i - 1
      /\ Built = ImagePages \cup StackPages \cup HeapPage .. HeapPage + op.i - 1
  BY <1>1, <1>3, <1>7, ImageSame DEF Built
<1>9. HeapPage .. HeapPage + op'.i - 1 = (HeapPage .. HeapPage + op.i - 1) \cup {v}
  BY <1>4, <1>7, Constants
<1>10. Built' = Built \cup {v}
  BY <1>8, <1>9
<1>11. v \notin ImagePages
  BY <1>1, <1>2, <1>6, <1>8, NextIsPid DEF map_ok, Shape, SpaceBuilt
<1> QED
  BY <1>1, <1>2, <1>3, <1>6, <1>7, <1>10, <1>11, DataPageShape

(* The process is installed: what it has mapped lies below its break. *)
LEMMA InstallShape ==
  ASSUME Safe, Shape, NEW ok \in BOOLEAN, install(ok)
  PROVE  Shape'
<1>1. Building /\ op \in BuildOp /\ op.step = "install"
  BY OpIsRecord DEF install, At, Building, Late, Safe
<1>2. SUFFICES ASSUME ok PROVE Shape'
  BY <1>1, GiveUpShape DEF install, refuse
<1>3. /\ op' = Idle /\ next_pid' = next_pid + 1
      /\ UNCHANGED <<image, map, heap_break>>
  BY <1>2 DEF install, process
<1>4. /\ next_pid \in Pid /\ next_pid \in Nat
      /\ Running' = Running \cup {next_pid}
  BY <1>1, <1>3, NextIsPid, RunningIsPid DEF Safe, Running
<1>5. op'.step = "idle"
  BY <1>3 DEF Idle
<1>6. Built' = {}
  BY <1>5 DEF Built
<1>7. ImagePages' = ImagePages /\ \A u \in Page : rights(u)' = rights(u)
  BY <1>3, ImageSame, RightsSame
<1>8. SpaceBuilt' /\ NotReached'
  BY <1>3, <1>4, <1>6, Constants DEF Shape, SpaceBuilt, NotReached
<1>9. AllRights'
  BY <1>3, <1>7 DEF Shape, AllRights
<1>10. ProcessMade'
  BY <1>5 DEF ProcessMade
<1>11. /\ heap_break[next_pid] \div PAGE = HeapPage + pages_for(op.len)
       /\ pages_for(op.len) \in Nat
  BY <1>1, EnvPageFits DEF Shape, ProcessMade, Safe, SpawnBounds, BuildOp
<1>12. BreakInHeap'
  <2>2. heap_break[next_pid] \div PAGE >= HeapPage
    BY <1>11, Constants
  <2> QED
    BY <1>3, <1>4, <2>2 DEF Shape, BreakInHeap
<1> QED
  BY <1>8, <1>9, <1>10, <1>12 DEF Shape

(* A page above the start of the heap is mapped for a running process.     *)
LEMMA GrowShape ==
  ASSUME Safe, Shape, op = Idle, NEW p \in Running, heap_break[p] + PAGE <= HEAP_MAX,
         UNCHANGED <<image, next_pid, op>>,
         heap_break' \in [Pid -> Nat],
         heap_break'[p] \div PAGE >= HeapPage,
         \A q \in Running : q # p => heap_break'[q] = heap_break[q],
         map'[p][heap_break[p] \div PAGE].writable,
         ~map'[p][heap_break[p] \div PAGE].executable,
         \A q \in Pid, u \in Page :
             q # p \/ u # heap_break[p] \div PAGE => map'[q][u] = map[q][u]
  PROVE  Shape'
<1> DEFINE v == heap_break[p] \div PAGE
<1>1. p \in Pid /\ p < next_pid /\ next_pid \in Nat
  BY RunningIsPid DEF Safe
<1>2. v \in Page /\ heap_break[p] \in Nat
  BY <1>1, BreakPage
<1>3. op.step = "idle"
  BY DEF Idle
<1>4. Built' = Built /\ ProcessMade'
  BY <1>3 DEF Built, ProcessMade
<1>5. v >= HeapPage
  BY DEF Shape, BreakInHeap
<1>6. map'[p][v].writable /\ ~map'[p][v].executable
      /\ \A q \in Pid, u \in Page : q # p \/ u # v => map'[q][u] = map[q][u]
  OBVIOUS
<1> HIDE DEF v
<1>7. v \notin ImagePages
  <2>1. ImageLow
    BY <1>1, Constants DEF Safe, ImageChecked
  <2> QED
    BY <1>2, <1>5, <2>1, ImageBelowHeap, Constants DEF Safe
<1>8. ImagePages' = ImagePages /\ \A u \in Page : rights(u)' = rights(u)
  BY ImageSame, RightsSame
<1>12. p # next_pid /\ ~(p > next_pid) /\ Pid \subseteq Int
  BY <1>1, Constants
<1>9. SpaceBuilt' /\ NotReached'
  <2>1. \A q \in Pid, u \in Page : q # p => map'[q][u] = map[q][u]
    BY <1>6
  <2>2. SpaceBuilt'
    BY <1>4, <1>12, <2>1 DEF Shape, SpaceBuilt
  <2>3. NotReached'
    BY <1>12, <2>1 DEF Shape, NotReached
  <2> QED
    BY <2>2, <2>3
<1>10. AllRights'
  <2> SUFFICES ASSUME NEW q \in Pid, NEW u \in Page, map'[q][u] # Unmapped
               PROVE  /\ map'[q][u].writable <=> (u \notin ImagePages \/ rights(u).writable)
                      /\ map'[q][u].executable <=> rights(u).executable
    BY <1>8 DEF AllRights
  <2>1. CASE q = p /\ u = v
    BY <1>6, <1>7, <2>1, NoRights
  <2>2. CASE q # p \/ u # v
    BY <1>6, <2>2 DEF Shape, AllRights
  <2> QED
    BY <2>1, <2>2
<1>11. BreakInHeap'
  <2>1. Running' = Running
    BY DEF Running
  <2> QED
    BY <2>1 DEF Shape, BreakInHeap
<1> QED
  BY <1>4, <1>9, <1>10, <1>11 DEF Shape

(* SBRK maps the page at the break, which no segment covers, moves the     *)
(* break, or leaves both.                                                  *)
LEMMA SbrkShape ==
  ASSUME Safe, Shape, NEW p \in Pid, sbrk(p) \/ sbrk_short(p) \/ sbrk_shrink(p)
  PROVE  Shape'
<1> DEFINE v == heap_break[p] \div PAGE
<1>1. /\ op = Idle /\ p \in Running
      /\ UNCHANGED <<image, envp_user, envp_len, next_pid, op>>
  BY DEF sbrk, sbrk_short, sbrk_shrink, process
<1>2. op.step = "idle"
  BY <1>1 DEF Idle
<1>3. Built' = Built /\ ProcessMade'
  BY <1>1, <1>2 DEF Built, ProcessMade
<1>4. heap_break \in [Pid -> Nat] /\ heap_break[p] \in Nat /\ v >= HeapPage
  BY <1>1 DEF Safe, TypeOK, Shape, BreakInHeap
<1>5. Safe' /\ heap_break' \in [Pid -> Nat]
  <2>1. Safe'
    BY SbrkSafe, BreakSafe
  <2> QED
    BY <2>1 DEF Safe, TypeOK
<1>6. Running \subseteq Pid
  BY RunningIsPid DEF Safe
<1>7. CASE sbrk(p) /\ ~map_ok(p, v)
  <2>1. UNCHANGED <<map, heap_break>>
    BY <1>7 DEF sbrk
  <2> QED
    BY <1>1, <1>3, <2>1, QuietShape
<1>8. CASE sbrk(p) /\ map_ok(p, v)
  <2>1. /\ alloc_map(p, v, TRUE, FALSE) /\ heap_break[p] + PAGE <= HEAP_MAX
        /\ heap_break' = [heap_break EXCEPT ![p] = heap_break[p] + PAGE]
    BY <1>8 DEF sbrk
  <2>2. v \in Page /\ (heap_break[p] + PAGE) \div PAGE = v + 1
    BY <2>1, BreakPage
  <2>3. heap_break'[p] \div PAGE >= HeapPage
        /\ \A q \in Running : q # p => heap_break'[q] = heap_break[q]
    <3>1. heap_break'[p] = heap_break[p] + PAGE
          /\ \A q \in Running : q # p => heap_break'[q] = heap_break[q]
      BY <1>4, <1>6, <2>1
    <3> QED
      BY <1>4, <2>2, <3>1, Constants
  <2>4. \A w, x \in BOOLEAN : alloc_map(p, v, w, x) =>
          /\ map'[p][v] = [frame |-> Min(avail), writable |-> w, executable |-> x]
          /\ \A q \in Pid, u \in Page : q # p \/ u # v => map'[q][u] = map[q][u]
    BY <1>8, <2>2, AllocResult DEF Safe
  <2>5. /\ map'[p][v] = [frame |-> Min(avail), writable |-> TRUE, executable |-> FALSE]
        /\ \A q \in Pid, u \in Page : q # p \/ u # v => map'[q][u] = map[q][u]
    BY <2>1, <2>4
  <2>6. map'[p][v].writable /\ ~map'[p][v].executable
    BY <2>5
  <2> QED
    BY <1>1, <1>5, <2>1, <2>3, <2>5, <2>6, GrowShape
<1>9. CASE sbrk_short(p)
  <2>1. heap_break' = heap_break
    BY <1>9 DEF sbrk_short, process
  <2> QED
    BY <1>1, <1>4, <1>5, <1>9, <2>1, ShortResult, GrowShape
<1>10. CASE sbrk_shrink(p)
  <2>1. /\ UNCHANGED map /\ heap_break[p] - PAGE >= HEAP_START
        /\ heap_break' = [heap_break EXCEPT ![p] = heap_break[p] - PAGE]
    BY <1>10 DEF sbrk_shrink
  <2>2. /\ heap_break'[p] \div PAGE >= HeapPage
        /\ \A q \in Running : q # p => heap_break'[q] = heap_break[q]
    <3> DEFINE b == heap_break[p] - PAGE
    <3>1. b \in Nat /\ b >= HEAP_START
      <4>1. PICK h \in Nat : h = heap_break[p]
        BY <1>4
      <4>2. h - PAGE >= HEAP_START /\ b = h - PAGE
        BY <2>1, <4>1
      <4>3. PAGE \in Nat /\ HEAP_START \in Nat
        BY Constants
      <4> QED
        BY ONLY <4>2, <4>3, h \in Nat
    <3>2. /\ heap_break'[p] = b
          /\ \A q \in Running : q # p => heap_break'[q] = heap_break[q]
      BY <1>4, <1>6, <2>1
    <3> HIDE DEF b
    <3>3. b \div PAGE >= HEAP_START \div PAGE
      BY <3>1, DivMono, DivMod, Constants
    <3> QED
      BY <3>2, <3>3 DEF HeapPage
  <2>3. Running' = Running
    BY <1>1 DEF Running
  <2>4. BreakInHeap'
    BY <2>2, <2>3 DEF Shape, BreakInHeap
  <2>5. ImagePages' = ImagePages /\ \A u \in Page : rights(u)' = rights(u)
    BY <1>1, ImageSame, RightsSame
  <2>6. SpaceBuilt' /\ NotReached' /\ AllRights'
    BY <1>1, <1>3, <2>1, <2>5 DEF Shape, SpaceBuilt, NotReached, AllRights
  <2> QED
    BY <1>3, <2>4, <2>6 DEF Shape
<1> QED
  BY <1>7, <1>8, <1>9, <1>10

(* Every step keeps the second layer. *)
LEMMA StepShape == Safe /\ Shape /\ [Next]_vars => Shape'
<1> SUFFICES ASSUME Safe, Shape, [Next]_vars PROVE Shape'
  OBVIOUS
<1>1. CASE \/ run
           \/ \E p \in Pid : spawn(p)
           \/ \E p \in Pid, env \in EnvArgs : spawn_env(p, env[1], env[2])
  <2>1. PICK p \in Pid : \E ptr \in Nat : \E len \in Nat : Begin(p, ptr, len)
    BY <1>1, SpawnBegins DEF Safe
  <2>2. /\ op = Idle /\ op'.step = "space"
        /\ UNCHANGED <<image, map, next_pid, heap_break>>
    BY <2>1 DEF Begin, process
  <2>3. Built' = Built
    BY <2>2 DEF Built, Idle
  <2> QED
    BY <2>2, <2>3, QuietShape DEF ProcessMade
<1>2. ASSUME NEW p \in Pid, sbrk(p) \/ sbrk_short(p) \/ sbrk_shrink(p) PROVE Shape'
  BY <1>2, SbrkShape
<1>3. ASSUME NEW p \in Pid, NEW a \in Stores, NEW b \in Byte, store(p, a, b)
      PROVE  Shape'
  <2>1. UNCHANGED <<image, map, heap_break, envp_user, envp_len, next_pid, op>>
    BY <1>3 DEF store, process
  <2>2. Built' = Built /\ ProcessMade'
    BY <2>1, ImageSame DEF Built, Shape, ProcessMade
  <2> QED
    BY <2>1, <2>2, QuietShape
<1>4. CASE SpawnStep
  <2>1. ASSUME NEW ok \in BOOLEAN, install(ok) PROVE Shape'
    BY <2>1, InstallShape
  <2> QED
    BY <1>4, <2>1, MoveShape, MapShape, StackShape, EnvPageShape DEF SpawnStep
<1>5. CASE UNCHANGED vars
  <2>1. UNCHANGED <<image, map, heap_break, envp_user, envp_len, next_pid, op>>
    BY <1>5 DEF vars
  <2>2. Built' = Built /\ ProcessMade'
    BY <2>1, ImageSame DEF Built, Shape, ProcessMade
  <2> QED
    BY <2>1, <2>2, QuietShape
<1> QED
  BY <1>1, <1>2, <1>3, <1>4, <1>5 DEF Next

(* The initial state: nothing is mapped. *)
LEMMA InitShape == Init => Shape
<1> SUFFICES ASSUME Init PROVE Shape
  OBVIOUS
<1>1. /\ \A p \in Pid, v \in Page : map[p][v] = Unmapped
      /\ op.step = "idle" /\ Running = {}
  BY DEF Init, Idle, Running
<1>2. Built = {}
  BY <1>1 DEF Built
<1> QED
  BY <1>1, <1>2 DEF Shape, SpaceBuilt, NotReached, AllRights, BreakInHeap,
                    ProcessMade

(* The second layer holds in every reachable state. *)
LEMMA SpecShape == Spec => []Shape
<1>1. Spec => []Safe
  BY SpecSafe
<1> QED
  BY <1>1, InitShape, StepShape, PTL DEF Spec

(* Every page of a process has the rights of the segments that share it,   *)
(* and stack, heap and environment are not executable, whatever spawns     *)
(* failed before and however the heaps grew.                               *)
THEOREM RightsAreLinked == Spec => []RightsAsLinked
<1>1. Safe /\ Shape => RightsAsLinked
  <2> SUFFICES ASSUME Safe, Shape, NEW p \in Running, NEW v \in Page,
                      map[p][v] # Unmapped
               PROVE  LET on == {k \in DOMAIN segments : v \in Covered(segments[k])}
                      IN  /\ map[p][v].writable <=>
                               on = {} \/ \E k \in on : segments[k].writable
                          /\ map[p][v].executable <=> \E k \in on : segments[k].executable
    BY DEF RightsAsLinked
  <2> DEFINE on == {k \in DOMAIN segments : v \in Covered(segments[k])}
  <2>1. v \notin ImagePages <=> on = {}
    BY DEF ImagePages
  <2>2. /\ rights(v).writable <=> \E k \in on : segments[k].writable
        /\ rights(v).executable <=> \E k \in on : segments[k].executable
    BY DEF rights
  <2>3. /\ map[p][v].writable <=> (v \notin ImagePages \/ rights(v).writable)
        /\ map[p][v].executable <=> rights(v).executable
    BY RunningIsPid DEF Safe, Shape, AllRights
  <2> HIDE DEF on
  <2>4. /\ map[p][v].writable <=> on = {} \/ \E k \in on : segments[k].writable
        /\ map[p][v].executable <=> \E k \in on : segments[k].executable
    BY <2>1, <2>2, <2>3
  <2> QED
    BY <2>4 DEF on
<1> QED
  BY <1>1, SpecSafe, SpecShape, PTL

-----------------------------------------------------------------------------
(* A spawn leaves the memory of the others alone.                          *)

(* The step keeps the address space of p and what its pages hold. *)
Kept(p) ==
    \A v \in Page :
        /\ map'[p][v] = map[p][v]
        /\ map[p][v] # Unmapped => ram'[map[p][v].frame] = ram[map[p][v].frame]

(* A mapped page has a frame, which is not free. *)
LEMMA MappedFrame ==
  ASSUME Safe, NEW p \in Pid, NEW v \in Page, map[p][v] # Unmapped
  PROVE  map[p][v].frame \in Frame \ avail /\ map[p][v].frame # None
<1>1. map[p][v] \in Entry
  BY DEF Safe, TypeOK, Entry
<1> QED
  BY <1>1 DEF Entry, Safe, Unshared, NoneIsUnmapped, FreeIsUnused

(* A step that leaves the frames in use and the space of p alone. *)
LEMMA KeptBy ==
  ASSUME Safe, NEW p \in Pid,
         \A v \in Page : map'[p][v] = map[p][v],
         \A f \in Frame \ avail : ram'[f] = ram[f]
  PROVE  Kept(p)
  BY MappedFrame DEF Kept

(* The failure of a spawn. *)
LEMMA GiveUpKeeps ==
  ASSUME Safe, Building, refuse \/ (give_up /\ lose_frame), NEW p \in Pid, p # next_pid
  PROVE  Kept(p)
<1> DEFINE none == [v \in Page |-> Unmapped]
<1>1. map' = [map EXCEPT ![next_pid] = none]
  BY DEF refuse, give_up
<1>2. \A v \in Page : map'[p][v] = map[p][v]
  BY <1>1 DEF Safe, TypeOK
<1>3. \A f \in Frame \ avail : ram'[f] = ram[f]
  BY LoseFrame DEF refuse
<1> QED
  BY <1>2, <1>3, KeptBy

(* A page mapped for the new space, in a frame filled with given bytes:    *)
(* what it does to that space ...                                          *)
LEMMA AllocOwn ==
  ASSUME Safe, NEW q \in Pid, NEW v \in Page, NEW w \in BOOLEAN, NEW x \in BOOLEAN,
         map_ok(q, v), alloc_map(q, v, w, x),
         \A f \in Frame \ avail : ram'[f] = ram[f]
  PROVE  /\ map'[q][v].frame = Min(avail)
         /\ \A u \in Page : u # v =>
                /\ map'[q][u] = map[q][u]
                /\ map[q][u] # Unmapped => ram'[map[q][u].frame] = ram[map[q][u].frame]
<1>1. /\ Min(avail) \in avail
      /\ map'[q][v] = [frame |-> Min(avail), writable |-> w, executable |-> x]
      /\ \A r \in Pid, u \in Page : r # q \/ u # v => map'[r][u] = map[r][u]
  BY AllocResult DEF Safe
<1>2. map'[q][v].frame = Min(avail)
  BY <1>1
<1>3. \A u \in Page : u # v =>
         /\ map'[q][u] = map[q][u]
         /\ map[q][u] # Unmapped => ram'[map[q][u].frame] = ram[map[q][u].frame]
  BY <1>1, MappedFrame
<1> QED
  BY <1>2, <1>3

(* ... and to the others.                                                  *)
LEMMA AllocKeeps ==
  ASSUME Safe, NEW q \in Pid, NEW v \in Page, NEW w \in BOOLEAN, NEW x \in BOOLEAN,
         map_ok(q, v), alloc_map(q, v, w, x),
         NEW bytes \in [0 .. PAGE - 1 -> Byte],
         ram' = [ram EXCEPT ![Min(avail)] = bytes],
         NEW p \in Pid, p # q
  PROVE  Kept(p)
<1>1. /\ Min(avail) \in avail
      /\ \A r \in Pid, u \in Page : r # q \/ u # v => map'[r][u] = map[r][u]
  BY AllocResult, ZenonT(60) DEF Safe
<1>2. \A f \in Frame \ avail : ram'[f] = ram[f]
  BY <1>1, FillSafe
<1> QED
  BY <1>1, <1>2, KeptBy

(* A piece is copied into a frame of the new space. *)
LEMMA CopyKeeps ==
  ASSUME Safe, copy_piece, NEW p \in Running
  PROVE  Kept(p)
<1>1. Building /\ op \in BuildOp /\ Copying /\ op.i < this.filesz /\ op.step = "copy"
  BY OpIsRecord DEF copy_piece, Copying, At, Building, Early, Safe
<1>2. p \in Pid /\ p # next_pid /\ next_pid \in Pid
  BY <1>1, RunningIsPid, NextIsPid DEF Safe
<1>3. SUFFICES ASSUME piece_ok PROVE Kept(p)
  BY <1>1, <1>2, GiveUpKeeps DEF copy_piece
<1> DEFINE u == va \div PAGE
           f == map[next_pid][u].frame
<1>4. map' = map /\ \E row : ram' = [ram EXCEPT ![f] = row]
  BY <1>3 DEF copy_piece, copied
<1>5. u \in Page
  <2>1. ImageLow
    BY <1>1 DEF Safe, ImageChecked
  <2>2. u \in ImagePages
    BY <1>3 DEF piece_ok, ImagePages
  <2> QED
    BY <2>1, <2>2, ImageBelowHeap DEF Safe
<1> HIDE DEF u
<1>6. ASSUME NEW v \in Page, map[p][v] # Unmapped
      PROVE  ram'[map[p][v].frame] = ram[map[p][v].frame]
  <2>1. map[p][v].frame \in Frame /\ map[p][v].frame # None
    BY <1>2, <1>6, MappedFrame
  <2>2. map[p][v].frame # f
    BY <1>2, <1>5, <2>1 DEF Safe, Unshared, PagesDistinct
  <2> HIDE DEF f
  <2>3. ram \in [Frame -> [0 .. PAGE - 1 -> Byte]]
    BY DEF Safe, TypeOK
  <2> QED
    BY <1>4, <2>1, <2>2, <2>3
<1> QED
  BY <1>4, <1>6 DEF Kept

(* Every step of a spawn, also one that fails. *)
LEMMA SpawnKeeps ==
  ASSUME Safe, SpawnStep, NEW p \in Running
  PROVE  Kept(p)
<1> USE DEF At
<1>1. Building /\ op \in BuildOp
  <2>1. op.step \in Early \cup Late
    BY DEF SpawnStep, vspace_new, load_check, load_map, load_mapped, copy_piece,
       next_segment, loaded, stack_page, created, env_check, env_page, env_done,
       install, Copying, Early, Late
  <2> QED
    BY <2>1, OpIsRecord DEF Building, Safe
<1>2. p \in Pid /\ p # next_pid /\ next_pid \in Pid
  BY <1>1, RunningIsPid, NextIsPid DEF Safe
<1>3. SUFFICES ASSUME ~refuse, ~(give_up /\ lose_frame) PROVE Kept(p)
  BY <1>1, <1>2, GiveUpKeeps
<1>4. CASE \/ vspace_new \/ load_check \/ load_mapped \/ next_segment \/ loaded
           \/ created \/ env_check \/ env_done \/ \E ok \in BOOLEAN : install(ok)
  <2>1. UNCHANGED <<map, ram>>
    BY <1>3, <1>4 DEF vspace_new, load_check, load_mapped, next_segment, loaded,
       created, env_check, env_done, install
  <2> QED
    BY <2>1 DEF Kept
<1>5. CASE copy_piece
  BY <1>5, CopyKeeps
<1>6. CASE load_map
  <2> DEFINE v == Min(op.pages)
  <2>1. /\ map_ok(next_pid, v) /\ fill_zero
        /\ alloc_map(next_pid, v, rights(v).writable, rights(v).executable)
    BY <1>3, <1>6 DEF load_map
  <2>2. v \in Page
    <3>2. op.pages # {}
      BY <1>6 DEF load_map
    <3>3. op.pages \subseteq Page
      BY <1>1 DEF BuildOp
    <3>1. op.pages \subseteq Nat /\ op.pages # {} /\ op.pages \subseteq Page
      BY <3>2, <3>3, Constants
    <3> QED
      BY <3>1, MinIsLeast
  <2> HIDE DEF v
  <2> QED
    <3>1. \A w, x \in BOOLEAN : alloc_map(next_pid, v, w, x) => Kept(p)
      BY <1>2, <2>1, <2>2, ZerosType, AllocKeeps DEF fill_zero
    <3>2. rights(v).writable \in BOOLEAN /\ rights(v).executable \in BOOLEAN
      BY RightsType
    <3> QED
      BY <2>1, <3>1, <3>2
<1>7. CASE stack_page
  <2> DEFINE v == USER_STACK_VA \div PAGE + op.i
  <2>1. /\ map_ok(next_pid, v) /\ fill_zero /\ alloc_map(next_pid, v, TRUE, FALSE)
    BY <1>3, <1>7 DEF stack_page
  <2>2. v \in Page
    BY <1>1, <1>7, StackBelowHeap DEF StackPage, BuildOp, stack_page
  <2> HIDE DEF v
  <2>3. \A w, x \in BOOLEAN : alloc_map(next_pid, v, w, x) => Kept(p)
    BY <1>2, <2>1, <2>2, ZerosType, AllocKeeps DEF fill_zero
  <2> QED
    BY <2>1, <2>3
<1>8. CASE env_page
  <2> DEFINE v == HEAP_START \div PAGE + op.i
  <2>1. /\ map_ok(next_pid, v) /\ alloc_map(next_pid, v, TRUE, FALSE)
        /\ ram' = [ram EXCEPT ![Min(avail)] = env_bytes(op.i)]
        /\ op.step = "envpages" /\ op.i < pages_for(op.len)
    BY <1>3, <1>8 DEF env_page, env_pages
  <2>2. v \in Page
    <3>1. op.i \in Nat /\ op.len \in Nat /\ HEAP_START + op.len <= USER_ADDR_MAX
      BY <1>1 DEF BuildOp, Safe, SpawnBounds
    <3> QED
      BY <2>1, <3>1, EnvPageFits DEF HeapPage
  <2> HIDE DEF v
  <2>3. env_bytes(op.i) \in [0 .. PAGE - 1 -> Byte]
    BY <1>1, <2>1, EnvBytes
  <2>4. \A w, x \in BOOLEAN : alloc_map(next_pid, v, w, x) => Kept(p)
    BY <1>2, <2>1, <2>2, <2>3, AllocKeeps
  <2> QED
    BY <2>1, <2>4
<1> QED
  BY <1>4, <1>5, <1>6, <1>7, <1>8 DEF SpawnStep

(* What SpawnIsolated says of one step. *)
StepIsolated ==
    op # Idle => \A p \in Running, a \in 0 .. USER_ADDR_MAX - 1 :
                    peek(p, a)' = peek(p, a)

(* Kept spaces read the same. *)
LEMMA KeptPeek ==
  ASSUME NEW p \in Pid, NEW a \in Nat, a < USER_ADDR_MAX, Kept(p)
  PROVE  peek(p, a)' = peek(p, a)
<1> DEFINE v == a \div PAGE
<1>1. v \in Page
  BY PageOf
<1>2. /\ map'[p][v] = map[p][v]
      /\ map[p][v] # Unmapped => ram'[map[p][v].frame] = ram[map[p][v].frame]
  BY <1>1 DEF Kept
<1> QED
  BY <1>2 DEF peek

(* While a spawn is in progress only its own steps are taken. *)
LEMMA IsolatedStep == Safe /\ [Next]_vars => StepIsolated
<1> SUFFICES ASSUME Safe, [Next]_vars, op # Idle, NEW p \in Running,
                    NEW a \in 0 .. USER_ADDR_MAX - 1
             PROVE  peek(p, a)' = peek(p, a)
  BY DEF StepIsolated
<1>1. CASE UNCHANGED vars
  BY <1>1 DEF vars, peek
<1>2. CASE SpawnStep
  BY <1>2, SpawnKeeps, KeptPeek, RunningIsPid, Constants, SMTT(60) DEF Safe
<1>3. SpawnStep \/ UNCHANGED vars
  BY DEF Next, run, spawn, spawn_env, Begin, sbrk, sbrk_short,
     sbrk_shrink, store
<1> QED
  BY <1>1, <1>2, <1>3

(* No spawn, finished or failed, changes a byte of a process that exists. *)
THEOREM SpawnsAreIsolated == Spec => SpawnIsolated
<1>1. Safe /\ [Next]_vars => [StepIsolated]_vars
  BY IsolatedStep
<1>2. Spec => [][StepIsolated]_vars
  BY <1>1, SpecSafe, PTL DEF Spec
<1> QED
  BY <1>2 DEF SpawnIsolated, StepIsolated
-----------------------------------------------------------------------------
(* The third layer is inductive.                                           *)

(* While no environment is copied, nothing is given. *)
LEMMA GivenNothing ==
  ASSUME Safe, EnvGiven, UNCHANGED <<given, next_pid>>, ~WithEnv, ~WithEnv'
  PROVE  EnvGiven'
  BY DEF EnvGiven

(* A spawn that fails gives nothing. *)
LEMMA GiveUpGiven ==
  ASSUME Safe, EnvGiven, Building, give_up
  PROVE  EnvGiven'
<1>1. /\ given' = [given EXCEPT ![next_pid] = <<>>] /\ next_pid' = next_pid
      /\ op' \in {Idle, Panicked}
  BY DEF give_up
<1>2. ~WithEnv'
  BY <1>1 DEF WithEnv, Idle, Panicked
<1>3. next_pid \in Pid /\ given \in [Pid -> Seq(Byte)] /\ next_pid \in Nat
  BY NextIsPid, RunningIsPid DEF Safe, TypeOK
<1>4. \A p \in Pid : p > next_pid => p # next_pid
  BY <1>3, Constants
<1> QED
  BY <1>1, <1>2, <1>3, <1>4 DEF EnvGiven

(* The parent keeps its environment while it is copied. *)
LEMMA EnvStays ==
  ASSUME Safe, EnvGiven, Building, SpawnStep, WithEnv, WithEnv',
         UNCHANGED <<given, next_pid>>,
         op'.parent = op.parent, op'.ptr = op.ptr, op'.len = op.len
  PROVE  EnvGiven'
<1>1. op \in BuildOp /\ next_pid \in Pid
  BY OpIsRecord, NextIsPid DEF Safe
<1>2. op.parent \in Running /\ op.parent \in Pid /\ op.ptr \in Nat /\ op.len \in Nat
  <2>1. op.parent < next_pid
    BY DEF WithEnv, Safe, SpawnBounds
  <2> QED
    BY <1>1, <2>1, RunningIsPid, Constants DEF BuildOp, Running, Safe
<1>3. op.ptr + op.len < USER_ADDR_MAX
  BY DEF WithEnv, Safe, EnvMapped
<1>4. \A k \in 1 .. op.len : peek(op.parent, op.ptr + k - 1)' = peek(op.parent, op.ptr + k - 1)
  <2> TAKE k \in 1 .. op.len
  <2>1. op.ptr + k - 1 \in Nat /\ op.ptr + k - 1 < USER_ADDR_MAX
    BY <1>2, <1>3, Constants
  <2> DEFINE p == op.parent
             a == op.ptr + k - 1
  <2>2. p \in Running /\ p \in Pid /\ a \in Nat /\ a < USER_ADDR_MAX
    BY <1>2, <2>1
  <2>3. Kept(p)
    BY <2>2, SpawnKeeps
  <2> QED
    BY <1>2, <2>1, <2>3, KeptPeek
<1> QED
  BY <1>1, <1>4 DEF EnvGiven

(* The steps of a spawn before the environment is copied. *)
LEMMA EarlyGiven ==
  ASSUME Safe, EnvGiven,
         \/ vspace_new \/ load_check \/ load_map \/ load_mapped
         \/ copy_piece \/ next_segment \/ loaded \/ stack_page \/ created
  PROVE  EnvGiven'
<1> USE DEF At
<1>1. Building /\ op \in BuildOp /\ op.step \in Early \cup {"stack"}
  <2>1. op.step \in Early \cup {"stack"}
    BY DEF vspace_new, load_check, load_map, load_mapped, copy_piece, next_segment,
       loaded, stack_page, created, Copying, Early
  <2> QED
    BY <2>1, OpIsRecord DEF Building, Late, Safe
<1>2. SUFFICES ASSUME ~give_up PROVE EnvGiven'
  BY <1>1, GiveUpGiven
<1>3. UNCHANGED <<given, next_pid>> /\ ~WithEnv
  BY <1>1, <1>2 DEF vspace_new, load_check, load_map, load_mapped, copy_piece, next_segment,
     loaded, stack_page, created, refuse, WithEnv, Early
<1>4. ~WithEnv'
  <2>1. CASE created
    <3> DEFINE s == IF op.len = 0 THEN "install" ELSE "env"
    <3>1. op' = [op EXCEPT !.step = s, !.i = 0]
      BY <2>1 DEF created, Goto
    <3>2. op'.step = s /\ op'.len = op.len /\ op.len \in Nat
      BY <1>1, <3>1 DEF BuildOp
    <3> QED
      BY <3>2 DEF WithEnv
  <2>2. CASE vspace_new \/ load_check \/ load_mapped \/ loaded
    <3>1. op'.step \in {"check", "map", "copy", "stack"}
      BY <1>1, <1>2, <2>2 DEF vspace_new, load_check, load_mapped, loaded, refuse, Goto,
         BuildOp
    <3> QED
      BY <3>1 DEF WithEnv
  <2>3. CASE load_map \/ copy_piece \/ next_segment \/ stack_page
    <3>1. op'.step = op.step
      BY <1>1, <1>2, <2>3 DEF load_map, copy_piece, copied, next_segment, stack_page,
         refuse, BuildOp
    <3> QED
      BY <1>1, <3>1 DEF WithEnv, Early
  <2> QED
    BY <2>1, <2>2, <2>3
<1> QED
  BY <1>3, <1>4, GivenNothing

(* The steps that check and copy the environment. *)
LEMMA LateGiven ==
  ASSUME Safe, EnvGiven, env_check \/ env_page \/ env_done
  PROVE  EnvGiven'
<1> USE DEF At
<1>1. Building /\ op \in BuildOp /\ op.step \in {"env", "envpages"}
  <2>1. op.step \in {"env", "envpages"}
    BY DEF env_check, env_page, env_done
  <2> QED
    BY <2>1, OpIsRecord DEF Building, Late, Safe
<1>2. SUFFICES ASSUME ~give_up PROVE EnvGiven'
  BY <1>1, GiveUpGiven
<1>3. op.len > 0 /\ next_pid \in Pid /\ next_pid \in Nat
  BY <1>1, NextIsPid, RunningIsPid DEF Safe, SpawnBounds
<1>4. CASE env_check
  <2> DEFINE env == [k \in 1 .. op.len |-> peek(op.parent, op.ptr + k - 1)]
  <2>1. /\ op' = [op EXCEPT !.step = "envpages", !.i = 0]
        /\ given' = [given EXCEPT ![next_pid] = env]
        /\ UNCHANGED <<map, ram, next_pid>>
    BY <1>2, <1>4 DEF env_check, refuse, Goto
  <2>2. /\ op'.step = "envpages" /\ op'.len = op.len /\ op'.parent = op.parent
        /\ op'.ptr = op.ptr
    BY <1>1, <2>1 DEF BuildOp
  <2>3. WithEnv' /\ env' = env
    BY <1>3, <2>1, <2>2 DEF WithEnv, peek
  <2> HIDE DEF env
  <2>4. given'[next_pid] = env /\ \A p \in Pid : p # next_pid => given'[p] = given[p]
    BY <1>3, <2>1 DEF Safe, TypeOK
  <2>5. \A p \in Pid : p > next_pid => p # next_pid
    BY <1>3, Constants
  <2>6. \A p \in Pid : p > next_pid => given'[p] = <<>>
    BY <2>4, <2>5 DEF EnvGiven
  <2>7. given'[next_pid] = env'
    BY <2>3, <2>4
  <2> QED
    BY <2>1, <2>3, <2>6, <2>7 DEF EnvGiven, env
<1>5. CASE env_page \/ env_done
  <2>1. /\ op.step = "envpages" /\ op'.step \in {"envpages", "install"}
        /\ op'.len = op.len /\ op'.parent = op.parent /\ op'.ptr = op.ptr
        /\ UNCHANGED <<given, next_pid>>
    BY <1>1, <1>2, <1>5 DEF env_page, env_done, Goto, BuildOp
  <2>2. WithEnv /\ WithEnv'
    BY <1>3, <2>1 DEF WithEnv
  <2>3. SpawnStep
    BY <1>5 DEF SpawnStep
  <2> QED
    BY <1>1, <2>1, <2>2, <2>3, EnvStays
<1> QED
  BY <1>4, <1>5

(* What a child is given is what its parent has. *)
LEMMA StepGiven == Safe /\ EnvGiven /\ [Next]_vars => EnvGiven'
<1> SUFFICES ASSUME Safe, EnvGiven, [Next]_vars PROVE EnvGiven'
  OBVIOUS
<1>1. CASE UNCHANGED vars
  BY <1>1 DEF vars, EnvGiven, WithEnv, peek
<1>2. CASE SpawnStep
  <2>1. ASSUME NEW ok \in BOOLEAN, install(ok) PROVE EnvGiven'
    <3>1. Building /\ op \in BuildOp
      BY <2>1, OpIsRecord DEF install, At, Building, Late, Safe
    <3>2. SUFFICES ASSUME ok PROVE EnvGiven'
      BY <2>1, <3>1, GiveUpGiven DEF install, refuse
    <3>3. op' = Idle /\ next_pid' = next_pid + 1 /\ given' = given
      BY <2>1, <3>2 DEF install
    <3>4. ~WithEnv'
      BY <3>3 DEF WithEnv, Idle
    <3>5. next_pid \in Nat /\ \A p \in Pid : p > next_pid + 1 => p > next_pid
      BY RunningIsPid, Constants DEF Safe
    <3> QED
      BY <3>3, <3>4, <3>5, Constants DEF EnvGiven
  <2> QED
    BY <1>2, <2>1, EarlyGiven, LateGiven DEF SpawnStep
<1>3. CASE op = Idle /\ ~SpawnStep /\ ~UNCHANGED vars
  <2>1. UNCHANGED <<given, next_pid>>
    BY <1>3 DEF Next, run, spawn, spawn_env, Begin, sbrk, sbrk_short,
     sbrk_shrink, store
  <2>2. ~WithEnv /\ ~WithEnv'
    <3>1. op' = op \/ \E p, ptr, len : Begin(p, ptr, len)
      BY <1>3 DEF Next, run, spawn, spawn_env, sbrk, sbrk_short,
     sbrk_shrink, store
    <3>2. op.step = "idle" /\ op'.step \in {"idle", "space"}
      BY <1>3, <3>1 DEF Begin, Idle
    <3> QED
      BY <3>2 DEF WithEnv
  <2> QED
    BY <2>1, <2>2, GivenNothing, SMTT(60)
<1>4. op = Idle \/ SpawnStep \/ UNCHANGED vars
  BY DEF Next, run, spawn, spawn_env, Begin, sbrk, sbrk_short,
     sbrk_shrink, store
<1> QED
  BY <1>1, <1>2, <1>3, <1>4

(* The greatest element of a set of segments. *)
LEMMA MaxIs ==
  ASSUME NEW S, S \subseteq Int, NEW k \in S, \A j \in S : j <= k
  PROVE  Max(S) = k
<1>1. \E x \in S : \A y \in S : x >= y
  OBVIOUS
<1>2. Max(S) \in S /\ \A y \in S : Max(S) >= y
  BY <1>1 DEF Max
<1>3. Max(S) >= k /\ Max(S) <= k /\ Max(S) \in Int /\ k \in Int
  BY <1>2
<1> QED
  BY <1>3

(* What has been copied depends on the image and the copied lengths. *)
LEMMA CopiedSame ==
  ASSUME image' = image,
         \A k \in DOMAIN segments : CopiedLen(k)' = CopiedLen(k)
  PROVE  /\ \A a \in Nat : CopiedAt(a)' = CopiedAt(a)
         /\ \A a \in Nat, k \in DOMAIN segments : FileByte(k, a)' = FileByte(k, a)
  BY ImageSame DEF CopiedAt, FileByte

(* A step that copies nothing of the image and gives nothing. *)
LEMMA ContentSame ==
  ASSUME image' = image, UNCHANGED <<given, next_pid>>,
         \A k \in DOMAIN segments : CopiedLen(k)' = CopiedLen(k)
  PROVE  \A a \in Nat : Content(a)' = Content(a)
<1> TAKE a \in Nat
<1>1. CopiedAt(a)' = CopiedAt(a)
  BY CopiedSame
<1>2. FileByte(Max(CopiedAt(a)), a)' = FileByte(Max(CopiedAt(a)), a)
  BY <1>1, ImageSame DEF FileByte
<1> QED
  BY <1>1, <1>2 DEF Content

(* Addresses of a page. *)
LEMMA PageAddress ==
  ASSUME NEW v \in Nat, NEW o \in Bytes
  PROVE  PAGE * v + o \in Nat /\ (PAGE * v + o) \div PAGE = v
<1>1. PAGE \in Nat \ {0}
  BY Constants
<1>2. PAGE * v \in Nat /\ o \in 0 .. PAGE - 1
  BY <1>1 DEF Bytes
<1> QED
  BY <1>1, <1>2, DivUnique

(* Pages are numbers. *)
LEMMA PageIsNat == Page \subseteq Nat
  BY Constants

(* Before the file bytes are copied, and after. *)
LEMMA CopiedLens ==
  ASSUME Safe, Building, NEW k \in DOMAIN segments
  PROVE  /\ CopiedLen(k) \in Nat /\ segments[k].vaddr \in Nat /\ k \in Nat
         /\ op.step \in {"space", "check", "map"} => CopiedLen(k) = 0
         /\ op.step \in Late => CopiedLen(k) = segments[k].filesz
         /\ op.step = "copy" =>
               CopiedLen(k) = IF k < op.seg THEN segments[k].filesz
                              ELSE IF k = op.seg THEN op.i ELSE 0
<1>1. op \in BuildOp
  BY OpIsRecord DEF Safe
<1>2. op.i \in Nat /\ op.seg \in Nat
  BY <1>1 DEF BuildOp
<1>3. segments[k] \in Segment /\ k \in Nat /\ k >= 1
  BY SegmentType DEF Safe
<1>4. segments[k].filesz \in Nat /\ segments[k].vaddr \in Nat
  BY <1>3 DEF Segment
<1>5. op.step \in {"space", "check", "map"} => op.seg = 1 /\ op.i = 0
  BY DEF Safe, SpawnBounds
<1> QED
  BY <1>2, <1>3, <1>4, <1>5 DEF CopiedLen, Late

(* A step that copies nothing and leaves memory alone. *)
LEMMA QuietContent ==
  ASSUME Safe, Building, SpaceFilled, UNCHANGED <<image, map, ram, given, next_pid>>,
         \A k \in DOMAIN segments : CopiedLen(k)' = CopiedLen(k)
  PROVE  SpaceFilled'
<1>1. /\ \A a \in Nat : CopiedAt(a)' = CopiedAt(a) /\ Content(a)' = Content(a)
      /\ ImagePages' = ImagePages
  BY CopiedSame, ContentSame, ImageSame
<1>2. CopiedToImage'
  BY <1>1 DEF SpaceFilled, CopiedToImage
<1>3. ASSUME NEW v \in Page, map[next_pid][v] # Unmapped, NEW o \in Bytes
      PROVE  ram[map[next_pid][v].frame][o] = Content(PAGE * v + o)'
  <2> DEFINE a == PAGE * v + o
  <2>1. a \in Nat
    BY PageAddress, PageIsNat
  <2>2. ram[map[next_pid][v].frame][o] = Content(a)
    BY <1>3 DEF SpaceFilled, ContentBuilt
  <2> HIDE DEF a
  <2>3. Content(a)' = Content(a)
    BY <1>1, <2>1
  <2> QED
    BY <2>2, <2>3 DEF a
<1>4. ContentBuilt'
  BY <1>3 DEF ContentBuilt
<1> QED
  BY <1>2, <1>4 DEF SpaceFilled

(* A page mapped with the bytes it should have. *)
LEMMA AllocContent ==
  ASSUME Safe, Building, SpaceFilled, UNCHANGED <<image, given, next_pid>>,
         NEW v \in Page, NEW w \in BOOLEAN, NEW x \in BOOLEAN,
         map_ok(next_pid, v), alloc_map(next_pid, v, w, x),
         NEW bytes \in [0 .. PAGE - 1 -> Byte],
         ram' = [ram EXCEPT ![Min(avail)] = bytes],
         \A k \in DOMAIN segments : CopiedLen(k)' = CopiedLen(k),
         \A o \in Bytes : bytes[o] = Content(PAGE * v + o)
  PROVE  SpaceFilled'
<1>1. /\ \A a \in Nat : CopiedAt(a)' = CopiedAt(a) /\ Content(a)' = Content(a)
      /\ ImagePages' = ImagePages
  BY CopiedSame, ContentSame, ImageSame
<1>2. CopiedToImage'
  BY <1>1 DEF SpaceFilled, CopiedToImage
<1>3. next_pid \in Pid
  BY NextIsPid
<1>4. /\ ram'[map'[next_pid][v].frame] = bytes
      /\ \A u \in Page : u # v =>
            /\ map'[next_pid][u] = map[next_pid][u]
            /\ map[next_pid][u] # Unmapped =>
                  ram'[map[next_pid][u].frame] = ram[map[next_pid][u].frame]
  <2>1. Min(avail) \in avail
    BY MapOkFrames DEF Safe, TypeOK
  <2>2. ram'[Min(avail)] = bytes /\ \A f \in Frame \ avail : ram'[f] = ram[f]
    BY <2>1, FillSafe
  <2>3. /\ map'[next_pid][v].frame = Min(avail)
        /\ \A u \in Page : u # v =>
              /\ map'[next_pid][u] = map[next_pid][u]
              /\ map[next_pid][u] # Unmapped =>
                    ram'[map[next_pid][u].frame] = ram[map[next_pid][u].frame]
    BY <1>3, <2>2, AllocOwn
  <2> QED
    BY <2>2, <2>3
<1>5. ASSUME NEW u \in Page, map'[next_pid][u] # Unmapped, NEW o \in Bytes
      PROVE  ram'[map'[next_pid][u].frame][o] = Content(PAGE * u + o)'
  <2> DEFINE a == PAGE * u + o
  <2>1. a \in Nat
    BY PageAddress, PageIsNat
  <2>2. ram'[map'[next_pid][u].frame][o] = Content(a)
    <3>1. CASE u = v
      BY <1>4, <3>1
    <3>2. CASE u # v
      <4>1. map'[next_pid][u] = map[next_pid][u] /\ map[next_pid][u] # Unmapped
            /\ ram'[map[next_pid][u].frame] = ram[map[next_pid][u].frame]
        BY <1>4, <1>5, <3>2
      <4>2. ram[map[next_pid][u].frame][o] = Content(a)
        BY <4>1 DEF SpaceFilled, ContentBuilt
      <4> QED
        BY <4>1, <4>2
    <3> QED
      BY <3>1, <3>2
  <2> HIDE DEF a
  <2>3. Content(a)' = Content(a)
    BY <1>1, <2>1
  <2> QED
    BY <2>2, <2>3 DEF a
<1>6. ContentBuilt'
  BY <1>5 DEF ContentBuilt
<1> QED
  BY <1>2, <1>6 DEF SpaceFilled

(* No file bytes are copied to a page that no segment covers. *)
LEMMA NoFileBytes ==
  ASSUME Building, CopiedToImage, NEW v \in Nat, v \notin ImagePages, NEW o \in Bytes
  PROVE  CopiedAt(PAGE * v + o) = {}
<1> DEFINE a == PAGE * v + o
<1>1. a \in Nat /\ a \div PAGE = v
  BY PageAddress
<1> QED
  BY <1>1 DEF CopiedToImage

(* A fresh page of zeros is right where nothing has been copied. *)
LEMMA ZeroContent ==
  ASSUME Safe, Building, EnvGiven, ~WithEnv, NEW v \in Nat, NEW o \in Bytes,
         CopiedAt(PAGE * v + o) = {}
  PROVE  Zeros[o] = Content(PAGE * v + o)
<1> DEFINE a == PAGE * v + o
<1>1. given[next_pid] = <<>>
  BY NextIsPid DEF EnvGiven
<1>2. Len(<<>>) = 0 /\ HEAP_START \in Nat
  BY Constants
<1>3. HEAP_START .. HEAP_START + Len(given[next_pid]) - 1 = {}
  BY <1>1, <1>2
<1>4. Content(a) = 0
  BY <1>3 DEF Content
<1> QED
  BY <1>4 DEF Zeros, Bytes

(* load's second pass: the pages are zero, nothing is copied yet. *)
LEMMA MapContent ==
  ASSUME Safe, EnvGiven, SpaceFilled, load_map, ~give_up
  PROVE  SpaceFilled'
<1> DEFINE v == Min(op.pages)
<1>1. Building /\ op \in BuildOp /\ op.step = "map" /\ op.pages # {}
  BY OpIsRecord DEF load_map, At, Building, Early, Safe
<1>2. /\ map_ok(next_pid, v)
      /\ alloc_map(next_pid, v, rights(v).writable, rights(v).executable)
      /\ ram' = [ram EXCEPT ![Min(avail)] = Zeros]
      /\ op' = [op EXCEPT !.pages = @ \ {v}]
      /\ UNCHANGED <<image, next_pid, given>>
  BY DEF load_map, fill_zero
<1>3. op.pages \subseteq Page /\ Page \subseteq Nat
  BY <1>1, Constants DEF BuildOp
<1>4. v \in Page
  BY <1>1, <1>3, MinIsLeast
<1> HIDE DEF v
<1>5. op'.step = op.step /\ op'.seg = op.seg /\ op'.i = op.i
  BY <1>1, <1>2 DEF BuildOp
<1>6. \A k \in DOMAIN segments : CopiedLen(k)' = CopiedLen(k)
  BY <1>2, <1>5, ImageSame DEF CopiedLen
<1>7. ~WithEnv
  BY <1>1 DEF WithEnv
<1>8. \A a \in Nat : CopiedAt(a) = {}
  <2>1. \A k \in DOMAIN segments : CopiedLen(k) = 0 /\ segments[k].vaddr \in Nat
    BY <1>1, CopiedLens
  <2> QED
    BY <2>1 DEF CopiedAt
<1>9. \A o \in Bytes : Zeros[o] = Content(PAGE * v + o)
  <2> TAKE o \in Bytes
  <2>1. v \in Nat
    BY <1>3, <1>4
  <2>2. PAGE * v + o \in Nat
    BY <2>1, PageAddress
  <2> QED
    BY <1>1, <1>7, <1>8, <2>1, <2>2, ZeroContent
<1>10. rights(v).writable \in BOOLEAN /\ rights(v).executable \in BOOLEAN
  BY RightsType
<1>11. \A w, x \in BOOLEAN : alloc_map(next_pid, v, w, x) => SpaceFilled'
  BY <1>1, <1>2, <1>4, <1>6, <1>9, ZerosType, AllocContent
<1> QED
  BY <1>2, <1>10, <1>11

(* The stack: the pages are zero, and lie outside the image. *)
LEMMA StackContent ==
  ASSUME Safe, Shape, EnvGiven, SpaceFilled, stack_page, ~give_up
  PROVE  SpaceFilled'
<1> DEFINE v == USER_STACK_VA \div PAGE + op.i
<1>1. Building /\ op \in BuildOp /\ op.step = "stack" /\ op.i < USER_STACK_PAGES
  BY OpIsRecord DEF stack_page, At, Building, Late, Safe
<1>2. /\ map_ok(next_pid, v)
      /\ alloc_map(next_pid, v, TRUE, FALSE)
      /\ ram' = [ram EXCEPT ![Min(avail)] = Zeros]
      /\ op' = [op EXCEPT !.i = @ + 1]
      /\ UNCHANGED <<image, next_pid, given>>
  BY DEF stack_page, fill_zero
<1>3. v \in Page /\ v \in Nat
  BY <1>1, StackBelowHeap, Constants DEF StackPage, BuildOp
<1> HIDE DEF v
<1>4. op'.step = "stack"
  BY <1>1, <1>2 DEF BuildOp
<1>5. \A k \in DOMAIN segments : CopiedLen(k)' = CopiedLen(k)
  BY <1>1, <1>2, <1>4, ImageSame DEF CopiedLen, Late
<1>6. ~WithEnv
  BY <1>1 DEF WithEnv
<1>7. v \notin ImagePages
  BY <1>1, <1>2, <1>3, NextIsPid, BuiltBy DEF Shape, SpaceBuilt, map_ok
<1>8. \A o \in Bytes : Zeros[o] = Content(PAGE * v + o)
  BY <1>1, <1>3, <1>6, <1>7, NoFileBytes, ZeroContent DEF SpaceFilled
<1>9. \A w, x \in BOOLEAN : alloc_map(next_pid, v, w, x) => SpaceFilled'
  BY <1>1, <1>2, <1>3, <1>5, <1>8, ZerosType, AllocContent
<1> QED
  BY <1>2, <1>9

(* The pages of the environment hold what the parent has, and zeros behind *)
(* it.                                                                     *)
LEMMA EnvPageContent ==
  ASSUME Safe, Shape, EnvGiven, SpaceFilled, env_page, ~give_up
  PROVE  SpaceFilled'
<1> DEFINE v == HEAP_START \div PAGE + op.i
<1>1. Building /\ op \in BuildOp /\ op.step = "envpages" /\ op.i < pages_for(op.len)
  BY OpIsRecord DEF env_page, At, Building, Late, Safe, env_pages
<1>2. /\ map_ok(next_pid, v)
      /\ alloc_map(next_pid, v, TRUE, FALSE)
      /\ ram' = [ram EXCEPT ![Min(avail)] = env_bytes(op.i)]
      /\ op' = [op EXCEPT !.i = @ + 1]
      /\ UNCHANGED <<image, next_pid, given>>
  BY DEF env_page
<1>3. op.i \in Nat /\ op.len \in Nat /\ op.ptr \in Nat /\ op.len > 0
      /\ HEAP_START + op.len <= USER_ADDR_MAX
  BY <1>1 DEF BuildOp, Safe, SpawnBounds
<1>4. v \in Page /\ v \in Nat /\ v = HeapPage + op.i
  BY <1>1, <1>3, EnvPageFits, PageIsNat DEF HeapPage
<1> HIDE DEF v
<1>5. op'.step = "envpages"
  BY <1>1, <1>2 DEF BuildOp
<1>6. \A k \in DOMAIN segments : CopiedLen(k)' = CopiedLen(k)
  BY <1>1, <1>2, <1>5, ImageSame DEF CopiedLen, Late
<1>7. v \notin ImagePages
  BY <1>1, <1>2, <1>4, NextIsPid, BuiltBy DEF Shape, SpaceBuilt, map_ok
<1>8. given[next_pid] = [k \in 1 .. op.len |-> peek(op.parent, op.ptr + k - 1)]
  BY <1>1, <1>3, NextIsPid DEF EnvGiven, WithEnv
<1>9. Len(given[next_pid]) = op.len
  BY <1>3, <1>8
<1>10. ASSUME NEW o \in Bytes
       PROVE  env_bytes(op.i)[o] = Content(PAGE * v + o)
  <2> DEFINE a == PAGE * v + o
             j == op.i * PAGE + o
  <2>1. CopiedAt(a) = {}
    BY <1>1, <1>4, <1>7, NoFileBytes DEF SpaceFilled
  <2>2. a = HEAP_START + j /\ j \in Nat /\ HEAP_START \in Nat
    <3>1. PAGE \in Nat /\ HeapPage \in Nat /\ HEAP_START = PAGE * HeapPage
      BY Constants
    <3>2. PAGE * v = PAGE * HeapPage + op.i * PAGE /\ op.i * PAGE \in Nat
      BY <1>3, <1>4, <3>1, MulAdd
    <3>3. o \in Nat /\ HEAP_START \in Nat
      BY Constants DEF Bytes
    <3> QED
      BY <3>1, <3>2, <3>3
  <2>3. CASE j < op.len
    <3>1. env_bytes(op.i)[o] = peek(op.parent, op.ptr + j)
      BY <1>1, <2>3, EnvBytes
    <3> HIDE DEF a, j
    <3>2. a \in HEAP_START .. HEAP_START + Len(given[next_pid]) - 1
      BY <1>3, <1>9, <2>2, <2>3
    <3>3. a - HEAP_START + 1 = j + 1 /\ j + 1 \in 1 .. op.len
      BY <1>3, <2>2, <2>3
    <3>4. op.ptr + (j + 1) - 1 = op.ptr + j
      BY <1>3, <2>2
    <3>5. given[next_pid][j + 1] = peek(op.parent, op.ptr + j)
      BY <1>8, <3>3, <3>4
    <3>6. Content(a) = given[next_pid][j + 1]
      BY <2>1, <3>2, <3>3 DEF Content
    <3> QED
      BY <3>1, <3>5, <3>6 DEF a
  <2>4. CASE ~(j < op.len)
    <3>1. env_bytes(op.i)[o] = 0
      BY <1>1, <2>4, EnvBytes
    <3> HIDE DEF a, j
    <3>2. a \notin HEAP_START .. HEAP_START + Len(given[next_pid]) - 1
      BY <1>3, <1>9, <2>2, <2>4
    <3>3. Content(a) = 0
      BY <2>1, <3>2 DEF Content
    <3> QED
      BY <3>1, <3>3 DEF a
  <2> QED
    BY <2>3, <2>4
<1>11. env_bytes(op.i) \in [0 .. PAGE - 1 -> Byte]
  BY <1>1, EnvBytes
<1>12. \A w, x \in BOOLEAN : alloc_map(next_pid, v, w, x) => SpaceFilled'
  BY <1>1, <1>2, <1>4, <1>6, <1>10, <1>11, AllocContent
<1> QED
  BY <1>2, <1>12

(* The steps that copy nothing and map nothing. *)
LEMMA MoveContent ==
  ASSUME Safe, Safe', SpaceFilled, ~give_up,
         \/ vspace_new \/ load_check \/ load_mapped \/ next_segment \/ loaded
         \/ created \/ env_done
  PROVE  SpaceFilled'
<1> USE DEF At
<1>1. Building /\ op \in BuildOp
  <2>1. op.step \in Early \cup Late
    BY DEF vspace_new, load_check, load_mapped, next_segment, loaded, created, env_done,
       Copying, Early, Late
  <2> QED
    BY <2>1, OpIsRecord DEF Building, Safe
<1>2. UNCHANGED <<image, map, ram, given, next_pid>>
  BY DEF vspace_new, load_check, load_mapped, next_segment, loaded, created, env_done,
     refuse
<1>3. segments' = segments
  BY <1>2, ImageSame
<1>4. SUFFICES ASSUME NEW k \in DOMAIN segments PROVE CopiedLen(k)' = CopiedLen(k)
  BY <1>1, <1>2, QuietContent
<1>5. /\ k \in Nat /\ k \in 1 .. Len(segments) /\ Len(segments) \in Nat
      /\ segments[k] \in Segment
  BY SegmentType DEF Safe
<1>6. CASE vspace_new \/ load_check \/ load_mapped
  <2>1. /\ op.seg = 1 /\ op.i = 0 /\ op.step \in {"space", "check", "map"}
        /\ op'.seg = 1 /\ op'.i = 0 /\ op'.step \in {"check", "map", "copy"}
    <3>1. op.seg = 1 /\ op.i = 0 /\ op.step \in {"space", "check", "map"}
      BY <1>1, <1>6 DEF vspace_new, load_check, load_mapped, Safe, SpawnBounds
    <3> QED
      BY <1>1, <1>6, <3>1 DEF vspace_new, load_check, load_mapped, refuse, Goto, BuildOp
  <2> QED
    BY <1>3, <2>1 DEF CopiedLen, Late
<1>7. CASE next_segment
  <2>1. /\ op.step = "copy" /\ op'.step = "copy" /\ op.seg \in DOMAIN segments
        /\ op'.seg = op.seg + 1 /\ op'.i = 0 /\ op.seg \in Nat /\ op.i \in Nat
        /\ op.i >= segments[op.seg].filesz
    BY <1>1, <1>7 DEF next_segment, Copying, BuildOp, this
  <2>2. segments[op.seg].filesz \in Nat
    BY <2>1, SegmentType DEF Safe, Segment
  <2>3. op.i = segments[op.seg].filesz
    <3>1. op.i > 0 => op.i <= segments[op.seg].filesz
      BY <1>1, <2>1 DEF Safe, SpawnBounds
    <3> QED
      BY <2>1, <2>2, <3>1
  <2>4. CASE k < op.seg
    BY <1>3, <1>5, <2>1, <2>4 DEF CopiedLen, Late
  <2>5. CASE k = op.seg
    BY <1>3, <1>5, <2>1, <2>3, <2>5 DEF CopiedLen, Late
  <2>6. CASE k > op.seg
    BY <1>3, <1>5, <2>1, <2>6 DEF CopiedLen, Late
  <2> QED
    BY <1>5, <2>1, <2>4, <2>5, <2>6
<1>8. CASE loaded
  <2>1. op.step = "copy" /\ op'.step = "stack" /\ op.seg \notin 1 .. Len(segments)
        /\ op.seg \in Nat
    BY <1>1, <1>8, SegmentType DEF loaded, Goto, BuildOp, Safe
  <2>2. op.seg \in 1 .. Len(segments) + 1
    BY <1>1, <2>1 DEF Safe, SpawnBounds
  <2>3. k < op.seg
    BY <1>5, <2>1, <2>2
  <2> QED
    BY <1>3, <2>1, <2>3 DEF CopiedLen, Late
<1>9. CASE created \/ env_done
  <2>1. op.step \in Late /\ op'.step \in Late
    BY <1>1, <1>9 DEF created, env_done, Goto, BuildOp, Late
  <2> QED
    BY <1>3, <2>1 DEF CopiedLen
<1> QED
  BY <1>6, <1>7, <1>8, <1>9

(* The addresses of a piece: those of one page, from its first byte on. *)
LEMMA PieceAddress ==
  ASSUME NEW u \in Nat, NEW first \in Bytes, NEW n \in Nat, n <= PAGE - first,
         NEW v \in Nat, NEW o \in Bytes
  PROVE  PAGE * u + first <= PAGE * v + o /\ PAGE * v + o < PAGE * u + first + n
           <=> v = u /\ first <= o /\ o < first + n
<1>1. PAGE \in Nat \ {0} /\ first \in Nat /\ o \in Nat /\ o < PAGE
  BY Constants DEF Bytes
<1> DEFINE x == PAGE * u
           y == PAGE * v
<1>2. x \in Nat /\ y \in Nat
  BY <1>1
<1>3. CASE v = u
  <2>1. x = y
    BY <1>3
  <2> HIDE DEF x, y
  <2> QED
    BY <1>1, <1>2, <1>3, <2>1 DEF x, y
<1>4. CASE v < u
  <2>1. y + PAGE <= x
    BY <1>1, <1>4, MulStep
  <2> HIDE DEF x, y
  <2>2. y + o < x + first
    BY <1>1, <1>2, <2>1
  <2>3. ~(x + first <= y + o)
    BY <1>1, <1>2, <2>2
  <2> QED
    BY <1>4, <2>3 DEF x, y
<1>5. CASE u < v
  <2>1. x + PAGE <= y
    BY <1>1, <1>5, MulStep
  <2> HIDE DEF x, y
  <2>2. ~(y + o < x + first + n)
    BY <1>1, <1>2, <2>1
  <2> QED
    BY <1>5, <2>2 DEF x, y
<1> QED
  BY <1>3, <1>4, <1>5

(* A piece adds its segment, the last one so far, at its addresses. *)
LEMMA PieceCopied ==
  ASSUME Safe, Copying, op.i < this.filesz, image' = image,
         op'.step = "copy", op'.seg = op.seg, op'.i = op.i + piece,
         NEW a \in Nat
  PROVE  /\ CopiedAt(a)' = IF va <= a /\ a < va + piece
                             THEN CopiedAt(a) \cup {op.seg} ELSE CopiedAt(a)
         /\ \A k \in CopiedAt(a) : k <= op.seg
         /\ CopiedAt(a) \subseteq Int /\ op.seg \in Int
<1>1. Building /\ op \in BuildOp /\ op.step = "copy"
  BY OpIsRecord DEF Copying, At, Building, Early, Safe
<1>2. op.i \in Nat /\ piece \in Nat /\ this \in Segment
  BY PieceBounds
<1>3. op.seg \in DOMAIN segments /\ op.seg \in Nat /\ this.vaddr \in Nat
      /\ this = segments[op.seg]
  BY <1>1, <1>2 DEF Copying, BuildOp, this, Segment
<1>4. va = this.vaddr + op.i
  BY DEF va
<1>5. segments' = segments
  BY ImageSame
<1>6. ASSUME NEW k \in DOMAIN segments
      PROVE  /\ k \in Nat
             /\ CopiedLen(k) = IF k < op.seg THEN segments[k].filesz
                               ELSE IF k = op.seg THEN op.i ELSE 0
             /\ CopiedLen(k)' = IF k = op.seg THEN op.i + piece ELSE CopiedLen(k)
             /\ segments[k].vaddr \in Nat
  <2>1. k \in Nat /\ segments[k].vaddr \in Nat
        /\ CopiedLen(k) = IF k < op.seg THEN segments[k].filesz
                          ELSE IF k = op.seg THEN op.i ELSE 0
    BY <1>1, CopiedLens
  <2>2. CopiedLen(k)' = IF k < op.seg THEN segments[k].filesz
                        ELSE IF k = op.seg THEN op.i + piece ELSE 0
    BY <1>5 DEF CopiedLen, Late
  <2> QED
    BY <1>3, <2>1, <2>2
<1>7. ASSUME NEW k \in DOMAIN segments, k # op.seg
      PROVE  k \in CopiedAt(a)' <=> k \in CopiedAt(a)
  BY <1>5, <1>6, <1>7 DEF CopiedAt
<1>8. op.seg \in CopiedAt(a)' <=> op.seg \in CopiedAt(a) \/ (va <= a /\ a < va + piece)
  <2>1. op.seg \in CopiedAt(a) <=> this.vaddr <= a /\ a < this.vaddr + op.i
    BY <1>3, <1>6 DEF CopiedAt
  <2>2. op'.seg \in CopiedAt(a)' <=> this.vaddr <= a /\ a < this.vaddr + (op.i + piece)
    BY <1>3, <1>5, <1>6 DEF CopiedAt
  <2> QED
    BY <1>2, <1>3, <1>4, <2>1, <2>2
<1>9. CopiedAt(a)' \subseteq DOMAIN segments /\ CopiedAt(a) \subseteq DOMAIN segments
  BY <1>5 DEF CopiedAt
<1>10. \A k \in CopiedAt(a) : k <= op.seg /\ k \in Int
  <2> TAKE k \in CopiedAt(a)
  <2>1. k \in DOMAIN segments /\ segments[k].vaddr <= a
        /\ a < segments[k].vaddr + CopiedLen(k)
    BY DEF CopiedAt
  <2>2. k \in Nat /\ segments[k].vaddr \in Nat
        /\ CopiedLen(k) = IF k < op.seg THEN segments[k].filesz
                          ELSE IF k = op.seg THEN op.i ELSE 0
    BY <1>6, <2>1
  <2> QED
    BY <1>3, <2>1, <2>2
<1>11. CopiedAt(a)' = IF va <= a /\ a < va + piece
                        THEN CopiedAt(a) \cup {op.seg} ELSE CopiedAt(a)
  <2> DEFINE new == CopiedAt(a)'
             old == CopiedAt(a)
             S == DOMAIN segments
             s == op.seg
             here == va <= a /\ a < va + piece
  <2>1. /\ new \subseteq S /\ old \subseteq S /\ s \in S
        /\ \A k \in S : k # s => (k \in new <=> k \in old)
        /\ s \in new <=> s \in old \/ here
    BY <1>3, <1>7, <1>8, <1>9
  <2> HIDE DEF new, old, S, s, here
  <2>2. new = IF here THEN old \cup {s} ELSE old
    BY <2>1
  <2> QED
    BY <2>2 DEF new, old, S, s, here
<1> QED
  BY <1>3, <1>10, <1>11

(* Copying a piece: its bytes are those of the last segment that has them, *)
(* the others stay as they are.                                            *)
LEMMA CopyContent ==
  ASSUME Safe, Shape, SpaceFilled, copy_piece, ~give_up
  PROVE  SpaceFilled'
<1>1. Building /\ op \in BuildOp /\ Copying /\ op.i < this.filesz /\ op.step = "copy"
  BY OpIsRecord DEF copy_piece, Copying, At, Building, Early, Safe
<1>2. piece_ok /\ copied(piece) /\ UNCHANGED <<image, map, given, next_pid>>
  BY SMTT(60) DEF copy_piece, refuse
<1> DEFINE u == va \div PAGE
           first == va % PAGE
           f == map[next_pid][u].frame
           row == [o \in DOMAIN ram[f] |->
                     IF o \in first .. first + piece - 1
                       THEN image.bytes[this.offset + op.i + (o - first) + 1]
                       ELSE ram[f][o]]
<1>3. ram' = [ram EXCEPT ![f] = row] /\ op' = [op EXCEPT !.i = @ + piece]
  BY <1>2 DEF copied
<1>4. /\ op.i \in Nat /\ piece \in Nat /\ this \in Segment /\ va \in Nat
      /\ first \in Bytes /\ u \in Nat /\ va = PAGE * u + first
      /\ piece <= PAGE - first
  BY <1>1, PieceBounds
<1>5. op'.step = "copy" /\ op'.seg = op.seg /\ op'.i = op.i + piece
  <2>1. op' = [op EXCEPT !.i = op.i + piece]
    BY <1>3
  <2> QED
    BY <1>1, <2>1, SMTT(60) DEF BuildOp
<1>6. u \in ImagePages /\ u \in Page /\ next_pid \in Pid /\ map[next_pid][u] # Unmapped
  <2>1. u \in ImagePages
    BY <1>2 DEF piece_ok, ImagePages
  <2>2. ImageLow
    BY <1>1 DEF Safe, ImageChecked
  <2>3. u \in Page
    BY <2>1, <2>2, ImageBelowHeap DEF Safe
  <2> QED
    BY <1>1, <2>1, <2>3, NextIsPid, BuiltBy DEF Shape, SpaceBuilt
<1>7. f \in Frame
  BY <1>6, MappedFrame
<1>8. ram \in [Frame -> [0 .. PAGE - 1 -> Byte]]
  BY DEF Safe, TypeOK
<1>9. /\ ram'[f] = row /\ DOMAIN ram[f] = Bytes
      /\ \A g \in Frame : g # f => ram'[g] = ram[g]
  <2> HIDE DEF f
  <2>1. DOMAIN ram[f] = Bytes
    BY <1>7, <1>8 DEF Bytes
  <2> HIDE DEF row
  <2> QED
    BY <1>3, <1>7, <1>8, <2>1
<1>10. \A a \in Nat :
         /\ CopiedAt(a)' = IF va <= a /\ a < va + piece
                             THEN CopiedAt(a) \cup {op.seg} ELSE CopiedAt(a)
         /\ \A k \in CopiedAt(a) : k <= op.seg
         /\ CopiedAt(a) \subseteq Int /\ op.seg \in Int
  BY <1>1, <1>2, <1>5, PieceCopied
<1>11. segments' = segments /\ ImagePages' = ImagePages
  BY <1>2, ImageSame
<1>12. CopiedToImage'
  <2> SUFFICES ASSUME NEW a \in Nat, CopiedAt(a)' # {} PROVE a \div PAGE \in ImagePages
    BY <1>11 DEF CopiedToImage
  <2>1. CASE va <= a /\ a < va + piece
    <3> DEFINE v == a \div PAGE
               o == a % PAGE
    <3>1. v \in Nat /\ o \in Bytes /\ a = PAGE * v + o
      BY Constants, DivMod DEF Bytes
    <3> HIDE DEF v, o, u, first
    <3>2. v = u
      BY <1>4, <2>1, <3>1, PieceAddress
    <3> QED
      BY <1>6, <3>2 DEF v
  <2>2. CASE ~(va <= a /\ a < va + piece)
    BY <1>1, <1>10, <2>2 DEF SpaceFilled, CopiedToImage
  <2> QED
    BY <2>1, <2>2
<1>13. ASSUME NEW a \in Nat, ~(va <= a /\ a < va + piece)
       PROVE  Content(a)' = Content(a)
  <2>1. CopiedAt(a)' = CopiedAt(a)
    BY <1>10, <1>13
  <2>2. FileByte(Max(CopiedAt(a)), a)' = FileByte(Max(CopiedAt(a)), a)
    BY <1>2, <2>1, ImageSame DEF FileByte
  <2> QED
    BY <1>2, <2>1, <2>2 DEF Content
<1>14. ASSUME NEW a \in Nat, va <= a, a < va + piece
       PROVE  Content(a)' = FileByte(op.seg, a)
  <2>1. CopiedAt(a)' = CopiedAt(a) \cup {op.seg}
    BY <1>10, <1>14
  <2>2. Max(CopiedAt(a) \cup {op.seg}) = op.seg
    <3> DEFINE S == CopiedAt(a) \cup {op.seg}
               s == op.seg
    <3>1. S \subseteq Int /\ s \in S /\ \A j \in S : j <= s
      BY <1>10
    <3> HIDE DEF S, s
    <3>2. Max(S) = s
      BY <3>1, MaxIs
    <3> QED
      BY <3>2 DEF S, s
  <2>3. Content(a)' = FileByte(op.seg, a)'
    BY <1>5, <2>1, <2>2 DEF Content
  <2>4. FileByte(op.seg, a)' = FileByte(op.seg, a)
    BY <1>2, <1>5, <1>11 DEF FileByte
  <2> QED
    BY <2>3, <2>4
<1>15. ASSUME NEW v \in Page, map[next_pid][v] # Unmapped, NEW o \in Bytes
       PROVE  ram'[map[next_pid][v].frame][o] = Content(PAGE * v + o)'
  <2> DEFINE a == PAGE * v + o
  <2>1. a \in Nat /\ v \in Nat
    BY PageAddress, PageIsNat
  <2>2. va <= a /\ a < va + piece <=> v = u /\ first <= o /\ o < first + piece
    <3> HIDE DEF u, first
    <3> QED
      BY <1>4, <2>1, PieceAddress
  <2>3. ram[map[next_pid][v].frame][o] = Content(a)
    BY <1>1, <1>15, SMTT(60) DEF SpaceFilled, ContentBuilt
  <2>4. CASE v # u
    <3>1. map[next_pid][v].frame # f /\ map[next_pid][v].frame \in Frame
      BY <1>6, <1>15, <2>4, MappedFrame DEF Safe, Unshared, PagesDistinct
    <3>2. Content(a)' = Content(a)
      <4> HIDE DEF a
      <4> QED
        BY <1>13, <2>1, <2>2, <2>4, SMTT(60)
    <3> QED
      BY <1>9, <2>3, <3>1, <3>2
  <2>5. CASE v = u /\ ~(first <= o /\ o < first + piece)
    <3>1. Content(a)' = Content(a)
      <4> HIDE DEF a
      <4> QED
        BY <1>13, <2>1, <2>2, <2>5
    <3>2. o \notin first .. first + piece - 1
      BY <1>4, <2>5 DEF Bytes
    <3>3. row[o] = ram[f][o]
      BY <1>9, <3>2, SMTT(60)
    <3> QED
      BY <1>9, <2>3, <2>5, <3>1, <3>3
  <2>6. CASE v = u /\ first <= o /\ o < first + piece
    <3>1. Content(a)' = FileByte(op.seg, a)
      <4> HIDE DEF a
      <4> QED
        BY <1>14, <2>1, <2>2, <2>6
    <3>2. o \in first .. first + piece - 1 /\ o \in Nat /\ first \in Nat
      BY <1>4, <2>6, SMTT(60) DEF Bytes
    <3>3. row[o] = image.bytes[this.offset + op.i + (o - first) + 1]
      BY <1>9, <3>2
    <3>4. a - this.vaddr = op.i + (o - first) /\ this.offset \in Nat
      <4>1. va = this.vaddr + op.i /\ this.vaddr \in Nat /\ this.offset \in Nat
        BY <1>4 DEF va, Segment
      <4> DEFINE x == PAGE * u
      <4>2. a = x + o /\ va = x + first /\ x \in Nat
        BY <1>4, <2>6, Constants
      <4> HIDE DEF x, a, u, first
      <4> QED
        BY <1>4, <3>2, <4>1, <4>2
    <3>5. this.offset + (a - this.vaddr) + 1 = this.offset + op.i + (o - first) + 1
      BY <1>4, <3>2, <3>4, SMTT(60)
    <3>6. FileByte(op.seg, a) = row[o]
      BY <3>3, <3>5 DEF FileByte, this
    <3> QED
      BY <1>9, <2>6, <3>1, <3>6
  <2> QED
    BY <2>4, <2>5, <2>6
<1>16. ContentBuilt'
  BY <1>2, <1>15 DEF ContentBuilt
<1> QED
  BY <1>12, <1>16 DEF SpaceFilled

(* The check of the environment: the pages so far lie below the heap. *)
LEMMA EnvCheckContent ==
  ASSUME Safe, Safe', Shape, SpaceFilled, env_check, ~give_up
  PROVE  SpaceFilled'
<1>1. Building /\ op \in BuildOp /\ op.step = "env"
  BY OpIsRecord DEF env_check, At, Building, Late, Safe
<1>2. op' = [op EXCEPT !.step = "envpages", !.i = 0] /\ UNCHANGED <<image, ram, map, next_pid>>
  BY DEF env_check, Goto, refuse
<1>3. op'.step = "envpages"
  BY <1>1, <1>2 DEF BuildOp
<1>4. segments' = segments /\ ImagePages' = ImagePages
  BY <1>2, ImageSame
<1>5. \A k \in DOMAIN segments : CopiedLen(k)' = CopiedLen(k)
  BY <1>1, <1>3, <1>4 DEF CopiedLen, Late
<1>6. \A a \in Nat : CopiedAt(a)' = CopiedAt(a)
  BY <1>2, <1>5, CopiedSame
<1>7. CopiedToImage'
  BY <1>1, <1>4, <1>6 DEF SpaceFilled, CopiedToImage
<1>8. ASSUME NEW a \in Nat, a < HEAP_START PROVE Content(a)' = Content(a)
  <2>1. FileByte(Max(CopiedAt(a)), a)' = FileByte(Max(CopiedAt(a)), a)
    BY <1>2, <1>6, ImageSame DEF FileByte
  <2>2. a \notin HEAP_START .. HEAP_START + Len(given[next_pid]) - 1
        /\ a \notin HEAP_START .. HEAP_START + Len(given'[next_pid]) - 1
    <3>1. given \in [Pid -> Seq(Byte)] /\ given' \in [Pid -> Seq(Byte)]
      BY Zenon DEF Safe, TypeOK
    <3> DEFINE m == Len(given[next_pid])
               n == Len(given'[next_pid])
    <3>2. m \in Nat /\ n \in Nat
      BY <1>1, <3>1, NextIsPid
    <3> HIDE DEF m, n
    <3>3. a \notin HEAP_START .. HEAP_START + m - 1
          /\ a \notin HEAP_START .. HEAP_START + n - 1
      BY <1>8, <3>2, Constants
    <3> QED
      BY <3>3 DEF m, n
  <2> QED
    BY <1>2, <1>6, <2>1, <2>2 DEF Content
<1>9. ASSUME NEW v \in Page, map[next_pid][v] # Unmapped, NEW o \in Bytes
      PROVE  ram[map[next_pid][v].frame][o] = Content(PAGE * v + o)'
  <2> DEFINE a == PAGE * v + o
  <2>1. a \in Nat /\ v \in Nat
    BY PageAddress, PageIsNat
  <2>2. v < HeapPage
    <3>1. v \in ImagePages \cup StackPages
      BY <1>1, <1>9, NextIsPid, BuiltBy DEF Shape, SpaceBuilt
    <3>2. ImageLow
      BY <1>1 DEF Safe, ImageChecked, Late
    <3>3. ImagePages \subseteq 0 .. HeapPage - 1
      BY <3>2, ImageBelowHeap DEF Safe
    <3> QED
      BY <2>1, <3>1, <3>3, StackPagesBelow, Constants
  <2>3. a < HEAP_START
    <3>1. /\ PAGE \in Nat \ {0} /\ HeapPage \in Nat /\ HEAP_START = PAGE * HeapPage
          /\ o \in Nat /\ o < PAGE
      BY Constants DEF Bytes
    <3>2. PAGE * v + PAGE <= PAGE * HeapPage
      BY <2>1, <2>2, <3>1, MulStep
    <3> DEFINE x == PAGE * v
    <3>3. x \in Nat
      BY <2>1, <3>1
    <3> HIDE DEF x
    <3>4. x + o < HEAP_START
      BY <3>1, <3>2, <3>3, Constants DEF x
    <3> QED
      BY <3>4 DEF x
  <2>4. ram[map[next_pid][v].frame][o] = Content(a)
    BY <1>1, <1>9 DEF SpaceFilled, ContentBuilt
  <2> HIDE DEF a
  <2>5. Content(a)' = Content(a)
    BY <1>8, <2>1, <2>3
  <2> QED
    BY <2>4, <2>5 DEF a
<1>10. ContentBuilt'
  BY <1>2, <1>9 DEF ContentBuilt
<1> QED
  BY <1>7, <1>10 DEF SpaceFilled

(* A spawn begins with an empty space. *)
LEMMA BeginContent ==
  ASSUME Safe, Shape, NEW p, NEW ptr, NEW len, Begin(p, ptr, len)
  PROVE  SpaceFilled'
<1>1. /\ op = Idle /\ next_pid < MAX_PROCS
      /\ op' = [step |-> "space", parent |-> p, ptr |-> ptr, len |-> len,
                pages |-> {}, seg |-> 1, i |-> 0]
      /\ UNCHANGED <<image, map, next_pid>>
  BY DEF Begin
<1>2. op'.step = "space" /\ op'.seg = 1 /\ op'.i = 0
  BY <1>1
<1>3. next_pid \in Pid
  BY <1>1, Constants DEF Safe, TypeOK
<1>4. Built = {}
  BY <1>1 DEF Built, Idle
<1>5. \A v \in Page : map[next_pid][v] = Unmapped
  BY <1>3, <1>4 DEF Shape, SpaceBuilt
<1>6. segments' = segments
  BY <1>1, ImageSame
<1>7. \A a \in Nat : CopiedAt(a)' = {}
  <2> SUFFICES ASSUME NEW a \in Nat, NEW k \in DOMAIN segments
               PROVE  ~(segments[k].vaddr <= a /\ a < segments[k].vaddr + CopiedLen(k)')
    BY <1>6 DEF CopiedAt
  <2>1. k \in Nat /\ k >= 1 /\ segments[k].vaddr \in Nat
    BY SegmentType DEF Safe, Segment
  <2>2. CopiedLen(k)' = 0
    BY <1>2, <2>1 DEF CopiedLen, Late
  <2> QED
    BY <2>1, <2>2
<1>8. CopiedToImage'
  BY <1>7 DEF CopiedToImage
<1>9. ContentBuilt'
  BY <1>1, <1>5 DEF ContentBuilt
<1> QED
  BY <1>8, <1>9 DEF SpaceFilled

(* Every step keeps the contents of the space in progress. *)
LEMMA StepFilled ==
  Safe /\ Shape /\ EnvGiven /\ SpaceFilled /\ Safe' /\ [Next]_vars => SpaceFilled'
<1> SUFFICES ASSUME Safe, Shape, EnvGiven, SpaceFilled, Safe', [Next]_vars
             PROVE  SpaceFilled'
  OBVIOUS
<1>1. SUFFICES ASSUME Building' PROVE SpaceFilled'
  BY DEF SpaceFilled, CopiedToImage, ContentBuilt
<1>2. ~give_up
  BY <1>1 DEF give_up, Building, Early, Late, Idle, Panicked
<1>3. CASE UNCHANGED vars
  <2>1. UNCHANGED <<image, map, ram, given, next_pid, op>>
    BY <1>3 DEF vars
  <2>2. Building /\ \A k \in DOMAIN segments : CopiedLen(k)' = CopiedLen(k)
    BY <1>1, <2>1, ImageSame DEF CopiedLen, Building
  <2> QED
    BY <2>1, <2>2, QuietContent
<1>4. CASE SpawnStep
  <2>1. ~ \E ok \in BOOLEAN : install(ok)
    BY <1>1, <1>2 DEF install, refuse, Building, Early, Late, Idle
  <2> QED
    BY <1>2, <1>4, <2>1, MoveContent, MapContent, CopyContent, StackContent,
       EnvCheckContent, EnvPageContent DEF SpawnStep
<1>5. CASE op = Idle /\ ~SpawnStep /\ ~UNCHANGED vars
  <2>1. op' = op \/ \E p, ptr, len : Begin(p, ptr, len)
    BY <1>5 DEF Next, run, spawn, spawn_env, sbrk, sbrk_short,
     sbrk_shrink, store
  <2>2. op' # op
    BY <1>1, <1>5 DEF Building, Early, Late, Idle
  <2> QED
    BY <2>1, <2>2, BeginContent, SMTT(60)
<1>6. op = Idle \/ SpawnStep \/ UNCHANGED vars
  BY DEF Next, run, spawn, spawn_env, Begin, sbrk, sbrk_short,
     sbrk_shrink, store
<1> QED
  BY <1>3, <1>4, <1>5, <1>6

(* The pages that an environment at the start of the heap touches. *)
LEMMA EnvPagesAre ==
  ASSUME NEW len \in Nat
  PROVE  {x \div PAGE : x \in HEAP_START .. HEAP_START + len - 1}
            = HeapPage .. HeapPage + pages_for(len) - 1
<1> DEFINE n == pages_for(len)
           r == (len + PAGE - 1) % PAGE
           h == PAGE * HeapPage
           d == PAGE * n
<1>1. /\ PAGE \in Nat \ {0} /\ HeapPage \in Nat /\ HEAP_START = h /\ h \in Nat
      /\ len + PAGE - 1 \in Nat
  BY Constants
<1>2. n \in Nat /\ r \in 0 .. PAGE - 1 /\ len + PAGE - 1 = d + r
  BY <1>1, DivMod DEF pages_for
<1>3. d \in Nat /\ PAGE * (HeapPage + n) = h + d
  <2> HIDE DEF n
  <2> QED
    BY <1>1, <1>2, MulAdd
<1>4. len <= d /\ d <= len + PAGE - 1
  <2> HIDE DEF n, d, r
  <2> QED
    BY <1>1, <1>2, <1>3
<1>5. ASSUME NEW x \in HEAP_START .. HEAP_START + len - 1
      PROVE  x \div PAGE \in HeapPage .. HeapPage + n - 1
  <2> HIDE DEF n, d, h
  <2>1. x \in Nat /\ h <= x /\ x < h + d /\ HeapPage + n \in Nat
    BY <1>1, <1>2, <1>3, <1>4
  <2>2. x < PAGE * (HeapPage + n)
    BY <1>3, <2>1
  <2>3. x \div PAGE \in Nat /\ x \div PAGE < HeapPage + n
    BY <1>1, <2>1, <2>2, DivLess, DivMod
  <2>4. HeapPage <= x \div PAGE
    BY <1>1, <2>1, DivAtLeast DEF h
  <2> QED
    BY <1>1, <1>2, <2>3, <2>4
<1>6. ASSUME NEW v \in HeapPage .. HeapPage + n - 1
      PROVE  \E x \in HEAP_START .. HEAP_START + len - 1 : v = x \div PAGE
  <2> DEFINE i == v - HeapPage
             e == PAGE * i
  <2>1. i \in Nat /\ i < n /\ v = HeapPage + i /\ v \in Nat
    <3> HIDE DEF n
    <3> QED
      BY <1>1, <1>2
  <2>2. e \in Nat /\ PAGE * v = h + e
    <3> HIDE DEF i
    <3>1. PAGE * (HeapPage + i) = h + i * PAGE /\ i * PAGE = PAGE * i
      BY <1>1, <2>1, MulAdd
    <3> QED
      BY <1>1, <2>1, <3>1
  <2>3. e + PAGE <= d
    <3> HIDE DEF i, n
    <3> QED
      BY <1>1, <1>2, <2>1, MulStep
  <2> HIDE DEF i, e, d, n, h
  <2>4. h + e \in HEAP_START .. HEAP_START + len - 1
    BY <1>1, <1>3, <1>4, <2>2, <2>3
  <2>5. (PAGE * v + 0) \div PAGE = v /\ PAGE * v + 0 = PAGE * v
    BY <1>1, <2>1, <2>2, DivUnique
  <2>6. v = (h + e) \div PAGE
    BY <2>2, <2>5
  <2> QED
    BY <2>4, <2>6
<1> HIDE DEF n
<1>7. {x \div PAGE : x \in HEAP_START .. HEAP_START + len - 1}
         = HeapPage .. HeapPage + n - 1
  BY <1>5, <1>6
<1> QED
  BY <1>7 DEF n

(* The space that is about to be installed holds what it should. *)
LEMMA InstallLinked ==
  ASSUME Safe, Shape, EnvGiven, SpaceFilled, op.step = "install"
  PROVE  /\ envp_len[next_pid] = Len(given[next_pid])
         /\ \A a \in 0 .. USER_ADDR_MAX - 1 : peek(next_pid, a) = Linked(next_pid, a)
<1>1. Building /\ op \in BuildOp
  BY OpIsRecord DEF Building, Late, Safe
<1>2. next_pid \in Pid /\ op.len \in Nat
  BY <1>1, NextIsPid DEF BuildOp
<1>3. /\ envp_user[next_pid] = IF op.len = 0 THEN 0 ELSE HEAP_START
      /\ envp_len[next_pid] = op.len
  BY DEF Shape, ProcessMade
<1>4. Len(given[next_pid]) = op.len
  <2>1. CASE op.len = 0
    BY <1>2, <2>1 DEF EnvGiven, WithEnv
  <2>2. CASE op.len > 0
    BY <1>2, <2>2 DEF EnvGiven, WithEnv
  <2> QED
    BY <1>2, <2>1, <2>2
<1> DEFINE n == pages_for(op.len)
           E == HEAP_START .. HEAP_START + op.len - 1
<1>5. EnvAt(next_pid) = E /\ EnvPages(next_pid) = HeapPage .. HeapPage + n - 1
  <2>1. EnvAt(next_pid) = envp_user[next_pid] .. envp_user[next_pid] + op.len - 1
    BY <1>3 DEF EnvAt, getenvp
  <2>2. EnvAt(next_pid) = E
    <3>1. CASE op.len = 0
      <4>1. EnvAt(next_pid) = 0 .. 0 + 0 - 1
        BY <1>3, <2>1, <3>1
      <4>2. 0 .. 0 + 0 - 1 = {} /\ E = {}
        BY <3>1, Constants
      <4> QED
        BY <4>1, <4>2
    <3>2. CASE op.len # 0
      BY <1>3, <2>1, <3>2
    <3> QED
      BY <3>1, <3>2
  <2>3. EnvPages(next_pid) = {x \div PAGE : x \in E}
    BY <2>2 DEF EnvPages
  <2> QED
    BY <1>2, <2>2, <2>3, EnvPagesAre
<1>6. Built = ImagePages \cup StackPages \cup EnvPages(next_pid)
  BY <1>5, BuiltBy
<1> HIDE DEF n, E
<1>7. ASSUME NEW a \in 0 .. USER_ADDR_MAX - 1
      PROVE  peek(next_pid, a) = Linked(next_pid, a)
  <2> DEFINE v == a \div PAGE
             o == a % PAGE
  <2>1. a \in Nat /\ a < USER_ADDR_MAX
    BY <1>7, Constants
  <2>2. v \in Page /\ o \in Bytes /\ a = PAGE * v + o /\ v \in Nat
    BY <2>1, PageOf, PageIsNat
  <2>3. CopiedAt(a) = FileAt(a)
    <3> SUFFICES ASSUME NEW k \in DOMAIN segments
                 PROVE  segments[k].vaddr <= a /\ a < segments[k].vaddr + CopiedLen(k)
                          <=> a \in segments[k].vaddr .. segments[k].vaddr
                                                          + segments[k].filesz - 1
      BY DEF CopiedAt, FileAt
    <3>1. CopiedLen(k) = segments[k].filesz /\ CopiedLen(k) \in Nat
          /\ segments[k].vaddr \in Nat
      BY <1>1, CopiedLens DEF Late
    <3> QED
      BY <2>1, <3>1
  <2>4. FileAt(a) # {} => v \in ImagePages
    BY <1>1, <2>1, <2>3 DEF SpaceFilled, CopiedToImage
  <2>5. a \in E => v \in EnvPages(next_pid)
    BY <1>5 DEF EnvPages
  <2>6. map[next_pid][v] # Unmapped <=> v \in ImagePages \cup StackPages \cup EnvPages(next_pid)
    BY <1>2, <1>6, <2>2 DEF Shape, SpaceBuilt
  <2>7. CASE map[next_pid][v] = Unmapped
    <3>1. peek(next_pid, a) = None
      BY <2>7 DEF peek
    <3>2. FileAt(a) = {} /\ a \notin E
          /\ v \notin ImagePages \cup StackPages \cup EnvPages(next_pid)
      BY <2>4, <2>5, <2>6, <2>7
    <3> QED
      BY <1>5, <3>1, <3>2 DEF Linked
  <2>8. CASE map[next_pid][v] # Unmapped
    <3>1. ram[map[next_pid][v].frame][o] = Content(PAGE * v + o)
      BY <1>1, <2>2, <2>8 DEF SpaceFilled, ContentBuilt
    <3>2. peek(next_pid, a) = ram[map[next_pid][v].frame][o]
      BY <2>8 DEF peek
    <3>3. peek(next_pid, a) = Content(a)
      <4> HIDE DEF v, o
      <4> QED
        BY <2>2, <3>1, <3>2
    <3>4. CASE FileAt(a) # {}
      BY <2>3, <3>3, <3>4 DEF Linked, Content, FileByte
    <3>5. CASE FileAt(a) = {} /\ a \in E
      <4>1. op.len # 0 /\ envp_user[next_pid] = HEAP_START
        BY <1>2, <1>3, <3>5, Constants DEF E
      <4>2. Content(a) = given[next_pid][a - HEAP_START + 1]
        BY <1>4, <2>3, <3>5 DEF Content, E
      <4>3. Linked(next_pid, a) = given[next_pid][a - HEAP_START + 1]
        BY <1>5, <3>5, <4>1 DEF Linked
      <4> QED
        BY <3>3, <4>2, <4>3
    <3>6. CASE FileAt(a) = {} /\ a \notin E
      <4>1. Content(a) = 0
        BY <1>4, <2>3, <3>6 DEF Content, E
      <4>2. Linked(next_pid, a) = 0
        BY <1>5, <2>6, <2>8, <3>6 DEF Linked
      <4> QED
        BY <3>3, <4>1, <4>2
    <3> QED
      BY <3>4, <3>5, <3>6
  <2> QED
    BY <2>7, <2>8
<1> QED
  BY <1>3, <1>4, <1>7

(* What LoadedAsLinked says of one process. *)
AsLinked(p) ==
    /\ envp_len[p] = Len(given[p])
    /\ \A a \in 0 .. USER_ADDR_MAX - 1 : peek(p, a) = Linked(p, a)

(* A process whose memory and environment are left alone. *)
LEMMA StaysLinked ==
  ASSUME image' = image, NEW p \in Pid, Kept(p), AsLinked(p),
         envp_user'[p] = envp_user[p], envp_len'[p] = envp_len[p], given'[p] = given[p]
  PROVE  AsLinked(p)'
<1>1. ASSUME NEW a \in 0 .. USER_ADDR_MAX - 1
      PROVE  peek(p, a)' = Linked(p, a)'
  <2>1. a \in Nat /\ a < USER_ADDR_MAX
    BY Constants
  <2>2. peek(p, a)' = peek(p, a)
    BY <2>1, KeptPeek
  <2>3. FileAt(a)' = FileAt(a) /\ EnvAt(p)' = EnvAt(p) /\ EnvPages(p)' = EnvPages(p)
        /\ ImagePages' = ImagePages /\ segments' = segments
    BY ImageSame DEF FileAt, EnvAt, getenvp, EnvPages
  <2>4. Linked(p, a)' = Linked(p, a)
    BY <2>3 DEF Linked
  <2> QED
    BY <2>2, <2>4 DEF AsLinked
<1> QED
  BY <1>1 DEF AsLinked

(* A write of another program. *)
LEMMA StoreKeeps ==
  ASSUME Safe, NEW p \in Pid, NEW a \in Stores, NEW b, store(p, a, b),
         NEW q \in Pid, q # p
  PROVE  Kept(q)
<1> DEFINE u == a \div PAGE
           f == map[p][u].frame
<1>1. map' = map /\ map[p][u].writable /\ \E row : ram' = [ram EXCEPT ![f] = row]
  <2>1. ram' = [ram EXCEPT ![f] = [ram[f] EXCEPT ![a % PAGE] = b]]
    BY DEF store
  <2> QED
    BY <2>1 DEF store
<1>2. u \in Page
  <2>1. a \in Nat /\ a < USER_ADDR_MAX
    BY LoaderAssumption, Constants
  <2> QED
    BY <2>1, PageOf
<1> HIDE DEF u
<1>3. ASSUME NEW v \in Page, map[q][v] # Unmapped
      PROVE  ram'[map[q][v].frame] = ram[map[q][v].frame]
  <2>1. map[q][v].frame \in Frame /\ map[q][v].frame # None
    BY <1>3, MappedFrame
  <2>2. map[q][v].frame # f
    BY <1>2, <2>1 DEF Safe, Unshared, PagesDistinct
  <2> HIDE DEF f
  <2>3. ram \in [Frame -> [0 .. PAGE - 1 -> Byte]]
    BY DEF Safe, TypeOK
  <2> QED
    BY <1>1, <2>1, <2>2, <2>3
<1> QED
  BY <1>1, <1>3, SMTT(60) DEF Kept

(* The heap of another process grows. *)
LEMMA SbrkKeeps ==
  ASSUME Safe, NEW p \in Pid, sbrk(p) \/ sbrk_short(p) \/ sbrk_shrink(p),
         NEW q \in Pid, q # p
  PROVE  Kept(q)
<1>5. CASE sbrk_short(p)
  BY <1>5, ShortResult, KeptBy
<1>6. CASE sbrk_shrink(p)
  BY <1>6 DEF sbrk_shrink, Kept
<1>7. SUFFICES ASSUME sbrk(p) PROVE Kept(q)
  BY <1>5, <1>6
<1> DEFINE v == heap_break[p] \div PAGE
<1>1. heap_break[p] + PAGE <= HEAP_MAX
      /\ IF map_ok(p, v) THEN alloc_map(p, v, TRUE, FALSE) /\ fill_zero
         ELSE lose_frame /\ map' = map
  BY <1>7 DEF sbrk
<1>2. v \in Page
  BY <1>1, BreakPage
<1> HIDE DEF v
<1>3. CASE map_ok(p, v)
  <2>1. \A w, x \in BOOLEAN : alloc_map(p, v, w, x) => Kept(q)
    BY <1>1, <1>2, <1>3, ZerosType, AllocKeeps DEF fill_zero
  <2> QED
    BY <1>1, <1>3, <2>1
<1>4. CASE ~map_ok(p, v)
  BY <1>1, <1>4, LoseFrame, KeptBy
<1> QED
  BY <1>3, <1>4

(* A step of a spawn changes the break of no process that exists. *)
LEMMA SpawnBreak ==
  ASSUME Safe, SpawnStep, NEW p \in Running
  PROVE  heap_break'[p] = heap_break[p]
<1>1. p # next_pid /\ p \in Pid
  BY RunningIsPid DEF Safe
<1>2. \E x : heap_break' = heap_break \/ heap_break' = [heap_break EXCEPT ![next_pid] = x]
  BY DEF SpawnStep, vspace_new, load_check, load_map, load_mapped, copy_piece,
     next_segment, loaded, stack_page, created, env_check, env_page, env_done, install,
     refuse, give_up, process
<1>3. heap_break \in [Pid -> Nat]
  BY DEF Safe, TypeOK
<1> QED
  BY <1>1, <1>2, <1>3

(* A step of a spawn changes the Process of no process that exists. *)
LEMMA SpawnProcess ==
  ASSUME Safe, SpawnStep, NEW p \in Running
  PROVE  /\ envp_user'[p] = envp_user[p] /\ envp_len'[p] = envp_len[p]
         /\ given'[p] = given[p] /\ image' = image
<1>1. p # next_pid /\ p \in Pid
  BY RunningIsPid DEF Safe
<1>2. image' = image
  BY DEF SpawnStep, vspace_new, load_check, load_map, load_mapped, copy_piece,
     next_segment, loaded, stack_page, created, env_check, env_page, env_done, install,
     refuse, give_up
<1>3. \E x : given' = given \/ given' = [given EXCEPT ![next_pid] = x]
  BY DEF SpawnStep, vspace_new, load_check, load_map, load_mapped, copy_piece,
     next_segment, loaded, stack_page, created, env_check, env_page, env_done, install,
     refuse, give_up
<1>4. \E x : envp_user' = envp_user \/ envp_user' = [envp_user EXCEPT ![next_pid] = x]
  BY DEF SpawnStep, vspace_new, load_check, load_map, load_mapped, copy_piece,
     next_segment, loaded, stack_page, created, env_check, env_page, env_done, install,
     refuse, give_up, process
<1>5. \E x : envp_len' = envp_len \/ envp_len' = [envp_len EXCEPT ![next_pid] = x]
  BY DEF SpawnStep, vspace_new, load_check, load_map, load_mapped, copy_piece,
     next_segment, loaded, stack_page, created, env_check, env_page, env_done, install,
     refuse, give_up, process
<1>6. given \in [Pid -> Seq(Byte)] /\ envp_user \in [Pid -> Nat] /\ envp_len \in [Pid -> Nat]
  BY DEF Safe, TypeOK
<1> QED
  BY <1>1, <1>2, <1>3, <1>4, <1>5, <1>6

(* Every step keeps the memory of the processes that have not run, and a   *)
(* spawn adds one with the memory it should have.                          *)
LEMMA StepLinked ==
  Safe /\ Shape /\ EnvGiven /\ SpaceFilled /\ LoadedAsLinked /\ [Next]_vars
    => LoadedAsLinked'
<1> SUFFICES ASSUME Safe, Shape, EnvGiven, SpaceFilled, LoadedAsLinked, [Next]_vars
             PROVE  LoadedAsLinked'
  OBVIOUS
<1>1. \A p \in fresh : AsLinked(p) /\ p \in Running /\ p \in Pid
  BY RunningIsPid DEF LoadedAsLinked, AsLinked, Safe, TypeOK
<1>2. SUFFICES ASSUME NEW p \in fresh' PROVE AsLinked(p)'
  BY DEF LoadedAsLinked, AsLinked
<1>3. CASE SpawnStep /\ p \in fresh
  BY <1>1, <1>3, SpawnKeeps, SpawnProcess, StaysLinked
<1>4. CASE SpawnStep /\ p \notin fresh
  <2>1. PICK ok \in BOOLEAN : install(ok) /\ ok
    BY <1>2, <1>4 DEF SpawnStep, vspace_new, load_check, load_map, load_mapped, copy_piece,
       next_segment, loaded, stack_page, created, env_check, env_page, env_done, install,
       refuse, give_up
  <2>2. /\ op.step = "install" /\ fresh' = fresh \cup {next_pid}
        /\ UNCHANGED <<image, ram, map, envp_user, envp_len, given>>
    BY <2>1 DEF install, At, process
  <2>3. p = next_pid /\ op.step \in Late
    BY <1>2, <1>4, <2>2 DEF Late
  <2>4. AsLinked(p)
    BY <2>2, <2>3, InstallLinked DEF AsLinked
  <2>5. p \in Pid
    BY <2>3, NextIsPid DEF Building
  <2>6. Kept(p)
    BY <2>2 DEF Kept
  <2> QED
    BY <2>2, <2>4, <2>5, <2>6, StaysLinked
<1>5. ASSUME NEW q \in Pid, NEW a \in Stores, NEW b \in Byte, store(q, a, b)
      PROVE  AsLinked(p)'
  <2>1. /\ p \in fresh /\ p # q
        /\ UNCHANGED <<image, envp_user, envp_len, given>>
    BY <1>2, <1>5 DEF store, process
  <2> QED
    BY <1>1, <1>5, <2>1, StoreKeeps, StaysLinked
<1>6. ASSUME NEW q \in Pid, sbrk(q) \/ sbrk_short(q) \/ sbrk_shrink(q)
      PROVE  AsLinked(p)'
  <2>1. /\ p \in fresh /\ p # q
        /\ UNCHANGED <<image, envp_user, envp_len, given>>
    BY <1>2, <1>6 DEF sbrk, sbrk_short, sbrk_shrink, process
  <2> QED
    BY <1>1, <1>6, <2>1, SbrkKeeps, StaysLinked
<1>7. CASE UNCHANGED vars \/ \E q, ptr, len : Begin(q, ptr, len)
  <2>1. UNCHANGED <<image, ram, map, envp_user, envp_len, given, fresh>>
    BY <1>7 DEF vars, Begin, process
  <2>2. Kept(p)
    BY <2>1 DEF Kept
  <2> QED
    BY <1>1, <1>2, <2>1, <2>2, StaysLinked
<1>8. \/ SpawnStep
      \/ UNCHANGED vars \/ \E q, ptr, len : Begin(q, ptr, len)
      \/ \E q \in Pid : sbrk(q) \/ sbrk_short(q) \/ sbrk_shrink(q)
      \/ \E q \in Pid, a \in Stores, b \in Byte : store(q, a, b)
  BY DEF Next, run, spawn, spawn_env
<1> QED
  BY <1>3, <1>4, <1>5, <1>6, <1>7, <1>8

(* The third layer holds initially: no process, no spawn.                  *)
LEMMA InitContents == Init => EnvGiven /\ SpaceFilled /\ LoadedAsLinked
<1> SUFFICES ASSUME Init PROVE EnvGiven /\ SpaceFilled /\ LoadedAsLinked
  OBVIOUS
<1>1. op.step = "idle" /\ fresh = {} /\ given = [p \in Pid |-> <<>>]
  BY DEF Init, Idle
<1>2. ~WithEnv /\ ~Building
  BY <1>1 DEF WithEnv, Building, Early, Late
<1> QED
  BY <1>1, <1>2 DEF EnvGiven, SpaceFilled, CopiedToImage, ContentBuilt, LoadedAsLinked

(* The inductive invariant of the loader.                                  *)
LEMMA SpecContents == Spec => []Inv
<1>1. Init => Contents
  BY InitContents DEF Contents
<1>2. Safe /\ Safe' /\ Shape /\ Contents /\ [Next]_vars => Contents'
  BY StepGiven, StepFilled, StepLinked DEF Contents
<1>3. Spec => []Contents
  BY <1>1, <1>2, SpecSafe, SpecShape, PTL DEF Spec
<1>4. Safe /\ Shape /\ Contents => Inv
  BY DEF Inv
<1> QED
  BY <1>3, <1>4, SpecSafe, SpecShape, PTL

(* A new process has exactly the memory that its image and its parent gave *)
(* it: for every image, page size, amount of memory and environment, and   *)
(* after any number of failed spawns.                                      *)
THEOREM ProcessesAreLinked == Spec => []LoadedAsLinked
<1>1. Inv => LoadedAsLinked
  BY DEF Inv, Contents
<1> QED
  BY <1>1, SpecContents, PTL

(* A page above the start of the heap, behind the break of a process, is   *)
(* not mapped.                                                             *)
FreeBehind(p) ==
    \A v \in Page : v >= heap_break[p] \div PAGE => map[p][v] = Unmapped
FreshIsFree == \A p \in fresh : FreeBehind(p)

(* The process that is installed has mapped nothing behind its break.      *)
LEMMA InstallFree ==
  ASSUME Safe, Shape, Building, op.step = "install"
  PROVE  FreeBehind(next_pid)
<1>1. op \in BuildOp /\ next_pid \in Pid
  BY OpIsRecord, NextIsPid DEF Safe
<1>2. /\ heap_break[next_pid] \div PAGE = HeapPage + pages_for(op.len)
      /\ pages_for(op.len) \in Nat
  BY <1>1, EnvPageFits DEF Shape, ProcessMade, Safe, SpawnBounds, BuildOp
<1>3. \A v \in Built : v < HeapPage + pages_for(op.len)
  <2>1. Built = ImagePages \cup StackPages
                   \cup HeapPage .. HeapPage + pages_for(op.len) - 1
    BY <1>1, BuiltBy
  <2>2. \A v \in ImagePages : v \in Nat /\ v < HeapPage
    <3>1. ImageLow
      BY DEF Safe, ImageChecked, Late
    <3> QED
      BY <3>1, ImageBelowHeap, Constants DEF Safe
  <2> QED
    BY <1>2, <2>1, <2>2, StackPagesBelow, Constants
<1>4. \A v \in Page : v >= heap_break[next_pid] \div PAGE => v \notin Built
  BY <1>2, <1>3, Constants
<1> QED
  BY <1>1, <1>4 DEF Shape, SpaceBuilt, FreeBehind

(* Every step keeps the heap of the processes that have not run free.      *)
LEMMA StepFree ==
  Safe /\ Shape /\ FreshIsFree /\ [Next]_vars => FreshIsFree'
<1> SUFFICES ASSUME Safe, Shape, FreshIsFree, [Next]_vars, NEW p \in fresh'
             PROVE  FreeBehind(p)'
  BY DEF FreshIsFree
<1>1. \A q \in fresh : FreeBehind(q) /\ q \in Running /\ q \in Pid
  BY RunningIsPid DEF FreshIsFree, Safe, TypeOK
<1>2. ASSUME p \in fresh, heap_break'[p] = heap_break[p], Kept(p) PROVE FreeBehind(p)'
  BY <1>1, <1>2 DEF FreeBehind, Kept
<1>3. CASE SpawnStep /\ p \in fresh
  BY <1>1, <1>2, <1>3, SpawnKeeps, SpawnBreak
<1>4. CASE SpawnStep /\ p \notin fresh
  <2>1. PICK ok \in BOOLEAN : install(ok) /\ ok
    BY <1>4 DEF SpawnStep, vspace_new, load_check, load_map, load_mapped, copy_piece,
       next_segment, loaded, stack_page, created, env_check, env_page, env_done, install,
       refuse, give_up
  <2>2. /\ op.step = "install" /\ fresh' = fresh \cup {next_pid}
        /\ UNCHANGED <<map, heap_break>>
    BY <2>1 DEF install, At, process
  <2>3. p = next_pid /\ Building
    BY <1>4, <2>2 DEF Building, Late
  <2>4. FreeBehind(next_pid)
    BY <2>2, <2>3, InstallFree
  <2> QED
    BY <2>2, <2>3, <2>4 DEF FreeBehind
<1>5. ASSUME NEW q \in Pid, NEW a \in Stores, NEW b \in Byte, store(q, a, b)
      PROVE  FreeBehind(p)'
  <2>1. p \in fresh /\ UNCHANGED <<map, heap_break>>
    BY <1>5 DEF store, process
  <2> QED
    BY <1>1, <2>1 DEF FreeBehind
<1>6. ASSUME NEW q \in Pid, sbrk(q) \/ sbrk_short(q) \/ sbrk_shrink(q)
      PROVE  FreeBehind(p)'
  <2>1. p \in fresh /\ p # q
    BY <1>6 DEF sbrk, sbrk_short, sbrk_shrink
  <2>2. \E x : heap_break' = heap_break \/ heap_break' = [heap_break EXCEPT ![q] = x]
    BY <1>6 DEF sbrk, sbrk_short, sbrk_shrink, process
  <2>3. heap_break'[p] = heap_break[p]
    BY <1>1, <2>1, <2>2 DEF Safe, TypeOK
  <2> QED
    BY <1>1, <1>2, <1>6, <2>1, <2>3, SbrkKeeps
<1>7. CASE UNCHANGED vars \/ \E q, ptr, len : Begin(q, ptr, len)
  <2>1. UNCHANGED <<map, heap_break, fresh>>
    BY <1>7 DEF vars, Begin, process
  <2> QED
    BY <1>1, <2>1 DEF FreeBehind
<1>8. \/ SpawnStep
      \/ UNCHANGED vars \/ \E q, ptr, len : Begin(q, ptr, len)
      \/ \E q \in Pid : sbrk(q) \/ sbrk_short(q) \/ sbrk_shrink(q)
      \/ \E q \in Pid, a \in Stores, b \in Byte : store(q, a, b)
  BY DEF Next, run, spawn, spawn_env
<1> QED
  BY <1>3, <1>4, <1>5, <1>6, <1>7, <1>8

(* The heap of a new process starts in unmapped memory, behind its         *)
(* environment, also when other heaps grew, shrank or failed half way.     *)
THEOREM HeapIsFree == Spec => []HeapStartsFree
<1>1. Safe /\ FreshIsFree => HeapStartsFree
  <2> SUFFICES ASSUME Safe, FreshIsFree, NEW p \in fresh,
                      NEW v \in heap_break[p] \div PAGE .. HEAP_MAX \div PAGE - 1
               PROVE  map[p][v] = Unmapped
    BY DEF HeapStartsFree
  <2>1. p \in Running
    BY DEF Safe, TypeOK
  <2>2. heap_break[p] \in Nat /\ heap_break[p] \div PAGE \in Nat
    <3>1. heap_break[p] \in Nat
      BY <2>1, RunningIsPid DEF Safe, TypeOK
    <3> QED
      BY <3>1, Constants, DivMod
  <2>3. HEAP_MAX \div PAGE <= TopPage /\ HEAP_MAX \div PAGE \in Nat
    BY Constants, DivMono, DivMod DEF TopPage
  <2>4. v \in Page /\ v >= heap_break[p] \div PAGE
    BY <2>2, <2>3, Constants
  <2> QED
    BY <2>4 DEF FreshIsFree, FreeBehind
<1>2. Init => FreshIsFree
  BY DEF Init, FreshIsFree
<1> QED
  BY <1>1, <1>2, StepFree, SpecSafe, SpecShape, PTL DEF Spec
=============================================================================
