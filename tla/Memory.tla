-------------------------------- MODULE Memory --------------------------------
(***************************************************************************)
(* Physical frames, address spaces and the memory system calls             *)
(* (mm/frame.rs, arch/x86_64/paging.rs and vspace.rs, and DMA_ALLOC,       *)
(* FRAME_ALLOC, MAP_FRAME and SBRK of syscall.rs and process.rs).          *)
(*                                                                         *)
(* Memory is counted in frames and pages.  A system call runs alone; it is *)
(* cut into the steps that can fail on their own, `op` being the call in   *)
(* progress: take the frames, build the page tables, map page by page,     *)
(* finish or undo.  The levels of the page table are one level: a page can *)
(* be mapped once the table of its group of PT_SPAN pages exists, and a    *)
(* table is a frame.  Which process calls is the scheduler's choice; how a *)
(* capability travels (SEND and RECV, CAP_GRANT) is in module Kernel, and  *)
(* here is one step that copies it.                                        *)
(***************************************************************************)
EXTENDS Cap, Sequences, SequencesExt

CONSTANTS
    Regions,        \* the usable regions, as a sequence of [start, end)
    NUM_PROCS,      \* processes
    MAX_PAGES,      \* largest request
    DMA_PAGES, SHARED_PAGES, HEAP_PAGES,  \* the three windows of user space
    PT_SPAN,        \* pages one page table maps
    OutOk,          \* what a program's out_ptr may be: {TRUE}, {TRUE, FALSE}
    SrcArgs,        \* slots a program names a capability by
    DstArgs,        \* destination slots a program passes
    Delegating      \* do programs delegate capabilities?

(* PhysFrameAllocator::new drops empty regions; the boot protocol's memory *)
(* map (arch/x86_64/mod.rs, usable_regions) lists no usable memory twice.  *)
ASSUME RegionsAssumption ==
    /\ Regions \in Seq([start : Nat, end : Nat])
    /\ \A k \in DOMAIN Regions : Regions[k].start < Regions[k].end
    /\ \A j, k \in DOMAIN Regions :
          j # k => (Regions[j].start .. Regions[j].end - 1)
                     \cap (Regions[k].start .. Regions[k].end - 1) = {}

ASSUME MemoryAssumption ==
    /\ NUM_PROCS \in Nat \ {0}
    /\ {MAX_PAGES, DMA_PAGES, SHARED_PAGES, HEAP_PAGES} \subseteq Nat
    /\ PT_SPAN \in Nat \ {0}
    /\ OutOk \subseteq BOOLEAN
    /\ SrcArgs \subseteq SlotArg
    /\ DstArgs \subseteq SlotArg
    /\ Delegating \in BOOLEAN

Pid == 0 .. NUM_PROCS - 1
Frame == UNION {Regions[k].start .. Regions[k].end - 1 : k \in DOMAIN Regions}

(* The windows of a user address space, one behind the other.              *)
DMA_START == 0
DMA_REGION_END == DMA_PAGES
SHARED_START == DMA_REGION_END
SHARED_REGION_END == SHARED_START + SHARED_PAGES
HEAP_START == SHARED_REGION_END
HEAP_MAX == HEAP_START + HEAP_PAGES
Page == DMA_START .. HEAP_MAX - 1
Table == {v \div PT_SPAN : v \in Page}
None == -1   \* no frame

VARIABLES
    region_idx, cursor, free, in_use,  \* PhysFrameAllocator
    caps,         \* Process.caps
    map,          \* what each page of each process is mapped to
    tables,       \* the page tables of each process
    heap_break,   \* Process.heap_break
    next_dma,     \* NEXT_DMA_VA
    next_shared,  \* NEXT_SHARED_VA
    op,           \* the call in progress
    allocated,    \* history: frames handed out and not freed
    granted,      \* history: pages successfully allocated against budgets
    minted,       \* history: budget ever given out, copies included
    handed        \* history: the ranges of pages that calls have returned

allocator == <<region_idx, cursor, free, in_use, allocated>>
windows == <<next_dma, next_shared, heap_break>>
ghosts == <<granted, minted, handed>>
vars == <<region_idx, cursor, free, in_use, caps, map, tables, heap_break,
          next_dma, next_shared, op, allocated, granted, minted, handed>>

Idle == [call |-> "none"]

Init ==
    /\ region_idx = 1
    /\ cursor = IF Regions = <<>> THEN 0 ELSE Regions[1].start
    /\ free = <<>>
    /\ in_use = 0
    /\ caps = [p \in Pid |-> seed_caps(p)]
    /\ map = [p \in Pid |-> [v \in Page |-> None]]
    /\ tables = [p \in Pid |-> {}]
    /\ heap_break = [p \in Pid |-> HEAP_START]
    /\ next_dma = DMA_START
    /\ next_shared = SHARED_START
    /\ op = Idle
    /\ allocated = {}
    /\ granted = 0
    /\ minted = DMA_BUDGET
    /\ handed = {}
-----------------------------------------------------------------------------
(* The frame allocator.                                                    *)

(* Where the bump cursor stands once it has come to region k.              *)
bump_start(k) == IF k = region_idx THEN cursor ELSE Regions[k].start

(* The regions, from the current one on, with room for n frames in a row.  *)
Fitting(n) ==
    {k \in region_idx .. Len(Regions) : bump_start(k) + n <= Regions[k].end}

(* Seeded faults: the cursor moves by one frame; the cursor stays in its   *)
(* region when the run does not fit there.                                 *)
bump_by_one(n) ==
    LET k == Min(Fitting(n))
        base == bump_start(k)
    IN  /\ region_idx' = k
        /\ cursor' = base + 1
        /\ in_use' = in_use + n
        /\ allocated' = allocated \cup (base .. base + n - 1)
bump_past_end(n) ==
    /\ region_idx' = region_idx
    /\ cursor' = cursor + n
    /\ in_use' = in_use + n
    /\ allocated' = allocated \cup (cursor .. cursor + n - 1)

(* Take n frames from the cursor; regions that are too short are left      *)
(* behind for good.                                                        *)
bump(n) ==
    LET k == Min(Fitting(n))
        base == bump_start(k)
    IN  /\ region_idx' = k
        /\ cursor' = base + n
        /\ in_use' = in_use + n
        /\ allocated' = allocated \cup (base .. base + n - 1)

(* A request no region has room for runs the cursor off the last region.   *)
exhaust ==
    /\ region_idx' = IF region_idx > Len(Regions) THEN region_idx
                                                  ELSE Len(Regions) + 1
    /\ cursor' = IF region_idx < Len(Regions) THEN Last(Regions).start ELSE cursor
    /\ UNCHANGED <<in_use, allocated>>

(* alloc: the free list first, then the cursor.                            *)
alloc_ok == free # <<>> \/ Fitting(1) # {}
alloc_frame == IF free # <<>> THEN Last(free) ELSE bump_start(Min(Fitting(1)))
alloc ==
    IF free # <<>>
      THEN /\ free' = Front(free)
           /\ in_use' = in_use + 1
           /\ allocated' = allocated \cup {Last(free)}
           /\ UNCHANGED <<region_idx, cursor>>
      ELSE /\ IF Fitting(1) # {} THEN bump(1) ELSE exhaust
           /\ UNCHANGED free

(* alloc_contiguous: only the cursor.                                      *)
alloc_contiguous(n) ==
    /\ IF Fitting(n) # {} THEN bump(n) ELSE exhaust
    /\ UNCHANGED free

(* free, for a run of n frames.                                            *)
free_run(pa, n) ==
    /\ free' = free \o [i \in 1 .. n |-> pa + i - 1]
    /\ in_use' = IF in_use >= n THEN in_use - n ELSE 0
    /\ allocated' = allocated \ (pa .. pa + n - 1)
    /\ UNCHANGED <<region_idx, cursor>>
-----------------------------------------------------------------------------
(* The calls.  A call that is refused at once (no budget, no capability,   *)
(* a length out of range) changes nothing and has no step.                 *)

(* A call in progress: what it asked for, the frames it maps (None when it *)
(* has none), the page it maps them from, and how many pages are mapped.   *)
Call(name, step, p, pages, slot, out_ok) ==
    [call |-> name, step |-> step, p |-> p, pages |-> pages, phys |-> None,
     va |-> 0, done |-> 0, slot |-> slot, out_ok |-> out_ok]

At(step) == op # Idle /\ op.step = step

(* DMA_ALLOC and FRAME_ALLOC charge the budget first.                      *)
charge(name, p, pages, slot, out_ok) ==
    /\ op = Idle
    /\ charge_ok(caps[p], pages)
    /\ caps' = [caps EXCEPT ![p] = charge_untyped(@, pages)]
    /\ op' = Call(name, "take", p, pages, slot, out_ok)
    /\ UNCHANGED <<allocator, map, tables, windows, ghosts>>

sys_dma_alloc(p, pages, out_ok) == charge("dma", p, pages, MAX, out_ok)

sys_frame_alloc(p, pages, slot, out_ok) == charge("frame", p, pages, slot, out_ok)

(* The window a call maps into, and whether n more pages fit.              *)
window_next == IF op.call = "dma" THEN next_dma ELSE next_shared
window_end == IF op.call = "dma" THEN DMA_REGION_END ELSE SHARED_REGION_END
room(n) == window_next + n <= window_end

(* Take the frames, then look for room in the window.                      *)
take_frames ==
    /\ At("take")
    /\ alloc_contiguous(op.pages)
    /\ op' = IF Fitting(op.pages) = {}
               THEN [op EXCEPT !.step = "fail"]
               ELSE [op EXCEPT !.step = IF room(op.pages) THEN "map" ELSE "fail",
                               !.phys = bump_start(Min(Fitting(op.pages))),
                               !.va = window_next]
    /\ UNCHANGED <<caps, map, tables, windows, ghosts>>

(* MAP_FRAME maps the run a Frame capability names; nothing is charged.    *)
sys_map_frame(p, slot, out_ok) ==
    /\ op = Idle
    /\ holds(caps[p], slot, "Frame")
    /\ next_shared + caps[p][slot].badge <= SHARED_REGION_END
    /\ op' = [Call("map", "map", p, caps[p][slot].badge, slot, out_ok)
                EXCEPT !.phys = caps[p][slot].object, !.va = next_shared]
    /\ UNCHANGED <<allocator, caps, map, tables, windows, ghosts>>

(* SBRK.  Shrinking moves the break and keeps the pages; growing maps a    *)
(* fresh frame for every new page.                                         *)
sbrk_shrink(p, pages) ==
    /\ op = Idle
    /\ heap_break[p] - pages >= HEAP_START
    /\ heap_break' = [heap_break EXCEPT ![p] = @ - pages]
    /\ UNCHANGED <<allocator, caps, map, tables, next_dma, next_shared, op, ghosts>>

sbrk_grow(p, pages) ==
    /\ op = Idle
    /\ heap_break[p] + pages <= HEAP_MAX
    /\ op' = [Call("sbrk", "heap", p, pages, MAX, TRUE) EXCEPT !.va = heap_break[p]]
    /\ UNCHANGED <<allocator, caps, map, tables, windows, ghosts>>

(* Seeded fault: the result of vspace_alloc_map is not looked at.          *)
heap_frame_unchecked ==
    /\ At("heap") /\ op.done < op.pages
    /\ alloc
    /\ op' = IF alloc_ok THEN [op EXCEPT !.step = "map", !.phys = alloc_frame]
                         ELSE [op EXCEPT !.done = @ + 1]
    /\ UNCHANGED <<caps, map, tables, windows, ghosts>>

(* alloc_map_user takes the frame before it maps it.                       *)
heap_frame ==
    /\ At("heap") /\ op.done < op.pages
    /\ alloc
    /\ op' = IF alloc_ok THEN [op EXCEPT !.step = "map", !.phys = alloc_frame]
                         ELSE Idle
    /\ UNCHANGED <<caps, map, tables, windows, ghosts>>

heap_done ==
    /\ At("heap") /\ op.done = op.pages
    /\ heap_break' = [heap_break EXCEPT ![op.p] = @ + op.pages]
    /\ op' = Idle
    /\ UNCHANGED <<allocator, caps, map, tables, next_dma, next_shared, ghosts>>

(* Mapping the next page of the call: its frame and its place.             *)
page == op.va + op.done
page_frame == IF op.call = "sbrk" THEN op.phys ELSE op.phys + op.done
Mapping == At("map") /\ (op.call = "sbrk" \/ op.done < op.pages)
has_table == page \div PT_SPAN \in tables[op.p]

(* map_to needs a page table and takes a frame for it.                     *)
map_table ==
    /\ Mapping /\ ~has_table
    /\ alloc
    /\ IF alloc_ok
         THEN /\ tables' = [tables EXCEPT ![op.p] = @ \cup {page \div PT_SPAN}]
              /\ UNCHANGED op
         ELSE op' = [op EXCEPT !.step = "fail"] /\ UNCHANGED tables
    /\ UNCHANGED <<caps, map, windows, ghosts>>

(* map_to maps the page, or fails because it is mapped already.            *)
map_page ==
    /\ Mapping /\ has_table
    /\ IF map[op.p][page] = None
         THEN /\ map' = [map EXCEPT ![op.p][page] = page_frame]
              /\ op' = [op EXCEPT !.done = @ + 1,
                                  !.step = IF op.call = "sbrk" THEN "heap" ELSE "map"]
         ELSE op' = [op EXCEPT !.step = "fail"] /\ UNCHANGED map
    /\ UNCHANGED <<allocator, caps, tables, windows, ghosts>>

(* Seeded fault: the Frame capability is installed before out_ptr is       *)
(* checked.                                                                *)
mapped_cap_first ==
    /\ At("map") /\ op.call # "sbrk" /\ op.done = op.pages
    /\ caps' = IF op.call = "frame"
                 THEN [caps EXCEPT ![op.p] = insert(@, op.slot,
                         [type |-> "Frame", object |-> op.phys, badge |-> op.pages])]
                 ELSE caps
    /\ op' = [op EXCEPT !.step = IF op.out_ok THEN "finish" ELSE "fail"]
    /\ UNCHANGED <<allocator, map, tables, windows, ghosts>>

(* All pages are mapped: the window moves on, then out_ptr is checked.     *)
mapped ==
    /\ At("map") /\ op.call # "sbrk" /\ op.done = op.pages
    /\ IF op.call = "dma"
         THEN next_dma' = op.va + op.pages /\ UNCHANGED next_shared
         ELSE next_shared' = op.va + op.pages /\ UNCHANGED next_dma
    /\ op' = [op EXCEPT !.step = IF op.out_ok THEN "finish" ELSE "fail"]
    /\ UNCHANGED <<allocator, caps, map, tables, heap_break, ghosts>>

(* FRAME_ALLOC installs the Frame capability last; a slot that is taken or *)
(* out of range fails the call.  The others are done.                      *)
frame_cap == [type |-> "Frame", object |-> op.phys, badge |-> op.pages]
finish ==
    /\ At("finish")
    /\ IF op.call = "frame" /\ ~insert_ok(caps[op.p], op.slot)
         THEN op' = [op EXCEPT !.step = "fail"] /\ UNCHANGED <<caps, granted, handed>>
         ELSE /\ op' = Idle
              /\ caps' = IF op.call = "frame"
                           THEN [caps EXCEPT ![op.p] = insert(@, op.slot, frame_cap)]
                           ELSE caps
              /\ granted' = IF op.call = "map" THEN granted ELSE granted + op.pages
              /\ handed' = handed \cup {[p |-> op.p, va |-> op.va,
                                         pages |-> op.pages, phys |-> op.phys]}
    /\ UNCHANGED <<allocator, map, tables, windows, minted>>

(* A failed call.  FRAME_ALLOC frees the frames it took; it and DMA_ALLOC  *)
(* refund the budget.  Mappings made so far stay.                          *)
fail ==
    /\ At("fail")
    /\ IF op.call = "frame" /\ op.phys # None
         THEN free_run(op.phys, op.pages)
         ELSE UNCHANGED allocator
    /\ caps' = IF op.call \in {"dma", "frame"}
                 THEN [caps EXCEPT ![op.p] = refund_untyped(@, op.pages)]
                 ELSE caps
    /\ op' = Idle
    /\ UNCHANGED <<map, tables, windows, ghosts>>

(* Delegation copies a capability into another process's table.  The copy  *)
(* of an Untyped capability is a budget of its own.                        *)
delegate(p, q, src, dst) ==
    /\ Delegating
    /\ op = Idle
    /\ get_ok(caps[p], src)
    /\ insert_ok(caps[q], dst)
    /\ caps' = [caps EXCEPT ![q] = insert(@, dst, caps[p][src])]
    /\ minted' = IF caps[p][src].type = "Untyped" THEN minted + caps[p][src].object
                                                  ELSE minted
    /\ UNCHANGED <<allocator, map, tables, windows, op, granted, handed>>

Next ==
    \/ \E p \in Pid, n \in 1 .. MAX_PAGES, out \in OutOk : sys_dma_alloc(p, n, out)
    \/ \E p \in Pid, n \in 1 .. MAX_PAGES, slot \in DstArgs, out \in OutOk :
            sys_frame_alloc(p, n, slot, out)
    \/ \E p \in Pid, slot \in SrcArgs, out \in OutOk : sys_map_frame(p, slot, out)
    \/ \E p \in Pid, n \in 1 .. MAX_PAGES : sbrk_grow(p, n)
    \/ \E p \in Pid, n \in 1 .. MAX_PAGES : sbrk_shrink(p, n)
    \/ take_frames
    \/ heap_frame
    \/ heap_done
    \/ map_table
    \/ map_page
    \/ mapped
    \/ finish
    \/ fail
    \/ \E p, q \in Pid, src \in SrcArgs, dst \in DstArgs : delegate(p, q, src, dst)

Spec == Init /\ [][Next]_vars
-----------------------------------------------------------------------------
(* Properties.                                                             *)

TypeOK ==
    /\ region_idx \in 1 .. Len(Regions) + 1
    /\ cursor \in Nat
    /\ free \in Seq(Frame)
    /\ in_use \in Nat
    /\ caps \in [Pid -> CNode]
    /\ map \in [Pid -> [Page -> Frame \cup {None}]]
    /\ tables \in [Pid -> SUBSET Table]
    /\ heap_break \in [Pid -> HEAP_START .. HEAP_MAX]
    /\ next_dma \in DMA_START .. DMA_REGION_END
    /\ next_shared \in SHARED_START .. SHARED_REGION_END
    /\ allocated \subseteq Frame
    /\ granted \in Nat /\ minted \in Nat

(* No frame is handed out twice: the frames in use and the free list are   *)
(* disjoint, the list holds no frame twice, and SYSINFO's count of frames  *)
(* in use is exact, after any mix of successful and failed calls.          *)
FramesConserved ==
    /\ in_use = Cardinality(allocated)
    /\ IsInjective(free)
    /\ Range(free) \cap allocated = {}

(* The Untyped budget a process holds, and the budget a call in progress   *)
(* has paid.                                                               *)
Budget(p) == SumFunctionOnSet([i \in Slot |-> caps[p][i].object],
                              UntypedSlots(caps[p]))
Budgets == SumFunction([p \in Pid |-> Budget(p)])
Charged == IF op # Idle /\ op.call \in {"dma", "frame"} THEN op.pages ELSE 0

(* Budget is neither lost nor made (syscall.rs, sys_dma_alloc and          *)
(* sys_frame_alloc): what DMA_ALLOC and FRAME_ALLOC charged pays for a     *)
(* call that succeeded or is given back, on each of their failure paths,   *)
(* also when the refund goes to another capability than the one that paid. *)
BudgetConserved == Budgets + granted + Charged = minted

(* The frames a Frame capability names.                                    *)
FrameCaps == {c \in UNION {Range(caps[p]) : p \in Pid} : c.type = "Frame"}
FramesOf(c) == c.object .. c.object + c.badge - 1

(* Shared memory is never handed out again (syscall.rs, sys_frame_alloc:   *)
(* "Install the Frame cap last"): the frames a Frame capability names stay *)
(* allocated as long as a copy of it exists, and two capabilities name the *)
(* same run or disjoint runs.                                              *)
FrameCapsLive ==
    /\ \A c \in FrameCaps : FramesOf(c) \subseteq allocated
    /\ \A c, d \in FrameCaps : c = d \/ FramesOf(c) \cap FramesOf(d) = {}

(* A range that DMA_ALLOC, FRAME_ALLOC or MAP_FRAME has returned is mapped *)
(* to the frames it was returned for, and they stay allocated.             *)
RangesBacked ==
    \A h \in handed : \A i \in 0 .. h.pages - 1 :
        map[h.p][h.va + i] = h.phys + i /\ h.phys + i \in allocated

(* The heap below the break is mapped.                                     *)
HeapMapped ==
    \A p \in Pid : \A v \in HEAP_START .. heap_break[p] - 1 : map[p][v] # None

(* A frame behind a heap page, the pages above the break included, stays   *)
(* allocated, is behind no other heap page and in no range a call has      *)
(* returned.                                                               *)
HeapPage == HEAP_START .. HEAP_MAX - 1
HeapOwned ==
    \A p \in Pid, v \in HeapPage : map[p][v] # None =>
        /\ map[p][v] \in allocated
        /\ \A q \in Pid, w \in HeapPage : map[q][w] = map[p][v] => q = p /\ w = v
        /\ \A h \in handed : map[p][v] \notin h.phys .. h.phys + h.pages - 1

(* What a call has handed out stays usable (process.rs, sbrk; syscall.rs,  *)
(* map_shared), although a call that fails half-way leaves pages mapped    *)
(* behind the break or the window's next address, a shrink keeps its       *)
(* pages, later calls meet those pages and fail, and frames of failed      *)
(* calls are given out again.                                              *)
HandedOutStays == RangesBacked /\ HeapMapped /\ HeapOwned

(* The frames behind a range of pages of a process.                        *)
Behind(p, first, end) == {map[p][v] : v \in first .. end - 1} \ {None}

(* A process is "a user stack and heap mapped only in that space"          *)
(* (process.rs): no page of another process reaches a heap frame.          *)
HeapPrivate ==
    \A p \in Pid : \A q \in Pid \ {p} :
        Behind(p, HEAP_START, HEAP_MAX) \cap Behind(q, DMA_START, HEAP_MAX) = {}
=============================================================================
