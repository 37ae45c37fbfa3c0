-------------------------------- MODULE Loader --------------------------------
(***************************************************************************)
(* How a process comes to be: elf.rs (load), process.rs (create, spawn,    *)
(* spawn_env, getenvp, the growth of the heap) and the address spaces of   *)
(* arch/x86_64/vspace.rs they build.                                       *)
(*                                                                         *)
(* Every process is loaded from the one init image.  A spawn runs alone    *)
(* (the scheduler is locked, interrupts are off) and is cut into the steps *)
(* that can fail on their own; `op` is the spawn in progress, and the      *)
(* space it builds is the one of next_pid.  Between two spawns programs    *)
(* write to their memory and grow their heaps.                             *)
(*                                                                         *)
(* Addresses are bytes; a page is named by its number, a frame is a page   *)
(* of bytes.  The allocator hands out the lowest free frame (module Memory *)
(* has the real one), the page table has one level, as in Memory.          *)
(***************************************************************************)
EXTENDS Integers, Sequences, FiniteSetsExt

CONSTANTS
    Images,         \* init images, see ImageSet
    FrameCounts,    \* how many frames are free when the kernel boots
    PAGE,           \* bytes of a page
    WORD,           \* 2^64
    PT_SPAN,        \* pages one page table maps
    USER_STACK_VA, USER_STACK_PAGES, HEAP_START, HEAP_MAX, USER_ADDR_MAX,
    MAX_PROCS,      \* bound: processes
    EnvArgs,        \* <<envp_ptr, envp_len>> a program passes to SPAWN_ENV
    Stores,         \* addresses programs write to
    Byte,           \* values of a byte
    JUNK            \* what free memory holds at boot

Page == 0 .. USER_ADDR_MAX \div PAGE - 1
Frame == 0 .. Max(FrameCounts) - 1
Pid == 0 .. MAX_PROCS - 1
None == -1

(* An image: do the checks of its header and of its program headers        *)
(* succeed, its PT_LOAD segments in order, its bytes, its entry point.     *)
Segment == [offset : Nat, vaddr : Nat, filesz : Nat, memsz : Nat,
            writable : BOOLEAN, executable : BOOLEAN]
ImageSet == [valid : BOOLEAN, entry : Nat, segments : Seq(Segment), bytes : Seq(Byte)]

ASSUME LoaderAssumption ==
    /\ Images \subseteq ImageSet
    /\ FrameCounts \subseteq Nat
    /\ \E most \in FrameCounts : \A n \in FrameCounts : n <= most
    /\ {PAGE, PT_SPAN, MAX_PROCS} \subseteq Nat \ {0}
    /\ {WORD, USER_STACK_PAGES} \subseteq Nat
    /\ {0, JUNK} \subseteq Byte
    /\ {USER_STACK_VA, HEAP_START, HEAP_MAX, USER_ADDR_MAX} \subseteq
          {a \in 0 .. WORD : a % PAGE = 0}
    /\ USER_STACK_VA + USER_STACK_PAGES * PAGE <= HEAP_START
    /\ HEAP_START < HEAP_MAX /\ HEAP_MAX <= USER_ADDR_MAX
    /\ Stores \subseteq 0 .. USER_ADDR_MAX - 1
    \* A segment that does not overflow is linked below the heap.
    /\ \A img \in Images : \A k \in DOMAIN img.segments :
          LET seg == img.segments[k]
          IN  seg.vaddr + seg.memsz < WORD => seg.vaddr + seg.memsz <= HEAP_START
    \* No machine has the memory to map an environment longer than the user
    \* half above HEAP_START (128 TiB less 256 MiB).
    /\ EnvArgs \subseteq {env \in Nat \X Nat : HEAP_START + env[2] <= USER_ADDR_MAX}

VARIABLES
    image,       \* the boot module
    avail,       \* free frames
    ram,         \* the bytes of every frame
    map,         \* the page table of each process
    tables,      \* the frames of each process's page table
    heap_break, envp_user, envp_len,   \* Process
    next_pid,    \* Scheduler.next_pid
    op,          \* the spawn in progress
    given,       \* history: the environment each process was spawned with
    fresh        \* history: processes that have not run yet

process == <<heap_break, envp_user, envp_len>>
vars == <<image, avail, ram, map, tables, heap_break, envp_user, envp_len,
          next_pid, op, given, fresh>>

Unmapped == [frame |-> None, writable |-> FALSE, executable |-> FALSE]
Idle == [step |-> "idle"]
Panicked == [step |-> "panic"]

Init ==
    /\ image \in Images
    /\ \E n \in FrameCounts : avail = 0 .. n - 1
    /\ ram = [f \in Frame |-> [o \in 0 .. PAGE - 1 |-> JUNK]]
    /\ map = [p \in Pid |-> [v \in Page |-> Unmapped]]
    /\ tables = [p \in Pid |-> [t \in {v \div PT_SPAN : v \in Page} |-> None]]
    /\ heap_break = [p \in Pid |-> HEAP_START]
    /\ envp_user = [p \in Pid |-> 0]
    /\ envp_len = [p \in Pid |-> 0]
    /\ next_pid = 0
    /\ op = Idle
    /\ given = [p \in Pid |-> <<>>]
    /\ fresh = {}
-----------------------------------------------------------------------------
(* Memory.                                                                 *)

pages_for(bytes) == (bytes + PAGE - 1) \div PAGE   \* div_ceil(PAGE)

Running == 0 .. next_pid - 1

(* The byte a process reads at an address, None when it is not mapped.     *)
peek(p, a) ==
    LET e == map[p][a \div PAGE]
    IN  IF e = Unmapped THEN None ELSE ram[e.frame][a % PAGE]

has_table(p, v) == tables[p][v \div PT_SPAN] # None

(* map_to maps page v of p to frame f, with a new frame for the page table *)
(* if it has none; it fails when the page is mapped or no frame is left.   *)
map_ok(p, v) ==
    /\ map[p][v] = Unmapped
    /\ Cardinality(avail) >= IF has_table(p, v) THEN 1 ELSE 2

(* Seeded fault: the frame of a new page table is not taken.               *)
alloc_map_shared(p, v, writable, executable) ==
    LET f == Min(avail)
    IN  /\ avail' = avail \ {f}
        /\ map' = [map EXCEPT ![p][v] = [frame |-> f, writable |-> writable,
                                         executable |-> executable]]
        /\ tables' = IF has_table(p, v) THEN tables
                     ELSE [tables EXCEPT ![p][v \div PT_SPAN] = Min(avail \ {f})]

(* The frames of a page: its own and, if need be, that of the page table.  *)
table_frame == Min(avail \ {Min(avail)})
frames_for(p, v) == {Min(avail)} \cup IF has_table(p, v) THEN {} ELSE {table_frame}

map_page(p, v, writable, executable) ==
    /\ map' = [map EXCEPT ![p][v] = [frame |-> Min(avail), writable |-> writable,
                                     executable |-> executable]]
    /\ tables' = IF has_table(p, v) THEN tables
                 ELSE [tables EXCEPT ![p][v \div PT_SPAN] = table_frame]

(* vspace_alloc_map takes a frame and maps it ...                          *)
alloc_map(p, v, writable, executable) ==
    /\ map_page(p, v, writable, executable)
    /\ avail' = avail \ frames_for(p, v)

Zeros == [o \in 0 .. PAGE - 1 |-> 0]

(* Seeded fault: the frame keeps what it held.                             *)
fill_zero_not == UNCHANGED ram

(* ... which is zeroed.                                                    *)
fill_zero == ram' = [ram EXCEPT ![Min(avail)] = Zeros]

(* ... and when it fails, the frame it took is lost.                       *)
lose_frame ==
    IF avail = {} THEN UNCHANGED <<avail, ram>>
    ELSE /\ avail' = avail \ {Min(avail)}
         /\ fill_zero
-----------------------------------------------------------------------------
(* A spawn.                                                                *)

At(step) == op.step = step
Goto(step) == op' = [op EXCEPT !.step = step, !.i = 0]

(* The spawn fails: nobody uses the unfinished space, whose frames are     *)
(* not given back.  At boot the kernel panics.                             *)
give_up ==
    /\ op' = IF next_pid = 0 THEN Panicked ELSE Idle
    /\ map' = [map EXCEPT ![next_pid] = [v \in Page |-> Unmapped]]
    /\ tables' = [tables EXCEPT ![next_pid] =
                    [t \in {v \div PT_SPAN : v \in Page} |-> None]]
    /\ given' = [given EXCEPT ![next_pid] = <<>>]
    /\ UNCHANGED <<image, process, next_pid, fresh>>

(* A failure of a step that took nothing.                                  *)
refuse == give_up /\ UNCHANGED <<avail, ram>>

Begin(parent, ptr, len) ==
    /\ op = Idle
    /\ next_pid < MAX_PROCS
    /\ op' = [step |-> "space", parent |-> parent, ptr |-> ptr, len |-> len,
              pages |-> {}, seg |-> 1, i |-> 0]
    /\ UNCHANGED <<image, avail, ram, map, tables, process, next_pid, given, fresh>>

(* The root, at boot.                                                      *)
run == next_pid = 0 /\ Begin(0, 0, 0)

(* SPAWN, and SPAWN_ENV, which is SPAWN if there is no environment.        *)
spawn(p) == p \in Running /\ Begin(p, 0, 0)
spawn_env(p, ptr, len) ==
    /\ p \in Running
    /\ IF ptr = 0 \/ len = 0 THEN Begin(p, 0, 0) ELSE Begin(p, ptr, len)

(* vspace_new takes the frame of the top-level table.                      *)
vspace_new ==
    /\ At("space")
    /\ IF avail = {} THEN refuse
       ELSE /\ avail' = avail \ {Min(avail)}
            /\ Goto("check")
            /\ UNCHANGED <<image, ram, map, tables, process, next_pid, given, fresh>>

segments == image.segments
Covered(seg) == seg.vaddr \div PAGE .. pages_for(seg.vaddr + seg.memsz) - 1

(* load, first pass: the header, the segments, and the pages they cover.   *)
load_check ==
    /\ At("check")
    /\ IF ~image.valid \/ \E k \in DOMAIN segments :
                             segments[k].vaddr + segments[k].memsz >= WORD
         THEN refuse
         ELSE /\ op' = [op EXCEPT !.step = "map",
                           !.pages = UNION {Covered(segments[k]) : k \in DOMAIN segments}]
              /\ UNCHANGED <<image, avail, ram, map, tables, process, next_pid, given,
                             fresh>>

(* Seeded fault: a shared page has the rights of the last segment only.    *)
rights_last(v) ==
    LET k == Max({j \in DOMAIN segments : v \in Covered(segments[j])})
    IN  [writable |-> segments[k].writable, executable |-> segments[k].executable]

(* The union of the rights of the segments that share the page.            *)
rights(v) ==
    LET on == {k \in DOMAIN segments : v \in Covered(segments[k])}
    IN  [writable |-> \E k \in on : segments[k].writable,
         executable |-> \E k \in on : segments[k].executable]

(* Second pass: each page is mapped once, zeroed, in ascending order.      *)
load_map ==
    /\ At("map") /\ op.pages # {}
    /\ LET v == Min(op.pages)
       IN  IF map_ok(next_pid, v)
             THEN /\ alloc_map(next_pid, v, rights(v).writable, rights(v).executable)
                  /\ fill_zero
                  /\ op' = [op EXCEPT !.pages = @ \ {v}]
                  /\ UNCHANGED <<image, process, next_pid, given, fresh>>
             ELSE give_up /\ lose_frame

load_mapped ==
    /\ At("map") /\ op.pages = {}
    /\ Goto("copy")
    /\ UNCHANGED <<image, avail, ram, map, tables, process, next_pid, given, fresh>>

(* Third pass: the file bytes of the segments, in pieces that do not cross *)
(* a page.  op.i bytes of segment op.seg are copied.                       *)
Copying == At("copy") /\ op.seg \in DOMAIN segments
this == segments[op.seg]
va == this.vaddr + op.i
piece == Min({PAGE - (va % PAGE), this.filesz - op.i})
piece_ok ==
    /\ va \div PAGE \in UNION {Covered(segments[k]) : k \in DOMAIN segments}
    /\ this.offset + op.i + piece <= Len(image.bytes)
copied(n) ==
    LET f == map[next_pid][va \div PAGE].frame
        first == va % PAGE
    IN  /\ ram' = [ram EXCEPT ![f] = [o \in DOMAIN @ |->
                      IF o \in first .. first + n - 1
                        THEN image.bytes[this.offset + op.i + (o - first) + 1]
                        ELSE @[o]]]
        /\ op' = [op EXCEPT !.i = @ + n]

(* Seeded fault: a piece ends one byte before the end of the page.         *)
copy_piece_short ==
    /\ Copying /\ op.i < this.filesz
    /\ piece_ok
    /\ copied(Min({PAGE - 1 - (va % PAGE), this.filesz - op.i}))
    /\ UNCHANGED <<image, avail, map, tables, process, next_pid, given, fresh>>

copy_piece ==
    /\ Copying /\ op.i < this.filesz
    /\ IF piece_ok
         THEN copied(piece) /\ UNCHANGED <<image, avail, map, tables, process, next_pid,
                                           given, fresh>>
         ELSE refuse

next_segment ==
    /\ Copying /\ op.i >= this.filesz
    /\ op' = [op EXCEPT !.seg = @ + 1, !.i = 0]
    /\ UNCHANGED <<image, avail, ram, map, tables, process, next_pid, given, fresh>>

loaded ==
    /\ At("copy") /\ op.seg \notin DOMAIN segments
    /\ Goto("stack")
    /\ UNCHANGED <<image, avail, ram, map, tables, process, next_pid, given, fresh>>

(* create: the user stack; then a Process without an environment.          *)
stack_page ==
    /\ At("stack") /\ op.i < USER_STACK_PAGES
    /\ LET v == USER_STACK_VA \div PAGE + op.i
       IN  IF map_ok(next_pid, v)
             THEN /\ alloc_map(next_pid, v, TRUE, FALSE)
                  /\ fill_zero
                  /\ op' = [op EXCEPT !.i = @ + 1]
                  /\ UNCHANGED <<image, process, next_pid, given, fresh>>
             ELSE give_up /\ lose_frame

created ==
    /\ At("stack") /\ op.i = USER_STACK_PAGES
    /\ heap_break' = [heap_break EXCEPT ![next_pid] = HEAP_START]
    /\ envp_user' = [envp_user EXCEPT ![next_pid] = 0]
    /\ envp_len' = [envp_len EXCEPT ![next_pid] = 0]
    /\ Goto(IF op.len = 0 THEN "install" ELSE "env")
    /\ UNCHANGED <<image, avail, ram, map, tables, next_pid, given, fresh>>

(* spawn_env: the environment has to lie in mapped pages of the caller.    *)
user_range_ok(p, ptr, len) ==
    \A v \in ptr \div PAGE .. (ptr + len - 1) \div PAGE : map[p][v] # Unmapped

env_check ==
    /\ At("env")
    /\ IF op.ptr + op.len < USER_ADDR_MAX /\ user_range_ok(op.parent, op.ptr, op.len)
         THEN /\ Goto("envpages")
              /\ given' = [given EXCEPT ![next_pid] =
                             [k \in 1 .. op.len |-> peek(op.parent, op.ptr + k - 1)]]
              /\ UNCHANGED <<image, avail, ram, map, tables, process, next_pid, fresh>>
         ELSE refuse

env_pages == pages_for(op.len)
env_bytes(i) ==
    [o \in 0 .. PAGE - 1 |->
        IF i * PAGE + o < op.len THEN peek(op.parent, op.ptr + i * PAGE + o) ELSE 0]

(* Seeded fault: the child's address is taken for a physical one.          *)
env_page_phys ==
    /\ At("envpages") /\ op.i < env_pages
    /\ LET v == HEAP_START \div PAGE + op.i
       IN  /\ map_ok(next_pid, v)
           /\ alloc_map(next_pid, v, TRUE, FALSE)
           /\ ram' = [ram EXCEPT ![v] = env_bytes(op.i)]
           /\ op' = [op EXCEPT !.i = @ + 1]
           /\ UNCHANGED <<image, process, next_pid, given, fresh>>

(* Each page is mapped in the child's heap and filled through its frame.   *)
env_page ==
    /\ At("envpages") /\ op.i < env_pages
    /\ LET v == HEAP_START \div PAGE + op.i
       IN  IF map_ok(next_pid, v)
             THEN /\ alloc_map(next_pid, v, TRUE, FALSE)
                  /\ ram' = [ram EXCEPT ![Min(avail)] = env_bytes(op.i)]
                  /\ op' = [op EXCEPT !.i = @ + 1]
                  /\ UNCHANGED <<image, process, next_pid, given, fresh>>
             ELSE give_up /\ lose_frame

(* Seeded fault: the heap of the child starts at its environment.          *)
env_done_no_break ==
    /\ At("envpages") /\ op.i = env_pages
    /\ envp_user' = [envp_user EXCEPT ![next_pid] = HEAP_START]
    /\ envp_len' = [envp_len EXCEPT ![next_pid] = op.len]
    /\ Goto("install")
    /\ UNCHANGED <<image, avail, ram, map, tables, heap_break, next_pid, given, fresh>>

env_done ==
    /\ At("envpages") /\ op.i = env_pages
    /\ envp_user' = [envp_user EXCEPT ![next_pid] = HEAP_START]
    /\ envp_len' = [envp_len EXCEPT ![next_pid] = op.len]
    /\ heap_break' = [heap_break EXCEPT ![next_pid] = HEAP_START + env_pages * PAGE]
    /\ Goto("install")
    /\ UNCHANGED <<image, avail, ram, map, tables, next_pid, given, fresh>>

(* install_process_cap, whose slot fits or not (module Kernel), and the    *)
(* push: the process exists.  The root has no parent to hold it.           *)
install(ok) ==
    /\ At("install")
    /\ next_pid = 0 => ok
    /\ IF ok
         THEN /\ op' = Idle
              /\ next_pid' = next_pid + 1
              /\ fresh' = fresh \cup {next_pid}
              /\ UNCHANGED <<image, avail, ram, map, tables, process, given>>
         ELSE refuse

SpawnStep ==
    \/ vspace_new \/ load_check \/ load_map \/ load_mapped
    \/ copy_piece \/ next_segment \/ loaded
    \/ stack_page \/ created
    \/ env_check \/ env_page \/ env_done
    \/ \E ok \in BOOLEAN : install(ok)
-----------------------------------------------------------------------------
(* What programs do in between.                                            *)

(* A write to one of its own pages.                                        *)
store(p, a, b) ==
    /\ op = Idle /\ p \in Running
    /\ map[p][a \div PAGE].writable
    /\ ram' = [ram EXCEPT ![map[p][a \div PAGE].frame][a % PAGE] = b]
    /\ fresh' = fresh \ {p}
    /\ UNCHANGED <<image, avail, map, tables, process, next_pid, op, given>>

(* SBRK that grows the heap by a page.  The loop of one that grows it by   *)
(* several does this for each page, and moves the break once.              *)
sbrk(p) ==
    LET v == heap_break[p] \div PAGE
    IN  /\ op = Idle /\ p \in Running
        /\ heap_break[p] + PAGE <= HEAP_MAX
        /\ fresh' = fresh \ {p}
        /\ IF map_ok(p, v)
             THEN /\ alloc_map(p, v, TRUE, FALSE)
                  /\ fill_zero
                  /\ heap_break' = [heap_break EXCEPT ![p] = @ + PAGE]
             ELSE lose_frame /\ UNCHANGED <<map, tables, heap_break>>
        /\ UNCHANGED <<image, envp_user, envp_len, next_pid, op, given>>

(* SBRK by two pages that fails half way, when there is memory for the     *)
(* first only: that page stays mapped, behind the break, and the frame the *)
(* second one took, if any, is lost.                                       *)
sbrk_short(p) ==
    LET v == heap_break[p] \div PAGE
        left == avail \ frames_for(p, v)
    IN  /\ op = Idle /\ p \in Running
        /\ heap_break[p] + 2 * PAGE <= HEAP_MAX
        /\ map_ok(p, v)
        /\ \/ left = {}
           \/ /\ Cardinality(left) = 1 /\ ~has_table(p, v + 1)
              /\ (v + 1) \div PT_SPAN # v \div PT_SPAN
        /\ map_page(p, v, TRUE, FALSE)
        /\ avail' = {}
        /\ ram' = [f \in Frame |-> IF f \in {Min(avail)} \cup left THEN Zeros ELSE ram[f]]
        /\ fresh' = fresh \ {p}
        /\ UNCHANGED <<image, process, next_pid, op, given>>

(* SBRK by a negative amount moves the break; the page stays mapped.       *)
sbrk_shrink(p) ==
    /\ op = Idle /\ p \in Running
    /\ heap_break[p] - PAGE >= HEAP_START
    /\ heap_break' = [heap_break EXCEPT ![p] = @ - PAGE]
    /\ fresh' = fresh \ {p}
    /\ UNCHANGED <<image, avail, ram, map, tables, envp_user, envp_len, next_pid, op, given>>

Next ==
    \/ run
    \/ \E p \in Pid : spawn(p) \/ sbrk(p) \/ sbrk_short(p) \/ sbrk_shrink(p)
    \/ \E p \in Pid, env \in EnvArgs : spawn_env(p, env[1], env[2])
    \/ \E p \in Pid, a \in Stores, b \in Byte : store(p, a, b)
    \/ SpawnStep

Spec == Init /\ [][Next]_vars

(* A spawn runs with interrupts off: it goes on until it returns.          *)
FairSpec == Spec /\ WF_vars(SpawnStep)
-----------------------------------------------------------------------------
(* Properties.                                                             *)

TypeOK ==
    /\ image \in Images
    /\ avail \subseteq Frame
    /\ ram \in [Frame -> [0 .. PAGE - 1 -> Byte]]
    /\ map \in [Pid -> [Page -> [frame : Frame \cup {None}, writable : BOOLEAN,
                                 executable : BOOLEAN]]]
    /\ tables \in [Pid -> [{v \div PT_SPAN : v \in Page} -> Frame \cup {None}]]
    /\ {heap_break, envp_user, envp_len} \subseteq [Pid -> Nat]
    /\ next_pid \in 0 .. MAX_PROCS
    /\ op \in {Idle, Panicked} \cup
              [step : {"space", "check", "map", "copy", "stack", "env", "envpages",
                       "install"},
               parent : Pid, ptr : Nat, len : Nat, pages : SUBSET Page,
               seg : Nat, i : Nat]
    /\ given \in [Pid -> Seq(Byte)]
    /\ fresh \subseteq Running

(* What GETENVP tells a process of its environment.                        *)
getenvp(p) == <<envp_user[p], envp_len[p]>>

(* The bytes of an address space as the image and the environment have     *)
(* them: the last segment in the file whose data covers the address, the   *)
(* environment where GETENVP says it is, zero in the rest of the segments, *)
(* of the stack and of the environment's pages, and nothing elsewhere.     *)
FileAt(a) == {k \in DOMAIN segments :
                a \in segments[k].vaddr .. segments[k].vaddr + segments[k].filesz - 1}
EnvAt(p) == getenvp(p)[1] .. getenvp(p)[1] + getenvp(p)[2] - 1
StackPages == USER_STACK_VA \div PAGE .. USER_STACK_VA \div PAGE + USER_STACK_PAGES - 1
EnvPages(p) == {a \div PAGE : a \in EnvAt(p)}
ImagePages == UNION {Covered(segments[k]) : k \in DOMAIN segments}
Linked(p, a) ==
    IF FileAt(a) # {}
      THEN LET k == Max(FileAt(a))
           IN  image.bytes[segments[k].offset + (a - segments[k].vaddr) + 1]
      ELSE IF a \in EnvAt(p) THEN given[p][a - envp_user[p] + 1]
      ELSE IF a \div PAGE \in ImagePages \cup StackPages \cup EnvPages(p) THEN 0
      ELSE None

(* A process starts with exactly the memory its image and its parent gave  *)
(* it, however many frames were lost and whatever they held before: also   *)
(* when segments share a page or overlap, and when the environment spans   *)
(* pages (elf.rs, "Mapping each page only once").                          *)
LoadedAsLinked ==
    \A p \in fresh :
        /\ envp_len[p] = Len(given[p])
        /\ \A a \in 0 .. USER_ADDR_MAX - 1 : peek(p, a) = Linked(p, a)

(* A page has the union of the rights of its segments; stack, heap and     *)
(* environment are never executable (elf.rs, process.rs).                  *)
RightsAsLinked ==
    \A p \in Running : \A v \in Page :
        map[p][v] # Unmapped =>
            LET on == {k \in DOMAIN segments : v \in Covered(segments[k])}
            IN  /\ map[p][v].writable <=>
                     on = {} \/ \E k \in on : segments[k].writable
                /\ map[p][v].executable <=> \E k \in on : segments[k].executable

(* A frame backs one page of one process, or a page table, or is free,     *)
(* failed spawns included (frame.rs hands a frame out once; process.rs, "a *)
(* user stack and heap mapped only in that space").                        *)
Uses(f) == {u \in Pid \X Page : map[u[1]][u[2]].frame = f}
TableUses(f) == {u \in Pid \X DOMAIN tables[0] : tables[u[1]][u[2]] = f}
FramesUnshared ==
    \A f \in Frame :
        Cardinality(Uses(f)) + Cardinality(TableUses(f))
            + (IF f \in avail THEN 1 ELSE 0) <= 1

(* The first SBRK of a process finds its page unmapped: the break lies     *)
(* behind the environment (process.rs, "Adjust heap break past the         *)
(* environment block so SBRK starts after it").                            *)
HeapStartsFree ==
    \A p \in fresh : \A v \in heap_break[p] \div PAGE .. HEAP_MAX \div PAGE - 1 :
        map[p][v] = Unmapped

(* A spawn, also one that fails, changes nothing in the memory of a        *)
(* process that exists (process.rs on 0.26.0: "it scribbled over whatever  *)
(* RAM sat at that physical address").                                     *)
SpawnIsolated ==
    [][op # Idle => \A p \in Running, a \in 0 .. USER_ADDR_MAX - 1 :
                        peek(p, a)' = peek(p, a)]_vars

(* A spawn comes to its end, whatever the image.                           *)
SpawnReturns == op # Idle ~> op \in {Idle, Panicked}
=============================================================================
