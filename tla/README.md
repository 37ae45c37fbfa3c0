# A TLA+ verification of Xernel

Xernel is a capability-based microkernel in Rust (`Xernel/kernel`), with one
large user-space image (`Xernel/userland/init`) whose programs are a block
driver, a file system, a network stack and the clients that exercise them. The
modules here model the kernel (processes and scheduling, IPC, capabilities, the
ring-3 / ring-0 transitions of x86_64, physical and virtual memory, the loading
of programs, the console) and the init image (the block driver with the file
system, the service host with its sockets, and all the programs together on the
kernel). TLC checks them on small instances; the proof system TLAPS proves the
main results of some of them for every value of the constants. `PROJECT.json`
holds the list of components, the runs, the mutants, the hazards, and for every
definition the source lines it models.

Paths below are relative to `src/Xernel/kernel/src/` unless they say otherwise.

## The system's parts

| Part | State | Operations | Interacts with |
|---|---|---|---|
| Capabilities (`cap.rs`) | a table (CNode) of entries per process | insert, get, charge and refund of an Untyped budget, the initial table | every system call looks its object up here |
| Processes, scheduler (`process.rs`) | table of processes, current index, next PID, exit codes | spawn, exit, kill, wait, yield, block_on, wake, grant, sbrk, log buffer | timer, IPC, memory |
| Endpoints (`endpoint.rs`) | a queue of messages with an optional capability | send, try_recv | block_on / wake of the scheduler |
| Notifications (`notification.rs`) | one word of bits each | signal, poll_take | block_on / wake |
| System-call layer (`syscall.rs`) | window pointers of DMA and shared memory | checks arguments, undoes what failed | all of the above |
| Ring transitions (`arch/x86_64/{syscall,apic,idt,gdt,context}.rs`) | GS pair, per-CPU area, TSS.RSP0, saved stacks, interrupt flag | system-call entry and exit, timer, exceptions, context switch | entered by every program, calls the scheduler |
| Physical frames (`mm/frame.rs`) | bump cursor over the usable regions, free list | alloc, alloc_contiguous, free | page tables, DMA, shared memory, heap |
| Address spaces (`arch/x86_64/{paging,vspace}.rs`) | page tables | map, alloc_map_user, map_device, map_shared | frames |
| Keyboard (`arch/x86_64/keyboard.rs`) | ring of bytes under a lock | interrupt handler, blocking read, self-test | READ, READ_NB, the interrupt flag |
| ELF loader (`elf.rs`) | none | load an image into an address space | spawn, frames, page tables |
| Service host (`combined_service` in `src/Xernel/userland/init/src/main.rs`) | one TCP state, one shared page and one pending flag per socket; virtio-net queues | file queries, connect, send, receive, close, ready set | two endpoints and a notification shared with the client; the NIC, by polling |
| Block driver, XernelFS (the same file) | virtio-blk queue, one header, data and status buffer, the disk | block reads and writes, format, create, read, list | the root task and the service host call it; the device, by polling |
| Init programs: root task, client, children (the same file) | their registers, the shared pages they mapped, their role | spawn, grant, kill, reap, announce, request, BYE | all of the kernel's IPC and process calls; each other through two endpoints and one notification |

Not part of the running system: `sched.rs`, `ipc.rs` and `demo.rs` (an early
milestone that `main.rs` no longer starts), `frame_ref.rs` (nothing calls it),
the aarch64 and riscv64 stubs, the placeholder servers. Boot, serial port,
framebuffer and PCI set-up are straight-line device code.

What is hard about it: the CPU is shared by preemption in ring 3 and by hand-over
inside system calls, so a call that waits resumes long after it looked at its
object; a process can end by itself, by a fault, or by another's hand, in any of
these places; capabilities are copied over three ways and name objects that come
later; memory calls take resources in several steps, each of which may fail; the
entry paths share one per-CPU scratch word and one GS pair; and the service host
serves one client while frames for any socket come at any time, its waits time
out, and what it waited for comes later. The block driver gives a request up
while the device still holds it and reuses its buffers; the keyboard's interrupt
handler takes a lock that the code it interrupts takes too; and all programs of
the image share one notification, whose bits go to whoever runs first.

What makes the parts correct: no wakeup is lost and the CPU is never parked for
ever; a ready process runs; authority comes from capabilities and capabilities
from delegation or are paid for; every path through ring 0 comes back on its own
stack with the GS pair in order; frames and budgets are neither lost nor handed
out twice; a process starts with the bytes and rights its image gives it; a key
that was typed is read once; a file is read as it was created; every request has
one reply, the reply reaches the one who asked, and data that was acknowledged
reaches the client.

## Modules

| Module | Models | Used by |
|---|---|---|
| `Cap` | `cap.rs` and `seed_caps` | `Kernel`, `Memory` |
| `Kernel` | process table, scheduler, IPC, the calls that change them | `MCKernel`, `KernelProofs` |
| `Entry` | the ring transitions | its runs, `EntryProofs` |
| `Memory` | frame allocator, mapping, DMA_ALLOC, FRAME_ALLOC, MAP_FRAME, SBRK | `MCMemory`, `MemoryProofs` |
| `Service` | the service host, its client, the receive side of its NIC driver | its runs, `ServiceProofs` |
| `FileStore` | abstract: what clients of the file service are told | `Fs` implements it |
| `Fs` | `blk_rw` and XernelFS, from formatting to serving | `MCFs`, `FsProofs` |
| `KeyQueue` | abstract: a bounded queue of the bytes typed | `Console` implements it |
| `Console` | keyboard driver, READ, READ_NB, the logs of WRITE and LOG_READ | `MCConsole`, `ConsoleProofs` |
| `Boot` | the programs of the init image, composed with `Kernel` | `MCBoot`, `BootProofs` |
| `Loader` | SPAWN, SPAWN_ENV, the ELF loader and the address spaces they build | `MCLoader`, `LoaderProofs` |
| `KernelProofs`, `EntryProofs`, `ConsoleProofs`, `ServiceProofs`, `MemoryProofs`, `LoaderProofs`, `FsProofs`, `BootProofs` | theorems | |

A definition has the name of the Rust function it models where there is one.
Definitions commented "Seeded fault" are not part of the specifications: they are
the variants that the mutants of `PROJECT.json` put in the place of the
definition that follows them, to show that the property concerned is sensitive to
that part of the code.

### Cap

A capability is a record of type, object and badge. The device ranges of IoPort
and IoMem capabilities are opaque. `u64::MAX`, the "no slot" argument, is the
number -1, outside every table. `charge_untyped` takes from the first Untyped
capability with enough budget and `refund_untyped` gives to the first one
whatever paid, as the code does.

### Kernel

The system has one CPU. `SFMASK` clears the interrupt flag on system-call entry
and the timer preempts only what it interrupts in ring 3 (`arch/x86_64/apic.rs`),
so a system call is one step up to the point where it hands the CPU over. RECV,
WAIT and WAIT_PID loop: `kont[p]` is the kernel context a process resumes in, and
the loop body is an action of its own, taken each time its process runs. Thus a
message that arrives while a receiver is parked, two receivers woken by one
message, or a kill in between, are all interleavings of the model.

| Variable | Code |
|---|---|
| `state`, `reason` | `Process.state`, with the block reason apart |
| `kont` | the kernel stack of a process, as the loop it is in |
| `exit_code`, `caps` | the fields of `Process` |
| `current`, `next_pid` | the fields of `Scheduler`; the table is appended in PID order and never shrinks, so index = PID and `procs.len()` = `next_pid` |
| `halted` | `exit_inner` found nobody to run |
| `queue`, `word` | `ENDPOINTS`, `NOTIFICATIONS`; a word is the set of its 1 bits |
| `handleless` | history: children spawned with `cap_slot = u64::MAX` |

User programs are arbitrary: any process may make any call with any argument of
the constants' sets. Calls that only read, and calls refused before they change
anything, are stuttering steps and have no action. DMA_ALLOC and FRAME_ALLOC are
here as what they do to the capability table: the charge, the refund when a later
step fails, and the Frame capability with the address of what was allocated
(`Frames`); whether a later step fails is left open, and `Memory` has the steps.
READ waits in the kernel with the CPU halted and nothing preempts it; its action
`read` may never come.

### Entry

A stack pointer is named by the process whose stack it points into. The state is
the GS pair, `PERCPU.kernel_rsp` and `user_rsp`, `TSS.RSP0`, the saved contexts
and the interrupt flag. The end of the system-call stub is two steps, because
between `mov rsp, [rsp]` and `sysretq` ring 0 runs on the user's stack. A fresh
process enters ring 3 through the trampoline, any other resumes inside the path
that parked it; the process that runs before it may have left by any other path.
Which process runs next is left open.

### Memory

Memory is counted in frames and pages. Unlike in `Kernel`, a call is cut into the
steps that can fail on their own (take frames, find room in the window, get a
page table, map a page, check the out pointer, install the capability), with `op`
the call in progress; there is one at a time because system calls are not
preempted. A page table is a frame taken from the allocator, and the three lower
levels of the x86_64 table are one level: a table covers `PT_SPAN` pages. A frame
freed by a failed FRAME_ALLOC goes to the free list and is reused first, but only
by `alloc`: `alloc_contiguous` uses the cursor alone, and leaves the rest of a
region behind for good when a run does not fit. `allocated`, `granted` and
`minted` are history variables. `delegate` stands for the ways of `Kernel` in
which a capability reaches another table.

### Service

The service host is one loop: take a request, serve it, reply. The steps of the
model are the places where something else can happen in between: the top of the
loop, the end of each request, and each wait for the NIC. Serving a CONNECT is
`connect_syn` and then a `connect_...` step per frame looked at; a RECV or
GET_READY that finds nothing buffered is `poll_start` and then a `poll_...` step
per frame. Transmission waits too, but nothing it waits for changes what the
service looks at, so it is part of the step, with the three outcomes `Tx`: taken
in time, timed out and sent all the same, timed out and not sent.

| Variable | Code |
|---|---|
| `ep`, `reply` | the queues of the endpoints in slots EP_SLOT and REPLY_EP_SLOT |
| `waiting` | the client inside `request()` |
| `svc` | where the service is, in which request, and the attempts left in its loop |
| `active`, `pending`, `shm` | `TcpState.active`, `pending`, the socket's shared page |
| `armed` | `rx_posted` minus the index of the used ring: buffers the device owes |
| `buf` | the receive buffer, the same one for every descriptor |
| `word` | the socket bits of the notification |
| `wire`, `peer` | external: frames in flight, and the other end of each connection |
| `told` | history: socket bits a WAIT returned since they were raised |

Sequence numbers, checksums and addresses are left out; a segment is known by its
connection and its place in it, and a page by what was copied there last. A
timeout leaves its buffer armed, so the next wait needs two frames and sees the
second, as in the code. The buffer is looked at only after the device has filled
all that is armed, so what it held before is forgotten when it is armed. The
requests that look at no socket state share the action `serve_query`; they still
take part in the request protocol. There is one client, as in the program (it
sends one request at a time); WAIT may be called by anyone that shares the
notification. `Init` is the top of the loop, with a buffer left armed or not by
DHCP or ARP.

### Fs and FileStore

Every disk access is a call of `blk_rw`: fill in the header, the sentinel status
and the data (`Fill`, with the call at `pc`), publish the descriptor chain, poll
`used.idx`, and return with the status or give up at the spin limit (`io` is how
far the call is). The device is a process of its own: it takes published requests
with the header that is in memory at that moment, may hold several, and completes
any of them later, in any order, with an error or with its data moved, or never:
the driver negotiates nothing that would keep it in order. A request that was
given up thus completes under the next one, or after it, with the buffers they
share. The setup is any failure away from `"down"`, where the root task exits.

| Variable | Code |
|---|---|
| `hdr`, `data`, `status` | the three parts of the DMA page |
| `seq`, `used` | `Blk.seq` (= `avail.idx`) and `used.idx`, `u16` and wrapping |
| `flight`, `disk` | external: the requests the device holds, and its sectors |
| `pc`, `k`, `sb`, `dir`, `ent`, `off`, `out` | control and locals of `fs_setup`, `fs_create`, `fs_read` |
| `have_shm` | `have_shm[0]` of `combined_service`: the page a whole file is copied to |
| `req`, `ans` | the request that `serve_one` handles, and its reply |
| `mixed` | history: a `blk_rw` of this request began with others in the ring |

A sector holds one of three formats (superblock, directory, data). Names are
numbers; OP_NAMECH, which returns one character, returns the name. `FileStore`
says what a client may be told: the truth of the catalogue, or an error if the
disk failed during that very request, or if there is no page for the file. It has
one gap, because the code has it: a failure may leave work with the disk
(`left`), and a request that used the disk before that work was done (`late`) may
be answered with its result. Nothing in it knows of sectors.

### Console and KeyQueue

The CPU runs a flow of control (`pc`: a program, READ, READ_NB or the boot-time
self-test) or the keyboard's handler on top of it (`irq`, the byte it is about to
push). `iflag`, `saved` and `lock` are the interrupt flag, the flag that
`without_interrupts` restores, and the lock of `BUFFER`; `keys` is the
controller. Every point at which an interrupt can come is a step: before and
after the lock, per byte drained, before `hlt`, in `hlt`. `enable_and_hlt` is one
step because `sti` takes effect after the next instruction. The logs are there
too: WRITE appends, drops the oldest byte of a full log, LOG_READ takes from the
front. The bytes a process writes are numbered, so that a log shows which ones it
holds; `wrote` and `seen` are history. `KeyQueue` has three things to look at:
the queue, the byte that the handler or the self-test is about to put there, and
what the call in progress has got. So a byte that is lost at a queue with room,
or handed out wrong, is not a step of it.

### Boot

`Boot` extends `Kernel` with the programs: `pc[p]` is where program `p` goes on
when the kernel returns to it, and each step of a program is a system call, that
is an action of `Kernel` taken by the running process. All processes run one
image; `role` is the environment variable that tells children apart. PID 0
(`Root`) prepares the disk, spawns the client and the granted child, delegates a
frame, reaps the child, announces both services with one SIGNAL and becomes the
service; any other process without a role is a client. `reg`, `bits` and `code`
are what the last RECV, WAIT and WAIT_PID returned. A spawn or an allocation may
fail; the budget that decides it is in `Kernel` and `Memory`. What goes on inside
a request is in `Service` and `Fs`; here it has an outcome, and data for a socket
may come in whenever the service polls (`r_buffer`).

### Loader

A spawn runs under the scheduler's lock with interrupts off; it is cut into the
steps that can fail (`op`): the new space, the three passes of `elf::load`, the
stack, the environment, the parent's handle. Memory is bytes: `ram` is the
contents of frames, `map` the page tables with rights, and a frame comes back
with what it held. Between spawns programs store and call SBRK, which grows the
heap by a page (a longer growth that succeeds is as many of them), fails at its
second page with the first left mapped behind the break (`sbrk_short`), or
shrinks and keeps its pages. The frame allocator is the lowest free frame and
page tables have one level; `Memory` has the real allocator. `given` and `fresh`
are history: the environment a process was spawned with, and the processes that
have not touched their memory yet. The header checks of `elf::load` are one
outcome, `image.valid`.

## Runs

| Run | Module | Checks |
|---|---|---|
| `kernel_safety` | MCKernel | `NoLostWakeup`, `ParkedInItsLoop`, `CpuNeverParked`, `HandlesNameSpawned`, `HandlelessUntouchable`, `NoAmbientAuthority`, `AuthorityNotForged`, `EndedStaysEnded`, types |
| `kernel_live` | MCKernel | `ReadyRuns`, `RecvProgress`, `WaitPidReturns` |
| `entry` | Entry | `GsBalanced`, `OwnStacks` |
| `memory` | MCMemory | `FramesConserved`, `BudgetConserved`, `FrameCapsLive`, `HandedOutStays`, types |
| `service` | Service | `OneReply`, `ReadyAnnounced`, `RequestAnswered` |
| `fs` | MCFs | `NoOverlap`, `DiskFrozen`, `StoreSpec`, `RequestServed` |
| `console` | MCConsole | `HandlerNeverSpins`, `LogIsTail`, `QueueSpec`, `ReadReturns` |
| `boot` | MCBoot | `OneClient`, `ReplyToAsker`, `ReapedAsExpected`, `ClientGetsThrough` |
| `loader` | MCLoader | `LoadedAsLinked`, `RightsAsLinked`, `FramesUnshared`, `HeapStartsFree`, `SpawnIsolated`, `SpawnReturns` |
| `memory_heap_private` | MCMemory | violated: `HeapPrivate` |
| `service_never_dropped` | Service | violated: `NeverDropped` |
| `boot_wait` | MCBoot | violated: `ReadyWaitReturns` |

`StoreSpec` and `QueueSpec` are refinements. `Fs` implements `FileStore` with the
phase read off `pc`, a fault wherever a `blk_rw` of the current request has
failed, and `late` where one began with others in the ring: hence a late
completion reaches no answer but those, whatever order the device serves in, and
the disk's failures no answer but the one at hand. The ring of `Console`
implements `KeyQueue` with the contents read off head, tail and slots, the
incoming byte off the handler and the self-test, and what was got off the
reader's buffer: hence a byte is taken once, in order, and dropped only at a full
buffer.

`HandedOutStays` is about what callers rely on: the pages of every range that a
DMA_ALLOC, FRAME_ALLOC or MAP_FRAME returned stay mapped to its frames, the heap
up to the break is mapped, and no heap page shares its frame with another heap
page or with a range handed out, although a call that fails half-way, or a
shrink, leaves pages mapped behind the break or behind a window's next address.

To repeat one: `tlc -workers 2 -config kernel_safety.cfg MCKernel`.

**Bounds.** `kernel_safety` (1.3 million states): three processes, so that a
sender, a receiver and a third that kills, spawns or takes the message meet; a
queue of one message, so that it is full and empty; slot 6 the one slot that is
free in every table, so that handles and delegated capabilities compete for it
and inserts fail; two endpoints and one notification, the seeded ones. One word,
one bit and one code are enough, because no action looks at a word, tells bits
apart, or compares codes (the fault code 256 is the other code `EndedStaysEnded`
can see). A budget of one page, and calls for one page, so that a charge fails,
is refunded, and pays for a Frame. A `VIEW` leaves out what no step looks at: the
block reason of a process that is not Blocked, and the loop of an ended process
off the CPU. `kernel_live` has three processes, one endpoint in use and one source
slot, because liveness checking is dearer. `entry`: three processes, so that a
process is parked, another ends and a third is fresh; nothing in the module
counts. `memory` (1.0 million states): two regions with a hole and five frames
in all, so that a run skips the end of the first region and memory runs out in
every step of a call; two pages of DMA window, two of shared window, two of
heap, so that a growth fails half-way; a page table covers three pages, so that a
call may need one or not; a budget of two pages. `service` (1.6 million states): two sockets, so that a
poll for one meets a segment for the other; two attempts per loop, so that a
loop goes on, ends early and runs out; one connection and one segment per socket;
at most one buffer left armed when a request polls, which with its own makes two,
so that a late frame is followed by the one the request waits for.
`service_never_dropped` adds a second segment.

`fs` (0.36 million states): a sector of two bytes, a page of two sectors, two
directory entries and six sectors in all; the catalogues fill the disk to the
last sector with a file longer than a page, have an empty file, overflow the disk
and overflow the directory. Ring indices wrap at 4 and at most two requests are
left with the device when a new one is asked for, so the indices wrap several
times over and never by a full turn (65,536 requests left behind in the code).
`console`: a ring of three slots is full, empty and wraps; a buffer of two bytes
is filled or not; scancodes with a character, without one, and a release code;
one process and three bytes written to a log of two. `boot` (0.17 million
states): all six processes the programs can create; one socket and one file
request, one yield where the code has 2 or 4, one round of the ready-set test.
With two sockets, two rounds and two attempts the safety properties hold too (2.2
million states); liveness is dearer. `boot_wait` is the same instance. `loader`
(0.37 million states): pages of two bytes, three processes, eight images whose
segments share a page, overlap, are longer in the file than in memory, meet the
stack, or are malformed; memory that is out in the first spawn, in the second, or
never (3, 9 and 18 frames), so that SBRK also fails in its second page;
environments of one page, across a page, unmapped and absent.

The machine really may stop (`halted`, or a READ without a key), the service
stops after BYE, and the bounds on processes, queues, pages and frames stop a run
too, hence `CHECK_DEADLOCK FALSE`.

**Fairness.** `kernel_live` assumes weak fairness of the kernel's own loops (a
running process in a loop goes on) and strong fairness of the preemption in ring
3: a timer interrupt that comes while interrupts are masked stays pending in the
local APIC and is taken on return to ring 3, so a program cannot put it off for
ever by making system calls, although each call disables it for a while. Nothing
is assumed of user programs: they may loop, never send and never exit. READ
holds the CPU until a key comes, so each liveness property is conditional on
`[]<>~InRead`. `service` assumes weak fairness of the service's own steps and of
the client's RECV: both are processes that the scheduler runs, and every wait of
the driver is a loop with a spin limit (`net_rx_wait`, `net_tx`), so that it ends
whatever the device does. Nothing is assumed of the device, of the network, or of
what the client asks for next. `fs` assumes weak fairness of the program alone,
for the same reason. `console`: interrupts come at a finite rate, so the flow
below them gets on (strong fairness, as each interrupt takes the CPU for a
while); a pending interrupt is taken as soon as the flag is set, however briefly
(strong); the handler and the timer go on (weak). Nobody need press a key. `boot`
has the fairness of `kernel_live`, and strong fairness of the programs: one that
gets the CPU again and again makes its next call, because a time slice is longer
than the way to it. `loader`: weak fairness of the steps of a spawn, which
nothing interrupts.

## Findings

Each is a statement of the repository that the code does not keep, shown by a run
that ends in a counterexample.

* `HeapPrivate`: FRAME_ALLOC that fails late frees frames that stay mapped in
  the caller; the next SBRK of another process gets one as its heap.
* `NeverDropped`: "Frames are buffered, never dropped" (`net_buffer_frame`). A
  RECV that polls for one socket and meets two segments for another acknowledges
  both and keeps the second.
* `ReadyWaitReturns`: "a WAIT returns exactly which sockets are readable"
  (`src/Xernel/userland/init/src/main.rs:2379`). The children of the client wait
  on the same notification, and a WAIT clears the word: a child that runs first
  takes the socket's bit and the client's WAIT never returns.

Seen while modelling, without a run of their own:

* A process that received its own Process capability can kill itself. It keeps
  running, and `block_on`'s fallback sets it Ready again, although a Done process
  is "never run again" (`process.rs:90`). `EndedStaysEnded` speaks of processes
  off the CPU for that reason.
* A READ that waited returns with interrupts enabled, so the end of the
  system-call stub runs unmasked on the user's stack.
* DMA_ALLOC that fails on its out pointer refunds the budget and keeps the
  buffer mapped.
* A connect after a close fails on a leftover FIN of the connection before:
  `net_connect` compares the port only, and a socket keeps its port.
* A SEND of more than 64 bytes passes the test against a page, overruns the
  frame's array, and the service panics and answers nothing any more
  (`net_send_panic`).
* "SAFETY: completion is signalled; status (and data, for a read) are valid"
  (`src/Xernel/userland/init/src/main.rs:393`) holds only while no given-up
  request is left: a device that serves out of order can complete the newer one
  first, or the older one last, and `used.idx == seq` does not tell. `FileStore`
  allows for it (`late`).
* RECV takes a message off the queue before it knows whether the capability fits
  its slot and the out pointer is writable; when not, message and capability are
  lost (`syscall.rs:511`).
* `exit` and `kill` accept the code 0x100, which is EXIT_FAULT: a parent cannot
  tell such an exit from a fault (`process.rs:595`).
* The keyboard's self-test takes the buffer's lock with interrupts enabled
  (`keyboard.rs:181`): a key pressed at that moment stops the boot. It exists only
  in a build with the self-test.
* `elf::load` bounds a segment by the address width alone: nothing but the
  linker keeps it out of the heap area (`elf.rs:113`); `LoaderAssumption` states
  that it does.

## What is proved

`KernelProofs` proves for every number of processes, endpoints, notifications,
slots and every set of arguments, from `CapAssumption` and `KernelAssumption`
alone (a table has the six seeded slots, there are the two seeded endpoints and
one notification, slot arguments are numbers or `MAX`): type correctness,
`NoLostWakeup`, `ParkedInItsLoop`, `CpuNeverParked`, `HandlesNameSpawned`,
`HandlelessUntouchable`, and the action properties `EndedStaysEnded`,
`NoAmbientAuthority` and `AuthorityNotForged`.

None of these is inductive alone. The inductive invariant `Inv` is their
conjunction with four facts they lean on:

* `TableInPidOrder`: exactly the PIDs below `next_pid` are in the table. Without
  it `pick_next` could return an index without a process.
* `CapsNameObjects`: every capability, in a table or in a queued message, names
  an existing object of its type, and no Process capability names a child
  without a handle. SEND and RECV carry capabilities from table to queue to
  table, so the two places must be strengthened together.
* `LoopsOnObjects`: the loop a process is in names an existing object.
* `HandlelessSpawned`: children without a handle are spawned processes, so the
  PID that a new handle names is not one of them.

`NoLostWakeup` holds because a caller parks only in the branch in which its
object is empty, and `wake` makes Ready everyone parked on the object that
becomes non-empty. The scheduler's part rests on two lemmas about `pick_next`,
`PickIsReady` (what it returns is a Ready process of the table) and
`PickIsComplete` (when it returns nothing, nobody is Ready), which need that the
offsets 1..n modulo n reach every index (`ModOffset`) and that `Min` is a least
element (`MinIsLeast`, from well-foundedness of the order on the naturals). Each
operation has a lemma `...Keeps` that it preserves `Inv`; `StepInv` assembles
them. `AuthorityNotForged` is proved over the same steps: what a step leaves in a
slot or a message existed before, is the new child's handle, or comes from the
table calls, of which the proof shows that a charge and a refund touch one
Untyped slot each and that a Frame is only installed in a table that has been
charged its pages.

`EntryProofs` proves `GsBalanced` and `OwnStacks` for any set of processes. The
invariant adds that a parked process's `ksp` and the user rsp kept on its kernel
stack are its own, which is what makes the shared scratch harmless.

`ConsoleProofs` proves type correctness, `HandlerNeverSpins`, `LogIsTail` and the
refinement `QueueSpec` for any capacity of the ring and of the logs, any table of
scancodes, any length of the reader's buffer and any set of processes, from
`ConsoleAssumption` (the ring has at least two slots, buffers are not empty,
scancodes and bytes are numbers and some scancode has a character).
`HandlerNeverSpins` needs to know exactly which flows hold the lock, and that
those that drain hold it with interrupts masked and no handler under way
(`LockHolders`). Types need that the slots between head and tail hold bytes
(`SlotsFilled`), or a reader could be given the 0 of an unused slot. `LogIsTail`
is inductive with the types alone. The refinement follows from two facts about
the contents of a ring: `push` appends to them or, exactly when they fill all
slots but one, leaves them (`HeldPush`), and `pop` takes their tail (`HeldPop`);
both rest on what the wrapping indices come to (`NextIndex`, `RingSize`,
`RingSlot`). A step of the handler or of the self-test is then one `Arrive` or
one `Type`, and a step of a draining reader one `Take`, with the byte appended to
what the reader has got.

`MemoryProofs` proves type correctness, `FramesConserved`, `BudgetConserved`,
`FrameCapsLive` and `HandedOutStays` for any memory map, any windows and any
number of processes, from `MemoryAssumption` and `RegionsAssumption` (the usable
regions are not empty and do not overlap). That the cursor never comes to a frame
in use needs that all of those lie behind it (`AheadUntouched`). A call is
several steps and may fail in each, so the invariant says what a call in progress
has: its pages lie in its window (`CallPages`), the frames it maps are allocated,
and those of FRAME_ALLOC are named by no capability yet, because the capability
is installed last (`CallHolds`); a Frame capability names at least one frame
(`FrameCapsSized`). `HandedOutStays` needs in addition that no Frame capability
names a heap frame (`CapsOffHeap`), that the frames of a call in progress back no
heap page (`CallFrames`), and what a call has mapped when it moves on to its next
step (`CallDone`).

`BudgetConserved` is about sums over the slots of every table, which the library
defines by recursion over sets. The module first proves what it needs of them:
the recursion has a solution on a finite set (`SummingExists`), the order of the
elements does not matter (`AnyFirst`), and changing one value changes the sum by
as much (`SumChange`). The induction runs over the subsets of a finite set and is
stated for a family of sets (`SubsetInduction`), not for a predicate, so that the
provers can apply it. Of the system it needs one more fact, `Refundable`: a call
that has paid still finds an Untyped capability when it fails, whichever it is,
so no refund is dropped. `charge_untyped` then takes from the sum what the call
is charged, `refund_untyped` gives it back, installing a Frame capability changes
nothing and a delegated copy adds what it is worth.

`ServiceProofs` proves type correctness, `OneReply` and `ReadyAnnounced` for any
number of sockets, attempts, connections, segments and buffers. `OneReply` is
about the two queues and the service at once: `Conversation` says in which of the
three the client's request is, and `ServiceAt` that the service holds a request
exactly while it works on one. That only frames reach the buffer needs that the
wire holds frames (`Network`), and that needs that a CONNECT on its way finds a
connection number left (`ConnectsLeft`).

`LoaderProofs` proves type correctness, `LoadedAsLinked`, `RightsAsLinked`,
`FramesUnshared`, `HeapStartsFree` and `SpawnIsolated` for any set of images,
page and table size, number of frames and processes, from `LoaderAssumption` (the
address space is laid out as in the code, a segment that does not overflow is
linked below the heap, and an environment is no longer than the user half above
`HEAP_START`). The invariant has three layers, each relying on the ones before
it: `Safe`, that a spawn in progress stays within its bounds and no frame is used
twice; `Shape`, that the space under construction has exactly the pages that the
steps so far gave it, with the rights of the image, and the break of a process
lies in its heap; `Contents`, that those pages hold what has been copied so far.
Segments may share a page and overlap, so `Contents` speaks of the last segment
copied to an address, not of each segment. That the heap starts free is proved
apart and of processes that have not run yet (`FreshIsFree`): a half-way SBRK or
a shrink leaves pages behind the break of one that has.

`FsProofs` proves type correctness, `NoOverlap`, `DiskFrozen` and the refinement
`StoreSpec` for any geometry of the disk, any catalogue and any requests, from
`FsAssumption` (files have names, the names of a catalogue differ, fewer requests
are left behind than the ring index counts). The hard part is a request that was
given up: the device may complete it later, under the next one. During set-up a
`blk_rw` that fails ends it, so each call finds nothing outstanding and a write
given up is the last request there will be; once the service is up only reads are
asked for; and a `blk_rw` that began on an empty ring has nothing but its own
request there, so `used.idx == seq` means that this one came back (`Ring`:
`Owed`, `Clean`, `OwnFlight`, `Transferred`, `OnlyReads`). One that began on a
ring that was not empty makes its request `mixed`, and what it returns is used
for nothing but that request's answer. On top of it `Calls` says what is in the
request buffers, `Progress` which files of the catalogue are on the disk and
where (`Placed`, `Stored`), and `Serving` what a request has read so far. The
refinement follows: what is copied out is the file of the catalogue, a request of
which a `blk_rw` failed is answered with a fault, and only a `mixed` one, which
is `late` in `FileStore`, with anything else.

`BootProofs` proves `OneClient`, `ReplyToAsker` and `ReapedAsExpected` for any
number of processes, sockets, file requests, attempts, yields and rounds, and
besides that the KILL of the demo is never refused (`KillIsAccepted`) and that
the two endpoints never hold more than one message (`OneMessage`). It assumes
`BootAssumption`: sockets are numbered from 0, their bits are not those of the
announcement, and a table has the slots the programs use. `BootKernel` carries
the invariant of `KernelProofs` over to the programs, whose steps are system
calls, operation by operation. What a step does is then summed up once, as one of
nine shapes for the client (`ClientShapes`) and nine for the root task
(`RootShapes`), and the invariant `BootInv` is proved over the shapes:

* `Token`: READY_BIT is raised once, WAIT clears the word it takes, and the bits
  of sockets are other bits; so at most one process has READY_BIT, and only that
  one is past the wait.
* `Conversation`: while the client waits for an answer its request is on its way,
  at the service or answered, and nowhere twice; while it does not, both endpoints
  are empty but for the BYE of a client that leaves. It needs `Token`: a second
  client would put a second request there.
* `Family`: handles do not travel in messages, name processes younger than their
  holder, and those in the two slots of a client name children with the role they
  were spawned with. So nobody ends the running process but itself, and a process
  that has ended stays so with its exit code.
* `Reaped`: the child to be killed is alive at the KILL. It is a client without
  the token, so it is still waiting, and it needs both `Token` and `Family`.

Only model-checked: liveness under fairness, which is out of the prover's reach.
Every invariant, action property and refinement that a passing run checks is also
a theorem.

## Not modelled, and why

TLB shootdown and device mappings; IOMAP, the port, PCI and framebuffer calls,
which reach devices only; heap exhaustion of the kernel (an allocation failure
panics; the queue of an endpoint is unbounded in the code and bounded by
`MAX_QUEUE` here). Of the service host: TCP sequence numbers, the memory of the
virtio rings (only the number of buffers the device owes is kept), and DHCP, ARP
and the ping and echo demonstrations that run once before or instead of the loop.
Of the client: what it prints, and the demonstrations that only print. Reading
the fields of an ELF header; programming the IO-APIC. The build tool, the boot
and device set-up code and the other ports have no state of interest.

## Plan

1. Done: `Cap`, `Kernel`, `Entry`, `Memory`, `Service`, `Fs`, `Console`, `Boot`,
   `Loader`, and the safety proofs of all of them.
2. An abstract specification of IPC (a bag of messages delivered once to some
   receiver) that `Kernel` implements, and what RECV loses when the capability
   does not fit.
3. What a RECV of the service host hands out (sequence numbers, and the segment
   that CLOSE leaves pending); the virtio rings with their size.
