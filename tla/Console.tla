------------------------------- MODULE Console -------------------------------
(***************************************************************************)
(* Console input and output: the keyboard driver (arch/x86_64/keyboard.rs) *)
(* with the READ and READ_NB calls that drain it, and the per-process log  *)
(* that WRITE fills and LOG_READ empties (process.rs, syscall.rs).         *)
(*                                                                         *)
(* One CPU runs either a flow of control of the kernel or of a user        *)
(* program (`pc`), or the keyboard's interrupt handler on top of it        *)
(* (`irq`).  The handler takes the lock of the buffer, and so do the flows *)
(* it interrupts: what keeps the handler from spinning on a lock that the  *)
(* interrupted flow holds is the interrupt flag `iflag`.  A system call    *)
(* enters with the flag clear; enable_and_hlt sets it, and READ goes on    *)
(* with the flag set after the first interrupt.                            *)
(***************************************************************************)
EXTENDS Integers, Sequences, FiniteSetsExt

CONSTANTS
    RING_CAP,      \* slots of the keyboard buffer
    SC1,           \* scancode -> byte, 0 for a key without a character
    Scancodes,     \* what the keyboard sends, release codes included
    BUF_LEN,       \* length of the buffer of READ and READ_NB
    MAX_KEYS,      \* bound: scancodes waiting in the controller
    Procs,         \* processes that write and read logs
    LOG_BUF_CAP,   \* bytes kept in a log
    MAX_WROTE      \* bound: bytes a process ever writes

ASSUME ConsoleAssumption ==
    /\ RING_CAP \in Nat /\ RING_CAP > 1
    /\ BUF_LEN \in Nat \ {0}
    /\ LOG_BUF_CAP \in Nat \ {0}
    /\ DOMAIN SC1 \subseteq Nat
    /\ \A sc \in DOMAIN SC1 : SC1[sc] \in Nat
    /\ \E sc \in DOMAIN SC1 : SC1[sc] # 0

VARIABLES
    keys,    \* 8042 controller: scancodes not yet read from port 0x60
    ring,    \* Ring.data
    head, tail,
    lock,    \* BUFFER's lock is held
    iflag,   \* the CPU's interrupt flag
    irq,     \* the byte the keyboard handler is to push, or None
    pc,      \* what the CPU runs below the handler
    saved,   \* the flag that without_interrupts restores
    buf,     \* the caller's buffer, as filled so far
    log,     \* Process.log_buf
    wrote,   \* history: bytes a process has written; they are 1, 2, 3, ...
    seen     \* history: the last byte LOG_READ took from a log

keyboard == <<ring, head, tail, lock>>
logs == <<log, wrote, seen>>
vars == <<keys, keyboard, iflag, irq, pc, saved, buf, logs>>

None == -1
Index == 0 .. RING_CAP - 1
Bytes == {SC1[sc] : sc \in DOMAIN SC1} \ {0}

(* The CPU starts in kmain, in the keyboard self-test, or, in a build      *)
(* without the boot-test feature, in user programs.                        *)
Init ==
    /\ keys = <<>>
    /\ ring = [i \in Index |-> 0] /\ head = 0 /\ tail = 0 /\ lock = FALSE
    /\ iflag = TRUE
    /\ irq = None
    /\ pc \in {"self_lock", "user"}
    /\ saved = TRUE
    /\ buf = <<>>
    /\ log = [p \in Procs |-> <<>>]
    /\ wrote = [p \in Procs |-> 0]
    /\ seen = [p \in Procs |-> 0]
-----------------------------------------------------------------------------
(* The ring.                                                               *)

(* Seeded fault: the last free slot but one already counts as full.        *)
push_early(b) ==
    LET next == (tail + 1) % RING_CAP
    IN  IF next # head /\ (tail + 2) % RING_CAP # head
          THEN ring' = [ring EXCEPT ![tail] = b] /\ tail' = next
          ELSE UNCHANGED <<ring, tail>>

(* Ring::push: one slot stays empty; a byte that does not fit is dropped.  *)
push(b) ==
    LET next == (tail + 1) % RING_CAP
    IN  IF next # head
          THEN ring' = [ring EXCEPT ![tail] = b] /\ tail' = next
          ELSE UNCHANGED <<ring, tail>>

(* Ring::pop.                                                              *)
empty == head = tail
pop == head' = (head + 1) % RING_CAP

(* translate: the byte of a make code, or 0.                               *)
translate(sc) == IF sc \in DOMAIN SC1 THEN SC1[sc] ELSE 0
-----------------------------------------------------------------------------
(* Interrupts.                                                             *)

(* A key event: the controller holds its scancode and raises IRQ 1.        *)
key(sc) ==
    /\ Len(keys) < MAX_KEYS
    /\ keys' = Append(keys, sc)
    /\ UNCHANGED <<keyboard, iflag, irq, pc, saved, buf, logs>>

(* The flow below an interrupt goes on; hlt ends.                          *)
resume == pc' = IF pc = "hlt" THEN "read" ELSE pc

(* irq_handler, up to the lock; the CPU clears the interrupt flag.         *)
irq_enter ==
    /\ iflag /\ irq = None /\ keys # <<>>
    /\ keys' = Tail(keys)
    /\ irq' = translate(Head(keys))
    /\ iflag' = FALSE
    /\ UNCHANGED <<keyboard, pc, saved, buf, logs>>

(* irq_handler, from the lock on: it spins while the lock is held.         *)
irq_push ==
    /\ irq # None
    /\ IF irq = 0 THEN UNCHANGED <<ring, tail>> ELSE ~lock /\ push(irq)
    /\ irq' = None
    /\ iflag' = TRUE
    /\ resume
    /\ UNCHANGED <<keys, head, lock, saved, buf, logs>>

(* The timer's interrupt in ring 0: it only counts, and ends hlt.          *)
tick ==
    /\ iflag /\ irq = None
    /\ pc = "hlt"
    /\ resume
    /\ UNCHANGED <<keys, keyboard, iflag, irq, saved, buf, logs>>
-----------------------------------------------------------------------------
(* READ and READ_NB.                                                       *)

(* The CPU runs the flow at label l.                                       *)
At(l) == irq = None /\ pc = l

sys_read ==
    /\ At("user")
    /\ pc' = "read"
    /\ iflag' = FALSE
    /\ buf' = <<>>
    /\ UNCHANGED <<keys, keyboard, irq, saved, logs>>

(* Seeded fault: the buffer is locked with interrupts as they are.         *)
lock_as_is(from, to) ==
    /\ At(from)
    /\ lock' = TRUE
    /\ saved' = iflag
    /\ pc' = to
    /\ UNCHANGED <<keys, ring, head, tail, iflag, irq, buf, logs>>

(* without_interrupts, then the lock.                                      *)
lock_masked(from, to) ==
    /\ At(from)
    /\ lock' = TRUE
    /\ saved' = iflag
    /\ iflag' = FALSE
    /\ pc' = to
    /\ UNCHANGED <<keys, ring, head, tail, irq, buf, logs>>

(* Take one byte out; at most `room` fit the caller's buffer.              *)
take(l, room) ==
    /\ At(l)
    /\ ~empty /\ Len(buf) < room
    /\ pop
    /\ buf' = Append(buf, ring[head])
    /\ UNCHANGED <<keys, ring, tail, lock, iflag, irq, pc, saved, logs>>

(* The drain is over: unlock, restore the flag, go on at `to`.             *)
unlock(l, room, to) ==
    /\ At(l)
    /\ empty \/ Len(buf) = room
    /\ lock' = FALSE
    /\ iflag' = saved
    /\ pc' = to
    /\ UNCHANGED <<keys, ring, head, tail, irq, saved, buf, logs>>

read_lock == lock_masked("read", "drain")
read_take == take("drain", BUF_LEN)
read_unlock == unlock("drain", BUF_LEN, IF buf = <<>> THEN "idle" ELSE "return")

(* Seeded fault: hlt without sti.                                          *)
hlt_masked ==
    /\ At("idle")
    /\ pc' = "hlt"
    /\ UNCHANGED <<keys, keyboard, iflag, irq, saved, buf, logs>>

(* enable_and_hlt: no interrupt is taken between sti and hlt.              *)
enable_and_hlt ==
    /\ At("idle")
    /\ pc' = "hlt"
    /\ iflag' = TRUE
    /\ UNCHANGED <<keys, keyboard, irq, saved, buf, logs>>

sys_read_nb ==
    /\ At("user")
    /\ pc' = "read_nb"
    /\ iflag' = FALSE
    /\ buf' = <<>>
    /\ UNCHANGED <<keys, keyboard, irq, saved, logs>>

read_nb_lock == lock_masked("read_nb", "drain_nb")
read_nb_take == take("drain_nb", BUF_LEN)
read_nb_unlock == unlock("drain_nb", BUF_LEN, "return")

(* Back to ring 3, where interrupts are enabled.                           *)
sysret ==
    /\ At("return")
    /\ pc' = "user"
    /\ iflag' = TRUE
    /\ UNCHANGED <<keys, keyboard, irq, saved, buf, logs>>
-----------------------------------------------------------------------------
(* selftest: it takes the lock with interrupts enabled.                    *)

SelftestCodes == {sc \in DOMAIN SC1 : SC1[sc] # 0}

self_lock ==
    /\ At("self_lock")
    /\ lock' = TRUE
    /\ pc' = "self_push"
    /\ UNCHANGED <<keys, ring, head, tail, iflag, irq, saved, buf, logs>>

(* One synthetic scancode stands for the three that are pushed.            *)
self_push ==
    /\ At("self_push")
    /\ push(translate(Min(SelftestCodes)))
    /\ pc' = "self_unlock"
    /\ UNCHANGED <<keys, head, lock, iflag, irq, saved, buf, logs>>

self_unlock ==
    /\ At("self_unlock")
    /\ lock' = FALSE
    /\ pc' = "self_drain"
    /\ UNCHANGED <<keys, ring, head, tail, iflag, irq, saved, buf, logs>>

self_drain_lock == lock_masked("self_drain", "self_pop")
self_take == take("self_pop", RING_CAP)
self_drained == unlock("self_pop", RING_CAP, "self_check")

(* The result is asserted: kmain panics or goes on to the processes.       *)
self_check ==
    /\ At("self_check")
    /\ pc' = IF buf = <<translate(Min(SelftestCodes))>> THEN "user" ELSE "panic"
    /\ UNCHANGED <<keys, keyboard, iflag, irq, saved, buf, logs>>
-----------------------------------------------------------------------------
(* The logs.  A call on them is one step: interrupts are masked, and the   *)
(* keyboard's handler does not touch them.                                 *)

(* Seeded fault: a full log loses the new byte.                            *)
log_write_newest(p) ==
    /\ At("user")
    /\ wrote[p] < MAX_WROTE
    /\ wrote' = [wrote EXCEPT ![p] = @ + 1]
    /\ log' = [log EXCEPT ![p] = IF Len(@) >= LOG_BUF_CAP THEN @
                                 ELSE Append(@, wrote[p] + 1)]
    /\ UNCHANGED <<keys, keyboard, iflag, irq, pc, saved, buf, seen>>

(* WRITE to fd 1 or 2, log_write: the oldest byte makes room.              *)
log_write(p) ==
    LET kept == IF Len(log[p]) >= LOG_BUF_CAP THEN Tail(log[p]) ELSE log[p]
    IN  /\ At("user")
        /\ wrote[p] < MAX_WROTE
        /\ wrote' = [wrote EXCEPT ![p] = @ + 1]
        /\ log' = [log EXCEPT ![p] = Append(kept, wrote[p] + 1)]
        /\ UNCHANGED <<keys, keyboard, iflag, irq, pc, saved, buf, seen>>

(* LOG_READ, by a holder of a Process capability: up to max bytes leave    *)
(* the log.                                                                *)
log_read(p, max) ==
    LET n == Min({max, Len(log[p])})
    IN  /\ At("user")
        /\ n > 0
        /\ seen' = [seen EXCEPT ![p] = log[p][n]]
        /\ log' = [log EXCEPT ![p] = SubSeq(@, n + 1, Len(@))]
        /\ UNCHANGED <<keys, keyboard, iflag, irq, pc, saved, buf, wrote>>
-----------------------------------------------------------------------------
KernelFlow ==
    \/ read_lock \/ read_take \/ read_unlock \/ enable_and_hlt
    \/ read_nb_lock \/ read_nb_take \/ read_nb_unlock \/ sysret
    \/ self_lock \/ self_push \/ self_unlock
    \/ self_drain_lock \/ self_take \/ self_drained \/ self_check

Next ==
    \/ KernelFlow
    \/ irq_enter
    \/ irq_push
    \/ tick
    \/ \E sc \in Scancodes : key(sc)
    \/ sys_read
    \/ sys_read_nb
    \/ \E p \in Procs : log_write(p)
    \/ \E p \in Procs, max \in 1 .. LOG_BUF_CAP : log_read(p, max)

Spec == Init /\ [][Next]_vars

(* The CPU executes: interrupts come at a finite rate, so the flow below   *)
(* them goes on.  A pending interrupt is taken as soon as the flag is set, *)
(* however briefly that is (strong fairness for both), and the timer       *)
(* ticks.  Nobody need press a key.                                        *)
Fairness ==
    /\ SF_vars(KernelFlow)
    /\ SF_vars(irq_enter) /\ WF_vars(irq_push)
    /\ WF_vars(tick)

FairSpec == Spec /\ Fairness
-----------------------------------------------------------------------------
(* Properties.                                                             *)

Reading == {"read", "drain", "idle", "hlt"}
Selftest == {"self_lock", "self_push", "self_unlock", "self_drain", "self_pop",
             "self_check"}

(* The variables keep their types: the keyboard's, the flags, the logs.    *)
DriverTypes ==
    /\ keys \in Seq(Scancodes)
    /\ ring \in [Index -> Bytes \cup {0}]
    /\ head \in Index /\ tail \in Index
    /\ irq \in Bytes \cup {0, None}
    /\ pc \in Reading \cup Selftest
              \cup {"user", "read_nb", "drain_nb", "return", "panic"}
    /\ buf \in Seq(Bytes)
FlagTypes == lock \in BOOLEAN /\ iflag \in BOOLEAN /\ saved \in BOOLEAN
LogTypes ==
    /\ log \in [Procs -> Seq(Nat)]
    /\ wrote \in [Procs -> Nat] /\ seen \in [Procs -> Nat]
TypeOK == DriverTypes /\ FlagTypes /\ LogTypes

(* "Drain with interrupts off so the IRQ handler can't deadlock against us *)
(* on the buffer lock" (keyboard.rs, read): once the processes run, the    *)
(* handler never finds the lock held by the flow it interrupted, also when *)
(* READ has gone on with interrupts enabled after its first hlt.           *)
HandlerNeverSpins == lock /\ pc \notin Selftest => irq = None /\ ~iflag

(* The bytes in the ring, oldest first.                                    *)
contents == [i \in 1 .. (tail - head) % RING_CAP |-> ring[(head + i - 1) % RING_CAP]]

(* The byte on its way into the ring: the interrupt handler's, between the *)
(* port and the lock, and the self-test's.                                 *)
Sources == {"irq", "selftest"}
incoming ==
    [s \in Sources |->
        IF s = "irq" THEN IF irq \in Bytes THEN irq ELSE None
        ELSE IF pc = "self_push" THEN translate(Min(SelftestCodes)) ELSE None]

(* The ring is the bounded queue of KeyQueue, with room for RING_CAP - 1   *)
(* bytes: what READ gets in its buffer is what was typed, in order, each   *)
(* byte once, and only a byte that comes to a full buffer is dropped.      *)
Queue == INSTANCE KeyQueue WITH queue <- contents, got <- buf,
                                incoming <- incoming, Byte <- Bytes,
                                LIMIT <- RING_CAP - 1, Source <- Sources,
                                None <- None
QueueSpec == Queue!Spec

(* READ returns once a byte is in the buffer or a key with a character is  *)
(* waiting in the controller, although a key whose interrupt comes between *)
(* the drain and hlt does not end that hlt: the next timer tick does.      *)
Typed == ~empty \/ \E i \in DOMAIN keys : translate(keys[i]) # 0
ReadReturns == pc \in Reading /\ Typed ~> pc = "user"

(* A log holds the newest bytes its process wrote, without a gap, and none *)
(* that LOG_READ has already handed out (log_write drops the oldest byte   *)
(* of a full log).                                                         *)
LogIsTail ==
    \A p \in Procs :
        /\ Len(log[p]) <= LOG_BUF_CAP
        /\ \A i \in DOMAIN log[p] : log[p][i] = wrote[p] - Len(log[p]) + i
        /\ seen[p] <= wrote[p] - Len(log[p])
=============================================================================
