----------------------------- MODULE ConsoleProofs -----------------------------
(***************************************************************************)
(* The keyboard buffer and the logs, for any capacity, table of scancodes, *)
(* set of processes and length of the reader's buffer.                     *)
(*                                                                         *)
(* HandlerNeverSpins needs to know who can hold the lock and in which      *)
(* state of the interrupt flag (LockHolders).  That only bytes are handed  *)
(* to a reader needs that the slots in use hold bytes (SlotsFilled).       *)
(***************************************************************************)
EXTENDS Console, WellFoundedInduction, SequenceTheorems, TLAPS

(* The flows that hold the lock of the buffer; those that drain it hold it *)
(* with interrupts masked.                                                 *)
Draining == {"drain", "drain_nb", "self_pop"}
LockHolders ==
    /\ lock <=> pc \in Draining \cup {"self_push", "self_unlock"}
    /\ pc \in Draining => irq = None /\ ~iflag

(* Slot i lies between head and tail.                                      *)
InUse(i) == IF head <= tail THEN head <= i /\ i < tail ELSE head <= i \/ i < tail
SlotsFilled == \A i \in Index : InUse(i) => ring[i] \in Bytes

Inv == TypeOK /\ LockHolders /\ SlotsFilled /\ LogIsTail
-----------------------------------------------------------------------------
(* A nonempty set of naturals has a least element, and Min is it. *)
LEMMA MinIsLeast ==
  ASSUME NEW S, S \subseteq Nat, S # {}
  PROVE  Min(S) \in S /\ \A y \in S : Min(S) <= y
<1>1. PICK x \in S : \A y \in S : ~(<<y, x>> \in OpToRel(<, Nat))
  BY NatLessThanWellFounded, WFMin, Zenon
<1>2. \A y \in S : x <= y
  <2> TAKE y \in S
  <2>1. y \in Nat /\ x \in Nat
    OBVIOUS
  <2>2. ~(y < x)
    BY <1>1, <2>1, Zenon DEF OpToRel
  <2> QED
    BY <2>1, <2>2
<1>3. \E z \in S : \A y \in S : z <= y
  BY <1>2
<1> QED
  BY <1>3 DEF Min

(* The index after i (Ring::push, Ring::pop). *)
LEMMA NextIndex ==
  ASSUME NEW i \in Index
  PROVE  /\ (i + 1) % RING_CAP = IF i + 1 = RING_CAP THEN 0 ELSE i + 1
         /\ (i + 1) % RING_CAP \in Index
<1>1. RING_CAP \in Nat \ {0} /\ RING_CAP > 1 /\ i \in 0 .. RING_CAP - 1
  BY ConsoleAssumption DEF Index
<1>2. CASE i + 1 = RING_CAP
  BY <1>1, <1>2 DEF Index
<1>3. CASE i + 1 # RING_CAP
  <2>1. i + 1 \in 0 .. RING_CAP - 1
    BY <1>1, <1>3
  <2>2. (i + 1) % RING_CAP = i + 1
    BY <1>1, <2>1
  <2> QED BY <1>3, <2>1, <2>2 DEF Index
<1> QED BY <1>2, <1>3

(* What a scancode is translated to is a byte or nothing. *)
LEMMA TranslateType ==
  ASSUME NEW sc
  PROVE  translate(sc) \in Bytes \cup {0}
  BY DEF translate, Bytes

(* The self-test's scancode has a character. *)
LEMMA SelftestByte == translate(Min(SelftestCodes)) \in Bytes
<1>1. SelftestCodes \subseteq Nat /\ SelftestCodes # {}
  BY ConsoleAssumption DEF SelftestCodes
<1>2. Min(SelftestCodes) \in SelftestCodes
  BY <1>1, MinIsLeast
<1> QED BY <1>2 DEF SelftestCodes, translate, Bytes

(* Bytes are numbers, and none is 0 or None. *)
LEMMA BytesAreNumbers == Bytes \subseteq Nat \ {0}
  BY ConsoleAssumption DEF Bytes
-----------------------------------------------------------------------------
(* The initial state satisfies the inductive invariant. *)
LEMMA InitInv == Init => Inv
<1> SUFFICES ASSUME Init PROVE Inv
  OBVIOUS
<1>1. DriverTypes
  BY ConsoleAssumption DEF Init, DriverTypes, Index, Reading, Selftest
<1>2. LogTypes /\ FlagTypes
  <2>1. LogTypes
    BY DEF Init, LogTypes
  <2>2. FlagTypes
    BY Zenon DEF Init, FlagTypes
  <2> QED BY <2>1, <2>2
<1>3. LockHolders
  BY DEF Init, LockHolders, Draining
<1>4. SlotsFilled
  BY DEF Init, SlotsFilled, InUse, Index
<1>5. LogIsTail
  BY ConsoleAssumption DEF Init, LogIsTail
<1> QED
  BY <1>1, <1>2, <1>3, <1>4, <1>5 DEF Inv, TypeOK

(* Ring::push keeps the slots in use filled with bytes. *)
LEMMA PushKeeps ==
  ASSUME DriverTypes, SlotsFilled, NEW b \in Bytes, push(b), head' = head
  PROVE  /\ ring' \in [Index -> Bytes \cup {0}] /\ tail' \in Index
         /\ SlotsFilled'
<1>1. ring \in [Index -> Bytes \cup {0}] /\ head \in Index /\ tail \in Index
  BY DEF DriverTypes
<1>2. CASE UNCHANGED <<ring, tail>>
  BY <1>1, <1>2 DEF SlotsFilled, InUse
<1>3. CASE ~(UNCHANGED <<ring, tail>>)
  <2>1. /\ ring' = [ring EXCEPT ![tail] = b]
        /\ tail' = (tail + 1) % RING_CAP
        /\ tail' # head
    BY <1>3 DEF push
  <2>2. tail' = (IF tail + 1 = RING_CAP THEN 0 ELSE tail + 1) /\ tail' \in Index
    BY <1>1, <2>1, NextIndex
  <2>3. ring' \in [Index -> Bytes \cup {0}]
    BY <1>1, <2>1
  <2>4. ASSUME NEW i \in Index, InUse(i)' PROVE ring'[i] \in Bytes
    <3>1. i = tail \/ InUse(i)
      BY <1>1, <2>1, <2>2, <2>4, ConsoleAssumption DEF InUse, Index
    <3> QED
      BY <1>1, <2>1, <3>1 DEF SlotsFilled
  <2>5. SlotsFilled'
    BY <2>4 DEF SlotsFilled, InUse, Index
  <2> QED
    BY <2>2, <2>3, <2>5
<1> QED
  BY <1>2, <1>3

(* Ring::pop of a buffer that is not empty returns a byte. *)
LEMMA PopKeeps ==
  ASSUME DriverTypes, SlotsFilled, ~empty, pop, UNCHANGED <<ring, tail>>
  PROVE  head' \in Index /\ SlotsFilled' /\ ring[head] \in Bytes
<1>1. head \in Index /\ tail \in Index /\ head # tail
  BY DEF DriverTypes, empty
<1>2. head' = (IF head + 1 = RING_CAP THEN 0 ELSE head + 1) /\ head' \in Index
  BY <1>1, NextIndex DEF pop
<1>3. ring[head] \in Bytes
  BY <1>1, ConsoleAssumption DEF SlotsFilled, InUse, Index
<1>4. ASSUME NEW i \in Index, InUse(i)' PROVE ring'[i] \in Bytes
  <2>1. InUse(i)
    BY <1>1, <1>2, <1>4, ConsoleAssumption DEF InUse, Index
  <2> QED
    BY <2>1 DEF SlotsFilled
<1>5. SlotsFilled'
  BY <1>4 DEF SlotsFilled, InUse, Index
<1> QED
  BY <1>2, <1>3, <1>5

(* What leaves the ring alone keeps its slots, and what leaves the logs    *)
(* alone keeps them.                                                       *)
LEMMA RingUntouched ==
  ASSUME SlotsFilled, UNCHANGED <<ring, head, tail>>
  PROVE  SlotsFilled'
  BY DEF SlotsFilled, InUse

(* A step that touches no log keeps its agreement with what was written. *)
LEMMA LogsUntouched ==
  ASSUME LogIsTail, UNCHANGED logs
  PROVE  LogIsTail'
  BY DEF LogIsTail, logs

(* WRITE appends the next byte and drops at most the oldest. *)
LEMMA LogWriteKeeps ==
  ASSUME LogTypes, LogIsTail, NEW p \in Procs, log_write(p)
  PROVE  LogTypes' /\ LogIsTail'
<1> DEFINE old == log[p]
           kept == IF Len(old) >= LOG_BUF_CAP THEN Tail(old) ELSE old
<1>1. /\ old \in Seq(Nat) /\ wrote[p] \in Nat /\ seen[p] \in Nat
      /\ Len(old) \in Nat /\ Len(old) <= LOG_BUF_CAP /\ seen[p] <= wrote[p] - Len(old)
      /\ \A i \in 1 .. Len(old) : old[i] = wrote[p] - Len(old) + i
  BY DEF LogTypes, LogIsTail
<1>2. /\ kept \in Seq(Nat) /\ Len(kept) \in Nat
      /\ Len(kept) < LOG_BUF_CAP /\ Len(kept) <= Len(old)
      /\ \A i \in 1 .. Len(kept) : kept[i] = wrote[p] - Len(kept) + i
  <2>1. CASE Len(old) >= LOG_BUF_CAP
    <3>1. old # <<>> /\ Len(old) = LOG_BUF_CAP
      BY <1>1, <2>1, ConsoleAssumption
    <3>2. /\ Tail(old) \in Seq(Nat) /\ Len(Tail(old)) = Len(old) - 1
          /\ \A i \in 1 .. Len(old) - 1 : Tail(old)[i] = old[i + 1]
      BY <1>1, <3>1
    <3>3. kept = Tail(old)
      BY <2>1
    <3> HIDE DEF kept, old
    <3>4. /\ kept \in Seq(Nat) /\ Len(kept) = Len(old) - 1 /\ Len(old) \in Nat \ {0}
          /\ Len(old) = LOG_BUF_CAP
      BY <1>1, <3>1, <3>2, <3>3, ConsoleAssumption
    <3>5. ASSUME NEW i \in 1 .. Len(kept) PROVE kept[i] = wrote[p] - Len(kept) + i
      <4>1. i + 1 \in 1 .. Len(old) /\ kept[i] = old[i + 1]
        BY <3>2, <3>3, <3>4
      <4>2. old[i + 1] = wrote[p] - Len(old) + (i + 1)
        BY <1>1, <4>1
      <4>3. wrote[p] \in Int /\ Len(old) \in Int /\ i \in Int /\ Len(kept) = Len(old) - 1
        BY <1>1, <3>4
      <4> QED BY <4>1, <4>2, <4>3, SMTT(60)
    <3> QED BY <3>4, <3>5
  <2>2. CASE ~(Len(old) >= LOG_BUF_CAP)
    BY <1>1, <2>2, ConsoleAssumption
  <2> QED BY <2>1, <2>2
<1> DEFINE new == Append(kept, wrote[p] + 1)
<1>3. /\ new \in Seq(Nat) /\ Len(new) = Len(kept) + 1
      /\ \A i \in 1 .. Len(new) : new[i] = (wrote[p] + 1) - Len(new) + i
  <2>1. /\ new \in Seq(Nat) /\ Len(new) = Len(kept) + 1
        /\ new[Len(kept) + 1] = wrote[p] + 1
        /\ \A i \in 1 .. Len(kept) : new[i] = kept[i]
    BY <1>1, <1>2, SMTT(60)
  <2> HIDE DEF new, kept, old
  <2>2. ASSUME NEW i \in 1 .. Len(new) PROVE new[i] = (wrote[p] + 1) - Len(new) + i
    <3>1. CASE i = Len(kept) + 1
      BY <1>1, <1>2, <2>1, <3>1
    <3>2. CASE i # Len(kept) + 1
      <4>1. i \in 1 .. Len(kept)
        BY <1>2, <2>1, <3>2
      <4>2. new[i] = wrote[p] - Len(kept) + i
        BY <1>2, <2>1, <4>1
      <4>3. /\ wrote[p] \in Int /\ Len(kept) \in Int /\ i \in Int
            /\ Len(new) = Len(kept) + 1
        BY <1>1, <1>2, <2>1
      <4> QED BY <4>2, <4>3
    <3> QED BY <3>1, <3>2
  <2> QED BY <2>1, <2>2
<1>4. /\ log' = [log EXCEPT ![p] = new]
      /\ wrote' = [wrote EXCEPT ![p] = wrote[p] + 1]
      /\ seen' = seen
  BY DEF log_write
<1>5. LogTypes'
  <2> HIDE DEF new
  <2> QED BY <1>1, <1>3, <1>4 DEF LogTypes
<1>6. ASSUME NEW q \in Procs
      PROVE  /\ Len(log'[q]) <= LOG_BUF_CAP
             /\ \A i \in DOMAIN log'[q] : log'[q][i] = wrote'[q] - Len(log'[q]) + i
             /\ seen'[q] <= wrote'[q] - Len(log'[q])
  <2>1. CASE q = p
    <3>1. log'[q] = new /\ wrote'[q] = wrote[p] + 1 /\ seen'[q] = seen[p]
      BY <1>4, <2>1 DEF LogTypes
    <3>2. DOMAIN new = 1 .. Len(new)
      BY <1>3
    <3> HIDE DEF new, kept, old
    <3>3. Len(new) \in Nat /\ Len(new) <= LOG_BUF_CAP /\ Len(new) <= Len(old) + 1
      BY <1>1, <1>2, <1>3, ConsoleAssumption
    <3>4. seen'[q] <= wrote'[q] - Len(log'[q])
      BY <1>1, <3>1, <3>3
    <3>5. \A i \in DOMAIN new : new[i] = (wrote[p] + 1) - Len(new) + i
      BY <1>3, <3>2
    <3>6. \A i \in DOMAIN log'[q] : log'[q][i] = wrote'[q] - Len(log'[q]) + i
      BY <3>1, <3>5, Zenon
    <3> QED BY <3>1, <3>3, <3>4, <3>6
  <2>2. CASE q # p
    <3>1. log'[q] = log[q] /\ wrote'[q] = wrote[q] /\ seen'[q] = seen[q]
      BY <1>4, <2>2 DEF LogTypes
    <3> QED BY <3>1 DEF LogIsTail
  <2> QED BY <2>1, <2>2
<1> QED
  BY <1>5, <1>6 DEF LogIsTail

(* LOG_READ takes bytes from the front. *)
LEMMA LogReadKeeps ==
  ASSUME LogTypes, LogIsTail, NEW p \in Procs, NEW max \in 1 .. LOG_BUF_CAP,
         log_read(p, max)
  PROVE  LogTypes' /\ LogIsTail'
<1> DEFINE old == log[p]
           n == Min({max, Len(old)})
           new == SubSeq(old, n + 1, Len(old))
<1>1. /\ old \in Seq(Nat) /\ wrote[p] \in Nat /\ seen[p] \in Nat
      /\ Len(old) \in Nat /\ Len(old) <= LOG_BUF_CAP /\ seen[p] <= wrote[p] - Len(old)
      /\ \A i \in 1 .. Len(old) : old[i] = wrote[p] - Len(old) + i
  BY DEF LogTypes, LogIsTail
<1>2. n \in 1 .. Len(old)
  <2>1. {max, Len(old)} \subseteq Nat /\ {max, Len(old)} # {}
    BY <1>1, ConsoleAssumption
  <2>2. n \in {max, Len(old)} /\ n <= Len(old)
    BY <2>1, MinIsLeast
  <2>3. n > 0
    BY DEF log_read
  <2>4. n \in Nat
    BY <2>1, <2>2
  <2> QED BY <1>1, <2>2, <2>3, <2>4
<1>3. /\ new \in Seq(Nat) /\ Len(new) = Len(old) - n
      /\ \A i \in 1 .. Len(new) : new[i] = old[i + n]
  <2> HIDE DEF n, old
  <2> QED BY <1>1, <1>2, SMTT(60)
<1>4. /\ log' = [log EXCEPT ![p] = new]
      /\ seen' = [seen EXCEPT ![p] = old[n]]
      /\ wrote' = wrote
  BY DEF log_read
<1>5. old[n] \in Nat
  <2> HIDE DEF n, old
  <2> QED BY <1>1, <1>2
<1>6. LogTypes'
  <2> HIDE DEF new, n
  <2> QED BY <1>1, <1>3, <1>4, <1>5 DEF LogTypes
<1>7. ASSUME NEW q \in Procs
      PROVE  /\ Len(log'[q]) <= LOG_BUF_CAP
             /\ \A i \in DOMAIN log'[q] : log'[q][i] = wrote'[q] - Len(log'[q]) + i
             /\ seen'[q] <= wrote'[q] - Len(log'[q])
  <2>1. CASE q = p
    <3>1. log'[q] = new /\ wrote'[q] = wrote[p] /\ seen'[q] = old[n]
      BY <1>4, <2>1 DEF LogTypes
    <3>2. DOMAIN new = 1 .. Len(new)
      BY <1>3
    <3> HIDE DEF new, n, old
    <3>3. Len(new) \in Nat /\ Len(new) <= LOG_BUF_CAP
      BY <1>1, <1>2, <1>3, ConsoleAssumption
    <3>4. ASSUME NEW i \in 1 .. Len(new) PROVE new[i] = wrote[p] - Len(new) + i
      <4>1. i + n \in 1 .. Len(old) /\ new[i] = old[i + n]
        BY <1>1, <1>2, <1>3
      <4>2. old[i + n] = wrote[p] - Len(old) + (i + n)
        BY <1>1, <4>1
      <4>3. i \in Int /\ n \in Int /\ Len(new) = Len(old) - n
        BY <1>1, <1>2, <1>3
      <4> QED BY <1>1, <4>1, <4>2, <4>3
    <3> QED BY <1>1, <1>2, <1>3, <3>1, <3>2, <3>3, <3>4, SMTT(60)
  <2>2. CASE q # p
    <3>1. log'[q] = log[q] /\ wrote'[q] = wrote[q] /\ seen'[q] = seen[q]
      BY <1>4, <2>2 DEF LogTypes
    <3> QED BY <3>1 DEF LogIsTail
  <2> QED BY <2>1, <2>2
<1> QED
  BY <1>6, <1>7 DEF LogIsTail
-----------------------------------------------------------------------------
(* The flows that share a shape: taking the lock with interrupts masked,   *)
(* taking a byte out under it, and giving it back.                         *)
FlowTypes == DriverTypes /\ FlagTypes /\ LockHolders /\ SlotsFilled

(* Taking the lock of the ring, with interrupts masked, keeps the driver's
   invariants. *)
LEMMA LockKeeps ==
  ASSUME FlowTypes, NEW from, NEW to \in Draining, lock_masked(from, to)
  PROVE  FlowTypes'
<1> USE DEF FlowTypes, lock_masked, At
<1>1. DriverTypes'
  BY DEF DriverTypes, Draining, Reading, Selftest
<1>2. FlagTypes'
  BY Zenon DEF FlagTypes
<1>3. LockHolders'
  BY DEF LockHolders
<1>4. SlotsFilled'
  BY RingUntouched
<1> QED
  BY <1>1, <1>2, <1>3, <1>4

(* Popping a byte under the lock keeps them. *)
LEMMA TakeKeeps ==
  ASSUME FlowTypes, NEW l \in Draining, NEW room, take(l, room)
  PROVE  FlowTypes'
<1> USE DEF FlowTypes, take
<1>1. head' \in Index /\ SlotsFilled' /\ ring[head] \in Bytes
  BY PopKeeps
<1>2. DriverTypes'
  BY <1>1 DEF DriverTypes
<1>3. FlagTypes' /\ LockHolders'
  BY DEF FlagTypes, LockHolders
<1> QED
  BY <1>1, <1>2, <1>3

(* Giving the lock back keeps them. *)
LEMMA UnlockKeeps ==
  ASSUME FlowTypes, NEW l \in Draining, NEW room,
         NEW to \in {"idle", "return", "self_check"}, unlock(l, room, to)
  PROVE  FlowTypes'
<1> USE DEF FlowTypes, unlock
<1>1. DriverTypes'
  BY DEF DriverTypes, Reading, Selftest
<1>2. FlagTypes'
  BY Zenon DEF FlagTypes
<1>3. LockHolders'
  BY DEF LockHolders, Draining
<1>4. SlotsFilled'
  BY RingUntouched
<1> QED
  BY <1>1, <1>2, <1>3, <1>4

(* Every step keeps the driver's part of the invariant. *)
LEMMA FlowStep ==
  ASSUME FlowTypes, Next
  PROVE  FlowTypes'
<1> USE DEF FlowTypes
<1>1. CASE read_lock \/ read_nb_lock \/ self_drain_lock
  BY <1>1, LockKeeps DEF read_lock, read_nb_lock, self_drain_lock, Draining
<1>2. CASE read_take \/ read_nb_take \/ self_take
  BY <1>2, TakeKeeps DEF read_take, read_nb_take, self_take, Draining
<1>3. CASE read_unlock \/ read_nb_unlock \/ self_drained
  BY <1>3, UnlockKeeps DEF read_unlock, read_nb_unlock, self_drained, Draining
<1>4. CASE enable_and_hlt
  <2> USE <1>4 DEF enable_and_hlt, At
  <2>1. DriverTypes' /\ LockHolders' /\ SlotsFilled'
    BY RingUntouched DEF DriverTypes, LockHolders, Draining, Reading, keyboard
  <2>2. FlagTypes'
    BY Zenon DEF FlagTypes, keyboard
  <2> QED BY <2>1, <2>2
<1>5. CASE sys_read \/ sys_read_nb
  <2> USE <1>5 DEF sys_read, sys_read_nb, At
  <2>1. DriverTypes'
    <3>1. buf' = <<>> /\ (pc' = "read" \/ pc' = "read_nb")
      BY Zenon
    <3>2. <<>> \in Seq(Bytes)
      OBVIOUS
    <3> QED BY <3>1, <3>2 DEF DriverTypes, Reading, keyboard
  <2>2. FlagTypes'
    BY Zenon DEF FlagTypes, keyboard
  <2>3. LockHolders' /\ SlotsFilled'
    BY RingUntouched DEF LockHolders, Draining, keyboard
  <2> QED BY <2>1, <2>2, <2>3
<1>6. CASE sysret
  <2> USE <1>6 DEF sysret, At
  <2>1. DriverTypes' /\ LockHolders' /\ SlotsFilled'
    BY RingUntouched DEF DriverTypes, LockHolders, Draining, keyboard
  <2>2. FlagTypes'
    BY Zenon DEF FlagTypes, keyboard
  <2> QED BY <2>1, <2>2
<1>7. CASE self_lock \/ self_unlock
  <2> USE <1>7 DEF self_lock, self_unlock, At
  <2>1. DriverTypes' /\ SlotsFilled'
    BY RingUntouched DEF DriverTypes, Selftest
  <2>2. FlagTypes'
    BY Zenon DEF FlagTypes
  <2>3. LockHolders'
    BY DEF LockHolders, Draining
  <2> QED BY <2>1, <2>2, <2>3
<1>8. CASE self_push
  <2> USE <1>8 DEF self_push, At
  <2>1. /\ ring' \in [Index -> Bytes \cup {0}] /\ tail' \in Index
        /\ SlotsFilled'
    BY SelftestByte, PushKeeps
  <2>2. DriverTypes'
    BY <2>1 DEF DriverTypes, Selftest
  <2>3. FlagTypes' /\ LockHolders'
    BY DEF FlagTypes, LockHolders, Draining
  <2> QED BY <2>1, <2>2, <2>3
<1>9. CASE self_check
  <2> USE <1>9 DEF self_check, At
  <2>1. DriverTypes' /\ FlagTypes' /\ SlotsFilled'
    BY RingUntouched DEF DriverTypes, FlagTypes, keyboard
  <2>2. LockHolders'
    BY DEF LockHolders, Draining, keyboard
  <2> QED BY <2>1, <2>2
<1>10. CASE irq_enter
  <2> USE <1>10 DEF irq_enter
  <2>1. irq' \in Bytes \cup {0, None}
    BY TranslateType
  <2>2. DriverTypes' /\ SlotsFilled'
    BY <2>1, RingUntouched DEF DriverTypes, keyboard
  <2>3. FlagTypes'
    BY Zenon DEF FlagTypes, keyboard
  <2>4. LockHolders'
    BY DEF LockHolders, keyboard
  <2> QED BY <2>2, <2>3, <2>4
<1>11. CASE irq_push
  <2> USE <1>11 DEF irq_push, resume
  <2>1. /\ ring' \in [Index -> Bytes \cup {0}] /\ tail' \in Index
        /\ SlotsFilled'
    <3>1. CASE irq = 0
      BY <3>1, RingUntouched DEF DriverTypes
    <3>2. CASE irq # 0
      BY <3>2, PushKeeps DEF DriverTypes
    <3> QED BY <3>1, <3>2
  <2>2. DriverTypes'
    BY <2>1 DEF DriverTypes, Reading
  <2>3. FlagTypes'
    BY Zenon DEF FlagTypes
  <2>4. LockHolders'
    BY DEF LockHolders, Draining
  <2> QED BY <2>1, <2>2, <2>3, <2>4
<1>12. CASE tick
  <2> USE <1>12 DEF tick, resume
  <2>1. DriverTypes' /\ SlotsFilled'
    BY RingUntouched DEF DriverTypes, keyboard, Reading
  <2>2. FlagTypes' /\ LockHolders'
    BY DEF FlagTypes, LockHolders, Draining, keyboard
  <2> QED BY <2>1, <2>2
<1>13. ASSUME NEW sc \in Scancodes, key(sc) PROVE FlowTypes'
  <2> USE <1>13 DEF key
  <2>1. DriverTypes' /\ SlotsFilled'
    BY RingUntouched DEF DriverTypes, keyboard
  <2>2. FlagTypes' /\ LockHolders'
    BY DEF FlagTypes, LockHolders, keyboard
  <2> QED BY <2>1, <2>2
<1>14. ASSUME NEW p \in Procs,
              log_write(p) \/ \E max \in 1 .. LOG_BUF_CAP : log_read(p, max)
       PROVE  FlowTypes'
  <2>1. UNCHANGED <<keys, keyboard, iflag, irq, pc, saved, buf>>
    BY <1>14 DEF log_write, log_read
  <2> QED
    BY <2>1, RingUntouched DEF DriverTypes, FlagTypes, LockHolders, keyboard
<1> QED
  BY <1>1, <1>2, <1>3, <1>4, <1>5, <1>6, <1>7, <1>8, <1>9, <1>10, <1>11, <1>12,
     <1>13, <1>14 DEF Next, KernelFlow
-----------------------------------------------------------------------------
(* Every step preserves the inductive invariant. *)
LEMMA StepInv == Inv /\ [Next]_vars => Inv'
<1> SUFFICES ASSUME Inv, [Next]_vars PROVE Inv'
  OBVIOUS
<1>1. CASE UNCHANGED vars
  <2>1. UNCHANGED <<keys, ring, head, tail, lock, iflag, irq, pc, saved, buf>>
        /\ UNCHANGED logs
    BY <1>1 DEF vars, keyboard
  <2>2. SlotsFilled' /\ LogIsTail'
    BY <2>1, RingUntouched, LogsUntouched DEF Inv
  <2>3. DriverTypes' /\ FlagTypes' /\ LockHolders'
    BY <2>1 DEF Inv, TypeOK, DriverTypes, FlagTypes, LockHolders
  <2>4. LogTypes'
    BY <2>1 DEF Inv, TypeOK, LogTypes, logs
  <2> QED BY <2>2, <2>3, <2>4 DEF Inv, TypeOK
<1>2. CASE Next
  <2>1. FlowTypes'
    BY <1>2, FlowStep DEF Inv, TypeOK, FlowTypes
  <2>2. LogTypes' /\ LogIsTail'
    <3>1. ASSUME NEW p \in Procs, log_write(p) PROVE LogTypes' /\ LogIsTail'
      BY <3>1, LogWriteKeeps DEF Inv, TypeOK
    <3>2. ASSUME NEW p \in Procs, NEW max \in 1 .. LOG_BUF_CAP, log_read(p, max)
          PROVE  LogTypes' /\ LogIsTail'
      BY <3>2, LogReadKeeps DEF Inv, TypeOK
    <3>3. CASE UNCHANGED logs
      <4>1. LogTypes'
        BY <3>3 DEF Inv, TypeOK, LogTypes, logs
      <4> QED BY <3>3, <4>1, LogsUntouched DEF Inv
    <3>4. \/ UNCHANGED logs
          \/ \E p \in Procs : log_write(p)
          \/ \E p \in Procs, max \in 1 .. LOG_BUF_CAP : log_read(p, max)
      BY <1>2, Zenon
         DEF Next, KernelFlow, read_lock, read_take, read_unlock, enable_and_hlt,
             read_nb_lock, read_nb_take, read_nb_unlock, sysret, self_lock, self_push,
             self_unlock, self_drain_lock, self_take, self_drained, self_check,
             lock_masked, take, unlock, irq_enter, irq_push, tick, key, sys_read,
             sys_read_nb
    <3> QED BY <3>1, <3>2, <3>3, <3>4
  <2> QED BY <2>1, <2>2 DEF Inv, TypeOK, FlowTypes
<1> QED
  BY <1>1, <1>2

(* The variables of the keyboard driver and of the logs keep their types; a *)
(* reader is only ever given bytes that were typed (read, read_nb).        *)
THEOREM ConsoleTypes == Spec => []TypeOK
  BY InitInv, StepInv, PTL DEF Spec, Inv

(* The invariant's LockHolders gives HandlerNeverSpins. *)
LEMMA InvHandler == Inv => HandlerNeverSpins
  BY DEF Inv, LockHolders, HandlerNeverSpins, Draining, Selftest

(* After the self-test the interrupt handler never waits for a lock that   *)
(* the code it interrupted holds (keyboard.rs: irq_handler, read, read_nb, *)
(* enable_and_hlt).                                                        *)
THEOREM NoSpinInHandler == Spec => []HandlerNeverSpins
  BY InitInv, StepInv, InvHandler, PTL DEF Spec

(* A log holds the newest bytes written, without a gap and without what    *)
(* LOG_READ handed out (process.rs: log_write, log_read).                  *)
THEOREM LogsHoldTheTail == Spec => []LogIsTail
  BY InitInv, StepInv, PTL DEF Spec, Inv
-----------------------------------------------------------------------------
(* The ring implements the bounded queue.                                  *)

(* The number of bytes in the ring. *)
LEMMA RingSize ==
  ASSUME NEW h \in Index, NEW t \in Index
  PROVE  (t - h) % RING_CAP = IF h <= t THEN t - h ELSE t - h + RING_CAP
<1>1. RING_CAP \in Nat \ {0} /\ h \in 0 .. RING_CAP - 1 /\ t \in 0 .. RING_CAP - 1
  BY ConsoleAssumption DEF Index
<1>2. CASE h <= t
  <2>1. t - h \in 0 .. RING_CAP - 1
    BY <1>1, <1>2
  <2> QED BY <1>1, <1>2, <2>1
<1>3. CASE ~(h <= t)
  <2>1. PICK d \in 0 .. RING_CAP - 1 : d = t - h + RING_CAP
    BY <1>1, <1>3
  <2>2. t - h = d - RING_CAP /\ (d - RING_CAP) % RING_CAP = d
    BY <1>1, <2>1
  <2> QED BY <1>1, <1>3, <2>1, <2>2
<1> QED BY <1>2, <1>3

(* The slot of the i-th byte. *)
LEMMA RingSlot ==
  ASSUME NEW h \in Index, NEW i \in 1 .. RING_CAP
  PROVE  /\ (h + i - 1) % RING_CAP
              = IF h + i - 1 < RING_CAP THEN h + i - 1 ELSE h + i - 1 - RING_CAP
         /\ (h + i - 1) % RING_CAP \in Index
<1>1. RING_CAP \in Nat \ {0} /\ h \in 0 .. RING_CAP - 1 /\ i \in 1 .. RING_CAP
  BY ConsoleAssumption DEF Index
<1>2. CASE h + i - 1 < RING_CAP
  <2>1. h + i - 1 \in 0 .. RING_CAP - 1
    BY <1>1, <1>2
  <2> QED BY <1>1, <1>2, <2>1 DEF Index
<1>3. CASE ~(h + i - 1 < RING_CAP)
  <2>1. PICK d \in 0 .. RING_CAP - 1 : d = h + i - 1 - RING_CAP
    BY <1>1, <1>3
  <2>2. h + i - 1 = d + RING_CAP /\ (d + RING_CAP) % RING_CAP = d
    BY <1>1, <2>1
  <2> QED BY <1>1, <1>3, <2>1, <2>2 DEF Index
<1> QED BY <1>2, <1>3

(* The contents of a ring r from h to t, and their length.                 *)
Held(r, h, t) == [i \in 1 .. (t - h) % RING_CAP |-> r[(h + i - 1) % RING_CAP]]
Slots == [Index -> Bytes \cup {0}]

(* What the ring holds, read from head to tail, is a sequence shorter than
   the ring. *)
LEMMA HeldIsSequence ==
  ASSUME NEW r \in Slots, NEW h \in Index, NEW t \in Index
  PROVE  /\ Held(r, h, t) \in Seq(Bytes \cup {0})
         /\ Len(Held(r, h, t)) = (t - h) % RING_CAP
         /\ Len(Held(r, h, t)) \in 0 .. RING_CAP - 1
         /\ \A i \in 1 .. Len(Held(r, h, t)) :
               Held(r, h, t)[i] = r[(h + i - 1) % RING_CAP]
<1>1. RING_CAP \in Nat \ {0} /\ h \in 0 .. RING_CAP - 1 /\ t \in 0 .. RING_CAP - 1
  BY ConsoleAssumption DEF Index
<1>2. (t - h) % RING_CAP \in 0 .. RING_CAP - 1
  BY <1>1, RingSize
<1>3. ASSUME NEW i \in 1 .. (t - h) % RING_CAP
      PROVE  r[(h + i - 1) % RING_CAP] \in Bytes \cup {0}
  <2>1. i \in 1 .. RING_CAP
    BY <1>1, <1>2
  <2>2. (h + i - 1) % RING_CAP \in Index
    BY <2>1, RingSlot
  <2> QED BY <2>2 DEF Slots
<1> DEFINE n == (t - h) % RING_CAP
           f(i) == r[(h + i - 1) % RING_CAP]
<1>4. n \in Nat /\ \A i \in 1 .. n : f(i) \in Bytes \cup {0}
  BY <1>1, <1>2, <1>3
<1>5. Held(r, h, t) = [i \in 1 .. n |-> f(i)]
  BY DEF Held
<1> HIDE DEF n, f
<1>6. /\ [i \in 1 .. n |-> f(i)] \in Seq(Bytes \cup {0})
      /\ Len([i \in 1 .. n |-> f(i)]) = n
      /\ \A i \in 1 .. n : [j \in 1 .. n |-> f(j)][i] = f(i)
  BY <1>4
<1> USE DEF n, f
<1> QED BY <1>2, <1>5, <1>6

(* Ring::push appends to the contents, or drops the byte at a full ring. *)
LEMMA HeldPush ==
  ASSUME DriverTypes, NEW b \in Bytes, push(b), head' = head
  PROVE  contents' = IF Len(contents) < RING_CAP - 1 THEN Append(contents, b)
                                                     ELSE contents
<1>1. ring \in Slots /\ head \in Index /\ tail \in Index
  BY DEF DriverTypes, Slots
<1>2. contents = Held(ring, head, tail) /\ contents' = Held(ring', head', tail')
  BY DEF contents, Held
<1>3. RING_CAP \in Nat /\ RING_CAP > 1 /\ head \in 0 .. RING_CAP - 1
      /\ tail \in 0 .. RING_CAP - 1
  BY <1>1, ConsoleAssumption DEF Index
<1> DEFINE next == (tail + 1) % RING_CAP
           size == (tail - head) % RING_CAP
<1>4. next = (IF tail + 1 = RING_CAP THEN 0 ELSE tail + 1) /\ next \in Index
  BY <1>1, NextIndex
<1>5. size = IF head <= tail THEN tail - head ELSE tail - head + RING_CAP
  BY <1>1, RingSize
<1>6. Len(contents) = size
  BY <1>1, <1>2, HeldIsSequence
<1>7. next = head <=> ~(size < RING_CAP - 1)
  <2> HIDE DEF next, size
  <2> QED BY <1>3, <1>4, <1>5
<1>8. CASE next = head
  <2>1. UNCHANGED <<ring, tail>>
    BY <1>8 DEF push
  <2> QED BY <1>2, <1>6, <1>7, <1>8, <2>1
<1>9. CASE next # head
  <2>1. ring' = [ring EXCEPT ![tail] = b] /\ tail' = next
    BY <1>9 DEF push
  <2>2. ring' \in Slots /\ tail' \in Index /\ head' \in Index
    BY <1>1, <1>4, <2>1 DEF Slots
  <2>3. (tail' - head') % RING_CAP = size + 1
    <3>1. (next - head) % RING_CAP
             = IF head <= next THEN next - head ELSE next - head + RING_CAP
      BY <1>1, <1>4, RingSize
    <3>2. (next - head) % RING_CAP = size + 1
      <4> HIDE DEF next, size
      <4> QED BY <1>3, <1>4, <1>5, <1>9, <3>1
    <3> QED BY <2>1, <3>2
  <2>4. /\ contents' \in Seq(Bytes \cup {0})
        /\ Len(contents') = size + 1
        /\ \A i \in 1 .. Len(contents') : contents'[i] = ring'[(head' + i - 1) % RING_CAP]
    BY <1>2, <2>2, <2>3, HeldIsSequence
  <2>5. /\ contents \in Seq(Bytes \cup {0})
        /\ \A i \in 1 .. Len(contents) : contents[i] = ring[(head + i - 1) % RING_CAP]
    BY <1>1, <1>2, HeldIsSequence
  <2>6. size \in 0 .. RING_CAP - 2
    <3> HIDE DEF next, size
    <3> QED BY <1>3, <1>4, <1>5, <1>7, <1>9
  <2>7. /\ Append(contents, b) \in Seq(Bytes \cup {0})
        /\ Len(Append(contents, b)) = size + 1
        /\ \A i \in 1 .. size : Append(contents, b)[i] = contents[i]
        /\ Append(contents, b)[size + 1] = b
    <3>1. b \in Bytes \cup {0}
      OBVIOUS
    <3> HIDE DEF size
    <3> QED BY <1>6, <2>5, <3>1, AppendProperties
  <2>8. ASSUME NEW i \in 1 .. size + 1
        PROVE  contents'[i] = Append(contents, b)[i]
    <3>1. i \in 1 .. RING_CAP /\ contents'[i] = ring'[(head + i - 1) % RING_CAP]
      <4> HIDE DEF size
      <4> QED BY <1>3, <2>4, <2>6
    <3>2. /\ (head + i - 1) % RING_CAP = IF head + i - 1 < RING_CAP THEN head + i - 1
                                           ELSE head + i - 1 - RING_CAP
          /\ (head + i - 1) % RING_CAP \in Index
      BY <1>1, <3>1, RingSlot
    <3> DEFINE slot == (head + i - 1) % RING_CAP
    <3>3. slot = tail <=> i = size + 1
      <4>1. slot = (IF head + i - 1 < RING_CAP THEN head + i - 1
                    ELSE head + i - 1 - RING_CAP)
        BY <3>2
      <4> HIDE DEF slot, size
      <4> QED BY <1>3, <1>5, <2>6, <4>1
    <3>4. CASE i = size + 1
      BY <1>1, <2>1, <2>7, <3>1, <3>3, <3>4 DEF Slots
    <3>5. CASE i # size + 1
      <4>1. i \in 1 .. size
        <5> HIDE DEF size
        <5> QED BY <2>6, <3>5
      <4>2. Append(contents, b)[i] = ring[slot]
        BY <1>6, <2>5, <2>7, <4>1
      <4>3. ring'[slot] = ring[slot]
        BY <1>1, <2>1, <3>2, <3>3, <3>5 DEF Slots
      <4> QED BY <3>1, <4>2, <4>3
    <3> QED BY <3>4, <3>5
  <2>9. contents' = Append(contents, b)
    <3> HIDE DEF size
    <3> QED BY <2>4, <2>7, <2>8, SeqEqual
  <2> QED BY <1>6, <1>7, <1>9, <2>9
<1> QED BY <1>8, <1>9

(* Ring::pop takes the first byte of the contents. *)
LEMMA HeldPop ==
  ASSUME DriverTypes, ~empty, pop, UNCHANGED <<ring, tail>>
  PROVE  /\ contents # <<>> /\ Head(contents) = ring[head]
         /\ contents' = Tail(contents)
<1>1. ring \in Slots /\ head \in Index /\ tail \in Index /\ head # tail
  BY DEF DriverTypes, Slots, empty
<1>2. contents = Held(ring, head, tail) /\ contents' = Held(ring, head', tail)
  BY DEF contents, Held
<1>3. RING_CAP \in Nat /\ RING_CAP > 1 /\ head \in 0 .. RING_CAP - 1
      /\ tail \in 0 .. RING_CAP - 1
  BY <1>1, ConsoleAssumption DEF Index
<1>4. head' = (IF head + 1 = RING_CAP THEN 0 ELSE head + 1) /\ head' \in Index
  BY <1>1, NextIndex DEF pop
<1> DEFINE size == (tail - head) % RING_CAP
<1>5. size = IF head <= tail THEN tail - head ELSE tail - head + RING_CAP
  BY <1>1, RingSize
<1>6. (tail - head') % RING_CAP
         = IF head' <= tail THEN tail - head' ELSE tail - head' + RING_CAP
  BY <1>1, <1>4, RingSize
<1>7. size \in 1 .. RING_CAP - 1 /\ (tail - head') % RING_CAP = size - 1
  <2> DEFINE rest == (tail - head') % RING_CAP
  <2>1. rest = IF head' <= tail THEN tail - head' ELSE tail - head' + RING_CAP
    BY <1>6
  <2> HIDE DEF size, rest
  <2>2. size \in 1 .. RING_CAP - 1 /\ rest = size - 1
    BY <1>1, <1>3, <1>4, <1>5, <2>1
  <2> QED BY <2>2 DEF rest
<1>8. /\ contents \in Seq(Bytes \cup {0}) /\ Len(contents) = size
      /\ \A i \in 1 .. Len(contents) : contents[i] = ring[(head + i - 1) % RING_CAP]
  BY <1>1, <1>2, HeldIsSequence
<1>9. /\ contents' \in Seq(Bytes \cup {0}) /\ Len(contents') = size - 1
      /\ \A i \in 1 .. Len(contents') : contents'[i] = ring[(head' + i - 1) % RING_CAP]
  BY <1>1, <1>2, <1>4, <1>7, HeldIsSequence, ZenonT(60)
<1>10. contents # <<>>
  <2> HIDE DEF size
  <2> QED BY <1>7, <1>8
<1>11. /\ Tail(contents) \in Seq(Bytes \cup {0}) /\ Len(Tail(contents)) = size - 1
       /\ \A i \in 1 .. size - 1 : Tail(contents)[i] = contents[i + 1]
  <2> HIDE DEF size
  <2> QED BY <1>8, <1>10, HeadTailProperties
<1>12. ASSUME NEW i \in 1 .. size - 1 PROVE contents'[i] = Tail(contents)[i]
  <2>1. i \in 1 .. RING_CAP /\ i + 1 \in 1 .. RING_CAP /\ i + 1 \in 1 .. size
    <3> HIDE DEF size
    <3> QED BY <1>3, <1>7
  <2>2. (head' + i - 1) % RING_CAP = IF head' + i - 1 < RING_CAP THEN head' + i - 1
                                     ELSE head' + i - 1 - RING_CAP
    BY <1>4, <2>1, RingSlot
  <2>3. PICK j \in 1 .. RING_CAP : j = i + 1
    BY <2>1
  <2>4. (head + j - 1) % RING_CAP = IF head + j - 1 < RING_CAP THEN head + j - 1
                                    ELSE head + j - 1 - RING_CAP
    BY <1>1, <2>3, RingSlot
  <2>5. (head' + i - 1) % RING_CAP = (head + j - 1) % RING_CAP
    <3> DEFINE a == (head' + i - 1) % RING_CAP
               c == (head + j - 1) % RING_CAP
    <3>1. a = (IF head' + i - 1 < RING_CAP THEN head' + i - 1 ELSE head' + i - 1 - RING_CAP)
      BY <2>2
    <3>2. c = (IF head + j - 1 < RING_CAP THEN head + j - 1 ELSE head + j - 1 - RING_CAP)
      BY <2>4
    <3> HIDE DEF a, c
    <3>3. a = c
      BY <1>3, <1>4, <2>1, <2>3, <3>1, <3>2
    <3> QED BY <3>3 DEF a, c
  <2>6. contents'[i] = ring[(head' + i - 1) % RING_CAP]
    BY <1>9
  <2>7. Tail(contents)[i] = ring[(head + j - 1) % RING_CAP]
    <3>1. Tail(contents)[i] = contents[j]
      BY <1>11, <2>3
    <3>2. j \in 1 .. Len(contents)
      BY <1>8, <2>1, <2>3
    <3> QED BY <1>8, <3>1, <3>2
  <2> QED BY <2>5, <2>6, <2>7
<1>13. contents' = Tail(contents)
  <2> HIDE DEF size
  <2> QED BY <1>9, <1>11, <1>12, SeqEqual
<1>14. Head(contents) = ring[head]
  <2>1. 1 \in 1 .. RING_CAP /\ 1 \in 1 .. Len(contents)
    <3> HIDE DEF size
    <3> QED BY <1>3, <1>7, <1>8
  <2>2. (head + 1 - 1) % RING_CAP = IF head + 1 - 1 < RING_CAP THEN head + 1 - 1
                                    ELSE head + 1 - 1 - RING_CAP
    BY <1>1, <2>1, RingSlot
  <2>3. (head + 1 - 1) % RING_CAP = head
    BY <1>3, <2>2
  <2>4. contents[1] = ring[(head + 1 - 1) % RING_CAP]
    BY <1>8, <2>1
  <2> QED BY <1>8, <1>10, <2>3, <2>4
<1> QED BY <1>10, <1>13, <1>14

(* No byte is the mark of an idle source, and the self-test has a byte. *)
LEMMA NoneIsNoByte ==
  /\ None \notin Bytes /\ 0 \notin Bytes
  /\ translate(Min(SelftestCodes)) \in Bytes
  BY ConsoleAssumption, SelftestByte DEF Bytes, None

(* A step of the driver is a step of the queue, or leaves it alone. *)
LEMMA QueueStep ==
  Inv /\ [Next]_vars => [Queue!Next]_<<contents, incoming, buf>>
<1> SUFFICES ASSUME Inv, [Next]_vars
             PROVE  Queue!Next \/ UNCHANGED <<contents, incoming, buf>>
  OBVIOUS
<1> DEFINE selfbyte == translate(Min(SelftestCodes))
           Goal == Queue!Next \/ UNCHANGED <<contents, incoming, buf>>
<1>goal. SUFFICES Goal BY <1>goal DEF Goal
<1> HIDE DEF Goal, selfbyte
<1>1. DriverTypes
  BY DEF Inv, TypeOK
<1>2. ASSUME UNCHANGED <<ring, head, tail>> PROVE contents' = contents
  BY <1>2 DEF contents
<1>3. ASSUME irq' = irq \/ (irq \notin Bytes /\ irq' \notin Bytes),
             (pc = "self_push") <=> (pc' = "self_push")
      PROVE  incoming' = incoming
  BY <1>3 DEF incoming
<1>4. ASSUME NEW b \in Bytes, NEW s \in Sources, push(b), head' = head, buf' = buf,
             incoming[s] = b, incoming' = [incoming EXCEPT ![s] = None]
      PROVE  Goal
  <2>1. contents' = IF Len(contents) < RING_CAP - 1 THEN Append(contents, b) ELSE contents
    BY <1>1, <1>4, HeldPush
  <2>2. incoming[s] # None
    BY <1>4, NoneIsNoByte
  <2> QED BY <1>4, <2>1, <2>2 DEF Queue!Next, Queue!Type, Goal
<1>5. ASSUME NEW b \in Bytes, NEW s \in Sources, UNCHANGED <<ring, head, tail, buf>>,
             incoming[s] = None, incoming' = [incoming EXCEPT ![s] = b]
      PROVE  Goal
  BY <1>2, <1>5 DEF Queue!Next, Queue!Arrive, Goal
<1>6. ASSUME UNCHANGED <<ring, head, tail>>, incoming' = incoming,
             buf' = buf \/ buf' = <<>>
      PROVE  Goal
  BY <1>2, <1>6 DEF Queue!Next, Queue!Begin, Goal
<1>7. CASE irq_push
  <2>1. /\ irq' = None /\ ((pc = "self_push") <=> (pc' = "self_push")) /\ buf' = buf
        /\ head' = head
    BY <1>7 DEF irq_push, resume
  <2>2. CASE irq = 0
    <3>1. incoming' = incoming
      BY <1>3, <2>1, <2>2, NoneIsNoByte
    <3> QED BY <1>6, <1>7, <2>1, <2>2, <3>1 DEF irq_push
  <2>3. CASE irq # 0
    <3>1. irq \in Bytes /\ push(irq)
      BY <1>1, <1>7, <2>3 DEF irq_push, DriverTypes
    <3>2. incoming["irq"] = irq /\ "irq" \in Sources
      BY <3>1 DEF incoming, Sources
    <3>3. incoming' = [incoming EXCEPT !["irq"] = None]
      BY <2>1, NoneIsNoByte DEF incoming, Sources
    <3>4. PICK b \in Bytes : b = irq
      BY <3>1
    <3> QED BY <1>4, <2>1, <3>1, <3>2, <3>3, <3>4
  <2> QED BY <2>2, <2>3
<1>8. CASE self_push
  <2>1. /\ pc = "self_push" /\ pc' = "self_unlock" /\ push(selfbyte) /\ selfbyte \in Bytes
        /\ UNCHANGED <<head, irq, buf>>
    BY <1>8, NoneIsNoByte DEF self_push, At, selfbyte
  <2>2. incoming["selftest"] = selfbyte /\ "selftest" \in Sources
    BY <2>1 DEF incoming, Sources, selfbyte
  <2>3. incoming' = [incoming EXCEPT !["selftest"] = None]
    BY <2>1 DEF incoming, Sources
  <2> QED BY <1>4, <2>1, <2>2, <2>3
<1>9. CASE irq_enter
  <2>1. /\ irq = None /\ irq' = translate(Head(keys)) /\ UNCHANGED <<pc, buf>>
        /\ UNCHANGED <<ring, head, tail>>
    BY <1>9 DEF irq_enter, keyboard
  <2>2. CASE irq' \in Bytes
    <3>1. incoming["irq"] = None /\ "irq" \in Sources
      BY <2>1, NoneIsNoByte DEF incoming, Sources
    <3>2. incoming' = [incoming EXCEPT !["irq"] = irq']
      BY <2>1, <2>2 DEF incoming, Sources
    <3>3. PICK b \in Bytes : b = irq'
      BY <2>2
    <3> QED BY <1>5, <2>1, <3>1, <3>2, <3>3
  <2>3. CASE irq' \notin Bytes
    BY <1>3, <1>6, <2>1, <2>3, NoneIsNoByte
  <2> QED BY <2>2, <2>3
<1>10. CASE self_lock
  <2>1. /\ pc = "self_lock" /\ pc' = "self_push" /\ selfbyte \in Bytes
        /\ UNCHANGED <<irq, buf, ring, head, tail>>
    BY <1>10, NoneIsNoByte DEF self_lock, At, selfbyte
  <2>2. incoming["selftest"] = None /\ "selftest" \in Sources
    BY <2>1 DEF incoming, Sources
  <2>3. incoming' = [incoming EXCEPT !["selftest"] = selfbyte]
    BY <2>1 DEF incoming, Sources, selfbyte
  <2> QED BY <1>5, <2>1, <2>2, <2>3
<1>11. CASE read_take \/ read_nb_take \/ self_take
  <2>1. /\ ~empty /\ pop /\ UNCHANGED <<ring, tail, irq, pc>>
        /\ buf' = Append(buf, ring[head])
    BY <1>11 DEF read_take, read_nb_take, self_take, take
  <2>2. contents # <<>> /\ Head(contents) = ring[head] /\ contents' = Tail(contents)
    BY <1>1, <2>1, HeldPop
  <2>3. incoming' = incoming
    BY <1>3, <2>1
  <2> QED BY <2>1, <2>2, <2>3 DEF Queue!Next, Queue!Take, Goal
<1>12. CASE ~(irq_push \/ self_push \/ irq_enter \/ self_lock
              \/ read_take \/ read_nb_take \/ self_take)
  <2>1. /\ UNCHANGED <<ring, head, tail, irq>> /\ (buf' = buf \/ buf' = <<>>)
        /\ ((pc = "self_push") <=> (pc' = "self_push"))
    BY <1>12
       DEF Next, KernelFlow, read_lock, read_unlock, enable_and_hlt, read_nb_lock,
           read_nb_unlock, sysret, self_unlock, self_drain_lock, resume, At,
           self_drained, self_check, lock_masked, unlock, tick, key,
           sys_read, sys_read_nb, log_write, log_read, keyboard, vars
  <2> QED BY <1>3, <1>6, <2>1
<1> QED
  BY <1>7, <1>8, <1>9, <1>10, <1>11, <1>12

(* The empty ring, with no byte on its way, is the empty queue. *)
LEMMA QueueInit == Init => Queue!Init
<1> SUFFICES ASSUME Init PROVE Queue!Init
  OBVIOUS
<1>1. 0 \in Index /\ ring \in Slots /\ head = 0 /\ tail = 0
  BY ConsoleAssumption DEF Init, Index, Slots
<1>2. (0 - 0) % RING_CAP = 0
  BY <1>1, RingSize
<1>3. contents = Held(ring, 0, 0)
  BY <1>1 DEF contents, Held
<1>4. contents = <<>>
  BY <1>1, <1>2, <1>3, HeldIsSequence
<1>5. incoming = [s \in Sources |-> None] /\ buf = <<>>
  BY NoneIsNoByte DEF Init, incoming
<1> QED BY <1>4, <1>5 DEF Queue!Init

(* The keyboard buffer implements the bounded queue of module KeyQueue:    *)
(* the buffer of READ gets the bytes typed, in order, each once, and only  *)
(* a byte that comes to a full ring is lost (keyboard.rs: Ring,            *)
(* irq_handler, read).                                                     *)
THEOREM RingIsQueue == Spec => QueueSpec
  BY InitInv, StepInv, QueueStep, QueueInit, PTL DEF Spec, QueueSpec, Queue!Spec
=============================================================================
