--------------------------------- MODULE Cap ---------------------------------
(***************************************************************************)
(* Capability entries and capability tables (kernel/src/cap.rs), and the   *)
(* table a process starts with (process.rs, seed_caps).                    *)
(*                                                                         *)
(* A CapEntry is a record of its type, the object it names and its badge;  *)
(* NoCap is an empty slot.  A CNode is a function from slot to CapEntry.   *)
(* The device ranges of IoPort and IoMem capabilities are opaque: nothing  *)
(* here looks inside them, so their object and badge are 0.                *)
(***************************************************************************)
EXTENDS Integers, FiniteSetsExt

CONSTANTS
    CAP_SLOTS,   \* size of a CNode
    DMA_BUDGET   \* the Untyped budget of the root task, in pages

(* The seed uses slots 0..5, so a table has at least six.                  *)
ASSUME CapAssumption == CAP_SLOTS \in Nat /\ CAP_SLOTS > 5 /\ DMA_BUDGET \in Nat

(* u64::MAX, the "no slot" argument of SEND, RECV and SPAWN.               *)
MAX == -1

Slot == 0 .. CAP_SLOTS - 1

(* What a program may pass as a slot: any index, in range or not, or MAX.  *)
SlotArg == Nat \cup {MAX}

CapType == {"IoPort", "IoMem", "Untyped", "Endpoint", "Notification",
            "Process", "Frame"}

CapEntry == [type : CapType \cup {"None"}, object : Nat, badge : Nat]

Cap(type, object) == [type |-> type, object |-> object, badge |-> 0]

NoCap == Cap("None", 0)

CNode == [Slot -> CapEntry]

(* CNode::get succeeded: the slot exists and holds a capability.           *)
get_ok(cnode, index) == index \in Slot /\ cnode[index] # NoCap

(* CNode::get succeeded with a capability of the given type.               *)
holds(cnode, index, type) == index \in Slot /\ cnode[index].type = type

(* CNode::insert succeeds: the slot exists and is empty.                   *)
insert_ok(cnode, index) == index \in Slot /\ cnode[index] = NoCap

(* Seeded fault: MAX is cut to the last slot.                              *)
insert_truncated(cnode, index, cap) ==
    [cnode EXCEPT ![IF index = MAX THEN CAP_SLOTS - 1 ELSE index] = cap]

(* CNode::insert: a slot that is out of range or taken leaves the table.   *)
insert(cnode, index, cap) ==
    IF insert_ok(cnode, index) THEN [cnode EXCEPT ![index] = cap] ELSE cnode

UntypedSlots(cnode) == {i \in Slot : cnode[i].type = "Untyped"}

(* charge_untyped: the first Untyped capability that has enough pays.      *)
charge_ok(cnode, amount) ==
    \E i \in UntypedSlots(cnode) : cnode[i].object >= amount

charge_untyped(cnode, amount) ==
    LET i == Min({j \in UntypedSlots(cnode) : cnode[j].object >= amount})
    IN  [cnode EXCEPT ![i].object = @ - amount]

(* Seeded fault: a failed allocation is not given back.                    *)
refund_nothing(cnode, amount) == cnode

(* refund_untyped: the first Untyped capability gets it, whoever paid.     *)
refund_untyped(cnode, amount) ==
    IF UntypedSlots(cnode) = {} THEN cnode
    ELSE [cnode EXCEPT ![Min(UntypedSlots(cnode))].object = @ + amount]

EP_SLOT == 3
REPLY_EP_SLOT == 4
NOTIF_SLOT == 5

(* The initial table: every process shares the endpoint pair and the       *)
(* notification; the root task also gets the device capabilities.          *)
seed_caps(pid) ==
    [i \in Slot |->
        CASE i = EP_SLOT              -> Cap("Endpoint", 0)
          [] i = REPLY_EP_SLOT        -> Cap("Endpoint", 1)
          [] i = NOTIF_SLOT           -> Cap("Notification", 0)
          [] i = 0 /\ pid = 0         -> Cap("IoPort", 0)
          [] i = 1 /\ pid = 0         -> Cap("IoMem", 0)
          [] i = 2 /\ pid = 0         -> Cap("Untyped", DMA_BUDGET)
          [] OTHER                    -> NoCap]
=============================================================================
