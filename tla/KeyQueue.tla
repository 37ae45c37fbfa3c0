------------------------------- MODULE KeyQueue -------------------------------
(***************************************************************************)
(* What the keyboard buffer promises (arch/x86_64/keyboard.rs): a queue of *)
(* the bytes typed, in order, that holds at most LIMIT of them.  A byte    *)
(* arrives at one of the sources, which then puts it into the queue; only  *)
(* a full queue loses it.  A reader starts with nothing and is given the   *)
(* oldest byte, one after the other.                                       *)
(***************************************************************************)
EXTENDS Integers, Sequences

CONSTANTS Byte, LIMIT, Source, None

VARIABLES
    queue,
    incoming,   \* source -> the byte it is to put into the queue, or None
    got         \* what the present reader has been given

Init ==
    /\ queue = <<>>
    /\ incoming = [s \in Source |-> None]
    /\ got = <<>>

Arrive(s, b) ==
    /\ incoming[s] = None
    /\ incoming' = [incoming EXCEPT ![s] = b]
    /\ UNCHANGED <<queue, got>>

Type(s) ==
    /\ incoming[s] # None
    /\ queue' = IF Len(queue) < LIMIT THEN Append(queue, incoming[s]) ELSE queue
    /\ incoming' = [incoming EXCEPT ![s] = None]
    /\ UNCHANGED got

Take ==
    /\ queue # <<>>
    /\ got' = Append(got, Head(queue))
    /\ queue' = Tail(queue)
    /\ UNCHANGED incoming

Begin ==
    /\ got' = <<>>
    /\ UNCHANGED <<queue, incoming>>

Next ==
    \/ \E s \in Source, b \in Byte : Arrive(s, b)
    \/ \E s \in Source : Type(s)
    \/ Take
    \/ Begin

Spec == Init /\ [][Next]_<<queue, incoming, got>>
=============================================================================
