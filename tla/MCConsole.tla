------------------------------ MODULE MCConsole ------------------------------
(* Scancode 0 has no character, 1 and 2 have one, 3 is a release code.     *)
EXTENDS Console

Table == [sc \in 0 .. 2 |-> IF sc = 0 THEN 0 ELSE 100 + sc]
=============================================================================
