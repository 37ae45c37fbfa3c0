------------------------------- MODULE MCLoader -------------------------------
(* Module Loader with pages of two bytes: a code, a stack and a heap area  *)
(* of a few pages each, and images that differ in how their segments meet. *)
EXTENDS Loader

Seg(offset, vaddr, filesz, memsz, w, x) ==
    [offset |-> offset, vaddr |-> vaddr, filesz |-> filesz, memsz |-> memsz,
     writable |-> w, executable |-> x]
Img(segs) == [valid |-> TRUE, entry |-> 2, segments |-> segs, bytes |-> <<1, 2, 1, 2>>]

MCImages == {
    \* text, then data and bss that begin in text's last page
    Img(<<Seg(0, 2, 3, 3, FALSE, TRUE), Seg(2, 5, 2, 3, TRUE, FALSE)>>),
    \* overlapping segments
    Img(<<Seg(0, 2, 2, 2, FALSE, TRUE), Seg(1, 3, 3, 3, FALSE, FALSE)>>),
    \* more in the file than in memory, up to a page that is not covered
    Img(<<Seg(0, 3, 2, 1, TRUE, TRUE)>>),
    \* ... and in the same page
    Img(<<Seg(0, 2, 2, 1, TRUE, TRUE)>>),
    \* a segment in the stack
    Img(<<Seg(0, 8, 1, 1, TRUE, FALSE)>>),
    \* past the end of the file; past the end of the address space
    Img(<<Seg(3, 2, 2, 2, FALSE, TRUE)>>),
    Img(<<Seg(0, 2, 1, 62, FALSE, TRUE)>>),
    [Img(<<>>) EXCEPT !.valid = FALSE]}

MCEnvArgs == {<<8, 1>>, <<9, 3>>, <<14, 3>>, <<0, 2>>}
=============================================================================
