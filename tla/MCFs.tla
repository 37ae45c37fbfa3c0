-------------------------------- MODULE MCFs --------------------------------
(* Catalogues and requests for model checking.  Two sectors of two bytes   *)
(* make a page.  The catalogues: one that fills the disk to the last       *)
(* sector, with a file longer than a page; one with an empty file; one     *)
(* that overflows the disk; one that overflows the directory.              *)
EXTENDS Fs

File(name, bytes) == [name |-> name, data |-> bytes]
Small == {<<File(1, <<11, 12, 13>>), File(2, <<21>>)>>,
          <<File(1, <<11, 12, 13, 14, 15>>)>>,
          <<File(1, <<>>), File(2, <<21, 22>>)>>,
          <<File(1, <<11, 12>>), File(2, <<21, 22, 23, 24, 25>>)>>,
          <<File(1, <<11>>), File(2, <<21>>), File(3, <<31>>)>>}

Asked == [op : {"NFILES", "OTHER"}, i : {0}, off : {0}]
    \cup [op : {"FSIZE", "NAMECH", "READFILE"}, i : {0, 1, 2}, off : {0}]
    \cup [op : {"DATACH"}, i : {0, 1, 2}, off : {0, 1, 2}]
=============================================================================
