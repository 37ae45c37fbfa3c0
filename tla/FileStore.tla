------------------------------ MODULE FileStore ------------------------------
(***************************************************************************)
(* What the file service promises its clients (userland/init, the file     *)
(* operations of combined_service): the service comes up or it does not;   *)
(* once up, a request is answered with what the catalogue says, and with   *)
(* an error only if the disk failed while the request was being served or  *)
(* the service has no page to hand a whole file out in.                    *)
(*                                                                         *)
(* The promise has one gap.  A failure may leave work with the disk that   *)
(* is carried out later; a request served meanwhile may get its result.    *)
(* Nothing here knows of sectors, rings or retries.                        *)
(***************************************************************************)
EXTENDS Integers, Sequences, FiniteSetsExt

CONSTANTS
    Catalogues,   \* the catalogues fs_setup may be given: sequences of files
    Requests,     \* the requests clients make
    PAGE_BYTES,   \* size of the shared page a whole file is read into
    SECTOR        \* bytes of a file that OP_DATACH can reach

VARIABLES
    files,   \* the catalogue served
    phase,   \* "setup", "up" or "down"
    paged,   \* there is a page for whole files
    req,     \* the request being served
    fault,   \* the disk failed while req was being served
    left,    \* the disk still has to carry out what it failed to do in time
    late,    \* ... and did so, or may have, while req was being served
    ans      \* the last answer

vars == <<files, phase, paged, req, fault, left, late, ans>>

NoReq == [op |-> "None", i |-> 0, off |-> 0]

(* u64::MAX, the answer of a failed request.                               *)
ERR == -1

(* An answer: the word of the reply, and the page that comes with it.      *)
Word(w) == [word |-> w, page |-> <<>>]

Prefix(data, n) == SubSeq(data, 1, Min({n, Len(data)}))

(* The true answer.  Files are numbered from 0.                            *)
Truth(r) ==
    LET known == r.i < Len(files)
        data == files[r.i + 1].data
    IN  CASE r.op = "NFILES" -> Word(Len(files))
          [] r.op = "FSIZE" -> Word(IF known THEN Len(data) ELSE ERR)
          [] r.op = "NAMECH" -> Word(IF known THEN files[r.i + 1].name ELSE 0)
          [] r.op = "DATACH" ->
                Word(IF known /\ r.off < Min({Len(data), SECTOR})
                       THEN data[r.off + 1] ELSE 0)
          [] r.op = "READFILE" ->
                IF known /\ paged
                         THEN [word |-> Len(data), page |-> Prefix(data, PAGE_BYTES)]
                         ELSE Word(ERR)
          [] OTHER -> Word(ERR)

(* The answer after a disk failure: OP_DATACH has no error value but 0.    *)
Refusals(r) == IF r.op = "DATACH" THEN {Word(ERR), Word(0)} ELSE {Word(ERR)}

Init ==
    /\ files \in Catalogues
    /\ phase = "setup"
    /\ paged = FALSE
    /\ req = NoReq
    /\ fault = FALSE /\ left = FALSE /\ late = FALSE
    /\ ans = Word(ERR)

Open(p) ==
    /\ phase = "setup"
    /\ phase' = p
    /\ paged' \in BOOLEAN /\ left' \in BOOLEAN
    /\ UNCHANGED <<files, req, fault, late, ans>>

Ask(r) ==
    /\ phase = "up" /\ req = NoReq
    /\ req' = r
    /\ UNCHANGED <<files, phase, paged, fault, left, late, ans>>

DiskFault ==
    /\ req # NoReq
    /\ fault' = TRUE
    /\ left' \in {left, TRUE}
    /\ UNCHANGED <<files, phase, paged, req, late, ans>>

(* The disk is used for req with older work still to be carried out.       *)
Overlap ==
    /\ req # NoReq /\ left
    /\ late' = TRUE
    /\ UNCHANGED <<files, phase, paged, req, fault, left, ans>>

(* The older work has been carried out.                                    *)
Settle ==
    /\ left
    /\ left' = FALSE
    /\ UNCHANGED <<files, phase, paged, req, fault, late, ans>>

Answer ==
    /\ req # NoReq
    /\ ans' \in IF late THEN [word : Int, page : Seq(Nat)]
                ELSE IF fault THEN Refusals(req) ELSE {Truth(req)}
    /\ req' = NoReq
    /\ fault' = FALSE /\ late' = FALSE
    /\ UNCHANGED <<files, phase, paged, left>>

Next ==
    \/ \E p \in {"up", "down"} : Open(p)
    \/ \E r \in Requests : Ask(r)
    \/ DiskFault
    \/ Overlap
    \/ Settle
    \/ Answer

Spec == Init /\ [][Next]_vars
=============================================================================
