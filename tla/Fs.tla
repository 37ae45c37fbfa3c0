---------------------------------- MODULE Fs ----------------------------------
(***************************************************************************)
(* The virtio-blk driver and XernelFS (userland/init/src/main.rs): the     *)
(* root task formats the disk, creates the files of its catalogue and then *)
(* serves read requests from the disk.                                     *)
(*                                                                         *)
(* Every access goes through blk_rw: one request at a time, with one       *)
(* header, one data buffer and one status byte for all requests.  blk_rw   *)
(* gives up after a number of polls, and the request it gave up on stays   *)
(* with the device, which may still take it and complete it later, while   *)
(* the driver reuses the same buffers.  The driver accepts no feature, so  *)
(* the device may hold several requests and complete them in any order;    *)
(* blk_rw only looks at their number, used.idx.                            *)
(*                                                                         *)
(* `pc` is the call of blk_rw the program is in; `io` is how far that call *)
(* is.  A sector is a record that can hold any of the three formats.       *)
(***************************************************************************)
EXTENDS Integers, SequencesExt

CONSTANTS
    Catalogues,      \* what fs_setup is to create: sequences of files
    Requests,        \* requests of clients: [op, i, off]
    SECTOR,          \* bytes in a sector
    PAGE_BYTES,      \* bytes in a shared page
    DIR_ENTRIES,     \* entries in the directory sector
    TOTAL_SECTORS,   \* size of the filesystem
    SEQ_WRAP,        \* 2^16: the ring indices are u16
    MAX_STALE        \* bound: requests given up that the device still holds

ASSUME FsAssumption ==
    /\ SECTOR \in Nat \ {0}
    /\ PAGE_BYTES \in Nat /\ PAGE_BYTES % SECTOR = 0
    /\ DIR_ENTRIES \in Nat \ {0}
    /\ TOTAL_SECTORS \in Nat /\ TOTAL_SECTORS > 2
    /\ SEQ_WRAP \in Nat /\ MAX_STALE \in Nat /\ MAX_STALE + 1 < SEQ_WRAP
    /\ Catalogues \subseteq Seq([name : Nat \ {0}, data : Seq(Nat)])
    /\ \A c \in Catalogues : \A i, j \in DOMAIN c : c[i].name = c[j].name => i = j
    /\ Requests \subseteq [op : STRING \ {"None"}, i : Nat, off : Nat]

SB_SECTOR == 1
DIR_SECTOR == 2
DATA_START == 3
Sectors == 0 .. TOTAL_SECTORS - 1
Entries == 0 .. DIR_ENTRIES - 1

VARIABLES
    files,    \* the catalogue of this boot
    disk,     \* device: the sectors
    flight,   \* device: the requests it has taken and not completed
    used,     \* device: used.idx
    hdr,      \* request header in DMA memory
    data,     \* data buffer in DMA memory
    status,   \* status byte in DMA memory
    seq,      \* Blk.seq, which is also avail.idx
    io,       \* progress of blk_rw: none, filled, polling, ok, failed
    pc,       \* the call of blk_rw the program is at
    k,        \* fs_setup: the file being created
    sb,       \* local copy of next_free
    dir,      \* local copy of the directory
    ent,      \* fs_read: the directory entry of the file
    off,      \* sectors of the file done so far
    out,      \* fs_read: the bytes copied out
    have_shm, \* combined_service: the page for whole files was allocated
    req, ans, \* the client's request and the last answer
    mixed     \* history: a blk_rw of this request began with others in flight

device == <<disk, flight, used>>
ring == <<hdr, data, status, seq, io>>
locals == <<k, sb, dir, ent, off, out>>
client == <<have_shm, req, ans, mixed>>
vars == <<files, device, ring, pc, locals, client>>

NoEntry == [name |-> 0, size |-> 0, start |-> 0]
EmptyDir == [e \in Entries |-> NoEntry]

(* What a sector holds: a superblock, a directory or file data.            *)
Sector(magic, nf, ents, bytes) ==
    [magic |-> magic, next_free |-> nf, ents |-> ents, bytes |-> bytes]
Zeros == [b \in 1 .. SECTOR |-> 0]
Superblock(nf) == Sector(TRUE, nf, EmptyDir, Zeros)
Directory(ents) == Sector(FALSE, 0, ents, Zeros)

(* The bytes of a file read as a directory: each field is some bytes.      *)
AsDir(bytes) ==
    LET field(n) == bytes[(n % SECTOR) + 1]
    IN  [e \in Entries |-> [name |-> field(e), size |-> field(e + 1), start |-> field(e + 2)]]
Data(bytes) == Sector(FALSE, 0, AsDir(bytes), bytes)
Unwritten == Data(Zeros)

Rq(write, sector) == [write |-> write, sector |-> sector]
NoRq == Rq(FALSE, -1)

ERR == -1
NoReq == [op |-> "None", i |-> 0, off |-> 0]
Word(w) == [word |-> w, page |-> <<>>]

div_ceil(n, d) == (n + d - 1) \div d
sectors_of(size) == div_ceil(size, SECTOR)

Init ==
    /\ files \in Catalogues
    /\ disk = [s \in Sectors |-> Unwritten]
    /\ flight = <<>> /\ used = 0
    /\ hdr = NoRq /\ data = Unwritten /\ status = "ok" /\ seq = 0 /\ io = "none"
    /\ pc = "blk_init"
    /\ k = 1 /\ sb = 0 /\ dir = EmptyDir /\ ent = NoEntry /\ off = 0 /\ out = <<>>
    /\ have_shm = FALSE /\ req = NoReq /\ ans = Word(ERR) /\ mixed = FALSE
-----------------------------------------------------------------------------
(* The device: it takes requests from the available ring, each with the    *)
(* header it finds at that moment, and may hold several.                   *)

outstanding == (seq - used) % SEQ_WRAP

fetch ==
    /\ Len(flight) < outstanding
    /\ flight' = Append(flight, hdr)
    /\ UNCHANGED <<files, disk, used, ring, pc, locals, client>>

(* It completes any request it holds, with its data transferred or with an *)
(* error.                                                                  *)
complete(i, ok) ==
    LET rq == flight[i]
    IN  /\ i \in DOMAIN flight
        /\ ok => rq.sector \in Sectors
        /\ disk' = IF ok /\ rq.write THEN [disk EXCEPT ![rq.sector] = data] ELSE disk
        /\ data' = IF ok /\ ~rq.write THEN disk[rq.sector] ELSE data
        /\ status' = IF ok THEN "ok" ELSE "error"
        /\ used' = (used + 1) % SEQ_WRAP
        /\ flight' = RemoveAt(flight, i)
        /\ UNCHANGED <<files, hdr, seq, io, pc, locals, client>>
-----------------------------------------------------------------------------
(* blk_rw.                                                                 *)

(* The call at pc: fill in the header, the sentinel status and, for a      *)
(* write, the data.  Every request shares these buffers, also the ones     *)
(* given up that the device still holds.                                   *)
Fill(write, sector, content) ==
    /\ io = "none"
    /\ hdr' = Rq(write, sector)
    /\ status' = "sentinel"
    /\ data' = IF write THEN content ELSE data
    /\ io' = "filled"
    /\ mixed' = (mixed \/ used # seq)
    /\ UNCHANGED <<files, device, seq, pc, locals, have_shm, req, ans>>

Reading(sector) == Fill(FALSE, sector, Unwritten)
Writing(sector, content) == Fill(TRUE, sector, content)

(* Publish the descriptor chain and notify the device.                     *)
publish ==
    /\ io = "filled"
    /\ seq' = (seq + 1) % SEQ_WRAP
    /\ io' = "polling"
    /\ UNCHANGED <<files, device, hdr, data, status, pc, locals, client>>

(* Seeded fault: the status byte is not looked at.                         *)
poll_done_unchecked ==
    /\ io = "polling"
    /\ used = seq
    /\ io' = "ok"
    /\ UNCHANGED <<files, device, hdr, data, status, seq, pc, locals, client>>

(* used.idx caught up with seq: the status decides.                        *)
poll_done ==
    /\ io = "polling"
    /\ used = seq
    /\ io' = IF status = "ok" THEN "ok" ELSE "failed"
    /\ UNCHANGED <<files, device, hdr, data, status, seq, pc, locals, client>>

(* Seeded fault: the poll loop has no limit.                               *)
poll_forever == FALSE /\ UNCHANGED vars

(* The spin limit: the request is given up, and stays with the device.     *)
poll_timeout ==
    /\ io = "polling"
    /\ used # seq
    /\ io' = "failed"
    /\ UNCHANGED <<files, device, hdr, data, status, seq, pc, locals, client>>

(* blk_rw has returned to the caller at label l; what a read copied out of *)
(* the data buffer is `data`.                                              *)
Returned(l) == pc = l /\ io \in {"ok", "failed"} /\ io' = "none"
Ok(l) == Returned(l) /\ io = "ok"
Failed(l) == Returned(l) /\ io = "failed"

Goto(l) == pc' = l /\ UNCHANGED <<files, device, hdr, data, status, seq>>
-----------------------------------------------------------------------------
(* fs_setup.                                                               *)

(* blk_init: device reset and ring layout; without a usable device, queue  *)
(* or DMA memory there is no service.                                      *)
blk_init(ok) ==
    /\ pc = "blk_init"
    /\ Goto(IF ok THEN "format_sb" ELSE "down")
    /\ UNCHANGED <<io, locals, client>>

(* The sector number and content of each blk_rw of the setup.              *)
file == files[k]
fs_format_sb == pc = "format_sb" /\ Writing(SB_SECTOR, Superblock(DATA_START))
fs_format_dir == pc = "format_dir" /\ Writing(DIR_SECTOR, Directory(EmptyDir))
create_read_sb == pc = "read_sb" /\ Reading(SB_SECTOR)
create_read_dir == pc = "read_dir" /\ Reading(DIR_SECTOR)

(* The bytes of the file in its n-th sector; the rest of the sector is 0.  *)
chunk(bytes, n) ==
    [b \in 1 .. SECTOR |-> IF n * SECTOR + b <= Len(bytes)
                             THEN bytes[n * SECTOR + b] ELSE 0]
create_write_data == pc = "write_data" /\ Writing(sb + off, Data(chunk(file.data, off)))

(* The directory entry, in the first free slot.                            *)
free_slots(d) == {e \in Entries : d[e].name = 0}
new_dir == [dir EXCEPT ![Min(free_slots(dir))] =
              [name |-> file.name, size |-> Len(file.data), start |-> sb]]
create_write_dir == pc = "write_dir" /\ Writing(DIR_SECTOR, Directory(new_dir))

(* Seeded fault: the bumped free pointer is not committed.                 *)
create_write_sb_stale == pc = "write_sb" /\ Writing(SB_SECTOR, Superblock(sb))

create_write_sb ==
    /\ pc = "write_sb"
    /\ Writing(SB_SECTOR, Superblock(sb + sectors_of(Len(file.data))))

fs_list == pc = "list" /\ Reading(DIR_SECTOR)

(* The label after a call that succeeded and left the locals alone.        *)
AfterData == IF off + 1 < sectors_of(Len(file.data)) THEN "write_data" ELSE "write_dir"
NextFile(n) == IF n <= Len(files) THEN "read_sb" ELSE "list"

setup_format ==
    /\ \/ Ok("format_sb") /\ Goto("format_dir")
       \/ Ok("format_dir") /\ Goto(NextFile(1))
    /\ UNCHANGED <<locals, client>>

(* fs_create: next_free of a superblock with the magic.                    *)
setup_sb ==
    /\ Ok("read_sb")
    /\ Goto(IF data.magic THEN "read_dir" ELSE "down")
    /\ sb' = data.next_free
    /\ UNCHANGED <<k, dir, ent, off, out, client>>

(* fs_create: a full directory or a full disk ends the setup.              *)
setup_dir ==
    LET full == free_slots(data.ents) = {}
                  \/ sb + sectors_of(Len(file.data)) > TOTAL_SECTORS
    IN  /\ Ok("read_dir")
        /\ Goto(IF full THEN "down"
                ELSE IF file.data = <<>> THEN "write_dir" ELSE "write_data")
        /\ dir' = data.ents
        /\ off' = 0
        /\ UNCHANGED <<k, sb, ent, out, client>>

setup_data ==
    /\ Ok("write_data")
    /\ Goto(AfterData)
    /\ off' = off + 1
    /\ UNCHANGED <<k, sb, dir, ent, out, client>>

setup_entry ==
    /\ Ok("write_dir")
    /\ Goto("write_sb")
    /\ UNCHANGED <<locals, client>>

setup_commit ==
    /\ Ok("write_sb")
    /\ Goto(NextFile(k + 1))
    /\ k' = k + 1
    /\ UNCHANGED <<sb, dir, ent, off, out, client>>

Creating == {"format_sb", "format_dir", "read_sb", "read_dir", "write_data",
             "write_dir", "write_sb"}

(* Seeded fault: the result of the last write is ignored.                  *)
setup_failed_ignored ==
    /\ \E l \in Creating : Failed(l)
    /\ Goto(IF pc = "write_sb" THEN "list" ELSE "down")
    /\ UNCHANGED <<locals, client>>

(* Any failed blk_rw ends the setup, and the root task exits.              *)
setup_failed ==
    /\ \E l \in Creating : Failed(l)
    /\ Goto("down")
    /\ UNCHANGED <<locals, client>>

(* fs_list only prints: its result does not matter.  combined_service then *)
(* allocates the page that whole files are handed out in, or goes without. *)
setup_listed ==
    /\ Returned("list")
    /\ Goto("idle")
    /\ have_shm' \in BOOLEAN
    /\ UNCHANGED <<locals, req, ans, mixed>>
-----------------------------------------------------------------------------
(* Serving requests: serve_one and read_by_index.                          *)

ask(r) ==
    /\ pc = "idle"
    /\ outstanding <= MAX_STALE
    /\ req' = r
    /\ Goto("serve")
    /\ UNCHANGED <<io, locals, have_shm, ans, mixed>>

(* The reply goes out and the service is back at the top of its loop; the  *)
(* locals of fs_read are gone.                                             *)
Reply(a) ==
    /\ Goto("idle")
    /\ ans' = a /\ req' = NoReq /\ mixed' = FALSE
    /\ ent' = NoEntry /\ off' = 0 /\ out' = <<>>
    /\ UNCHANGED <<k, sb, dir, have_shm>>

(* OP_READFILE without a page to read into is refused, the disk unread.    *)
NoPage == req.op = "READFILE" /\ ~have_shm
serve_no_page ==
    /\ pc = "serve" /\ io = "none"
    /\ NoPage
    /\ Reply(Word(ERR))
    /\ UNCHANGED io

serve_read_dir == pc = "serve" /\ ~NoPage /\ Reading(DIR_SECTOR)

occupied(d, i) == i \in Entries /\ d[i].name # 0

(* The requests that the directory answers.                                *)
DirAnswer(d) ==
    CASE req.op = "NFILES" -> Word(Cardinality({e \in Entries : d[e].name # 0}))
      [] req.op = "FSIZE" -> Word(IF occupied(d, req.i) THEN d[req.i].size ELSE ERR)
      [] req.op = "NAMECH" -> Word(IF occupied(d, req.i) THEN d[req.i].name ELSE 0)
      [] req.op = "DATACH" -> Word(0)
      [] OTHER -> Word(ERR)
WantsData(d) == req.op \in {"DATACH", "READFILE"} /\ occupied(d, req.i)

serve_failed ==
    /\ Failed("serve")
    /\ Reply(Word(ERR))

(* A file is read by its name: fs_read loads the directory again.          *)
serve_dir ==
    /\ Ok("serve")
    /\ IF WantsData(data.ents)
         THEN /\ Goto("find")
              /\ ent' = data.ents[req.i]
              /\ UNCHANGED <<k, sb, dir, off, out, client>>
         ELSE Reply(DirAnswer(data.ents))

find_read_dir == pc = "find" /\ Reading(DIR_SECTOR)

(* The entries with this name: the first one counts.                       *)
fs_find(d, name) == {e \in Entries : d[e].name = name}

(* The answer to a data request: the file's size and the bytes read.       *)
DataAnswer(size, bytes) ==
    IF req.op = "READFILE" THEN [word |-> size, page |-> bytes]
    ELSE Word(IF req.off < size /\ req.off < SECTOR THEN bytes[req.off + 1] ELSE 0)

(* fs_read returned None: OP_DATACH answers 0.                             *)
Unreadable == Word(IF req.op = "DATACH" THEN 0 ELSE ERR)

(* No such name: fs_read gives up; an empty file needs no sector.          *)
find_dir ==
    LET hits == fs_find(data.ents, ent.name)
        hit == data.ents[Min(hits)]
    IN  /\ Ok("find")
        /\ IF hits = {} THEN Reply(Unreadable)
           ELSE IF hit.size = 0 THEN Reply(DataAnswer(0, <<>>))
           ELSE /\ Goto("copy")
                /\ ent' = hit /\ off' = 0 /\ out' = <<>>
                /\ UNCHANGED <<k, sb, dir, client>>

copy_read_data == pc = "copy" /\ Reading(ent.start + off)

(* Bytes that do not fit the caller's buffer are not copied.               *)
buf_len == IF req.op = "READFILE" THEN PAGE_BYTES ELSE SECTOR
copied(size) ==
    LET n == Min({SECTOR, size - off * SECTOR})
    IN  IF off * SECTOR + n <= buf_len THEN out \o SubSeq(data.bytes, 1, n) ELSE out

copy_data ==
    LET size == ent.size
    IN  /\ Ok("copy")
        /\ IF (off + 1) * SECTOR < size
             THEN /\ Goto("copy")
                  /\ out' = copied(size) /\ off' = off + 1
                  /\ UNCHANGED <<k, sb, dir, ent, client>>
             ELSE Reply(DataAnswer(size, copied(size)))

read_failed ==
    /\ \E l \in {"find", "copy"} : Failed(l)
    /\ Reply(Unreadable)
-----------------------------------------------------------------------------
Device == fetch \/ \E i \in DOMAIN flight, ok \in BOOLEAN : complete(i, ok)

blk_rw ==
    \/ fs_format_sb \/ fs_format_dir \/ create_read_sb \/ create_read_dir
    \/ create_write_data \/ create_write_dir \/ create_write_sb \/ fs_list
    \/ serve_read_dir \/ find_read_dir \/ copy_read_data
    \/ publish \/ poll_done \/ poll_timeout

fs_setup ==
    \/ \E ok \in BOOLEAN : blk_init(ok)
    \/ setup_format \/ setup_sb \/ setup_dir \/ setup_data \/ setup_entry
    \/ setup_commit \/ setup_failed \/ setup_listed

serve ==
    serve_no_page \/ serve_failed \/ serve_dir \/ find_dir \/ copy_data \/ read_failed

Program == blk_rw \/ fs_setup \/ serve

Next == Device \/ Program \/ \E r \in Requests : ask(r)

Spec == Init /\ [][Next]_vars

(* The program runs: its process is not starved (Kernel.ReadyRuns).        *)
(* Nothing is assumed of the device or of clients.                         *)
Fairness == WF_vars(Program)

FairSpec == Spec /\ Fairness
-----------------------------------------------------------------------------
(* Properties.                                                             *)

Labels == Creating \cup {"blk_init", "list", "idle", "serve", "find", "copy", "down"}
DirEntry == [name : Nat, size : Nat, start : Nat]
AnySector == [magic : BOOLEAN, next_free : Nat, ents : [Entries -> DirEntry],
              bytes : [1 .. SECTOR -> Nat]]
AnyRq == [write : BOOLEAN, sector : Int]

TypeOK ==
    /\ files \in Catalogues
    /\ disk \in [Sectors -> AnySector]
    /\ flight \in Seq(AnyRq) /\ hdr \in AnyRq
    /\ used \in 0 .. SEQ_WRAP - 1 /\ seq \in 0 .. SEQ_WRAP - 1
    /\ data \in AnySector
    /\ status \in {"sentinel", "ok", "error"}
    /\ io \in {"none", "filled", "polling", "ok", "failed"}
    /\ pc \in Labels
    /\ k \in 1 .. Len(files) + 1
    /\ sb \in Nat /\ off \in Nat
    /\ dir \in [Entries -> DirEntry] /\ ent \in DirEntry
    /\ out \in Seq(Nat)
    /\ have_shm \in BOOLEAN /\ mixed \in BOOLEAN
    /\ req \in Requests \cup {NoReq}
    /\ ans \in [word : Int, page : Seq(Nat)]

(* The sectors of a file on the disk.                                      *)
Extent(e) == e.start .. e.start + sectors_of(e.size) - 1

(* Files never share a sector, lie in the data region and inside the disk  *)
(* (fs_create: bump allocation over three separate writes), whatever the   *)
(* setup had written when a write failed.                                  *)
NoOverlap ==
    \A e1, e2 \in Entries :
        LET d == disk[DIR_SECTOR].ents
        IN  /\ Extent(d[e1]) \subseteq DATA_START .. TOTAL_SECTORS - 1 \/ d[e1].name = 0
            /\ e1 # e2 /\ d[e1].name # 0 /\ d[e2].name # 0
                  => Extent(d[e1]) \cap Extent(d[e2]) = {}

(* Once the service is up, the disk never changes: no write that the setup *)
(* gave up on is left with the device to land under a reader.              *)
Up == pc \in {"idle", "serve", "find", "copy"}
DiskFrozen == [][Up => disk' = disk]_vars

(* The answers are those of FileStore: a request is answered from what     *)
(* fs_setup was given, or with an error if one of its own blk_rw failed or *)
(* there is no page to read into.  Only a request whose blk_rw began while *)
(* the device still held one given up earlier may be answered from what    *)
(* that one left in the buffer; once the ring has drained none is, until   *)
(* the next request is given up.                                           *)
Stale == outstanding > IF io = "polling" THEN 1 ELSE 0
Store ==
    INSTANCE FileStore WITH
        phase <- IF Up THEN "up" ELSE IF pc = "down" THEN "down" ELSE "setup",
        fault <- Up /\ io = "failed",
        paged <- have_shm,
        left <- Up /\ Stale,
        late <- mixed
StoreSpec == Store!Spec

(* Every request is answered, even by a device that never completes        *)
(* anything again: blk_rw's spin limit bounds the wait.                    *)
RequestServed == pc = "serve" ~> pc = "idle"
=============================================================================
