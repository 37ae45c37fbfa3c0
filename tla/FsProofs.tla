-------------------------------- MODULE FsProofs --------------------------------
(***************************************************************************)
(* The block driver and XernelFS, for any catalogue, any number of         *)
(* sectors, directory entries and bytes in a sector, and any order in      *)
(* which the device takes and completes the requests it is given.          *)
(*                                                                         *)
(* The two halves of the argument meet in the ring.  While the setup runs, *)
(* a blk_rw that failed ends it: so every call finds the ring empty, and   *)
(* a write that was given up is the last one, on a service that does not   *)
(* come up.  Once the service is up only reads are issued, and a blk_rw    *)
(* that began on an empty ring sees no completion but its own; one that    *)
(* did not is marked, and what it returns is used for nothing but the      *)
(* answer to its own request.                                              *)
(***************************************************************************)
EXTENDS Fs, WellFoundedInduction, FiniteSetTheorems, SequenceTheorems, TLAPS

(* The ring.                                                               *)

(* How many requests the device may still hold, here in the program.       *)
Owed ==
    CASE pc = "idle" -> MAX_STALE + 1
      [] pc = "down" -> 1
      [] pc = "serve" /\ io \in {"none", "filled"} -> MAX_STALE
      [] pc = "serve" /\ io \in {"polling", "failed"} -> MAX_STALE + 1
      [] pc \notin {"idle", "down", "serve"} /\ io \in {"polling", "failed"} -> 1
      [] OTHER -> 0

(* A request that is not mixed is alone in the ring.                       *)
Clean ==
    /\ ~Up => ~mixed
    /\ ~mixed /\ io = "filled" => used = seq
    /\ ~mixed /\ io = "polling" => outstanding <= 1

(* Then what the device has taken has the header that is still in place.   *)
OwnFlight ==
    (~mixed /\ io = "polling") \/ ~Up => \A i \in 1 .. Len(flight) : flight[i] = hdr

(* A request that went well left the same in the buffer and on the disk.   *)
Transferred ==
    /\ ~mixed /\ io \in {"polling", "ok"} /\ used = seq /\ status = "ok" =>
          hdr.sector \in Sectors /\ disk[hdr.sector] = data
    /\ io = "ok" => used = seq /\ status = "ok"

OnlyReads == Up => ~hdr.write /\ \A i \in 1 .. Len(flight) : ~flight[i].write

Ring ==
    /\ Len(flight) <= outstanding
    /\ outstanding <= Owed
    /\ Clean
    /\ OwnFlight
    /\ Transferred
    /\ OnlyReads

(* The buffers hold the call the program is at.                            *)
Size(n) == sectors_of(Len(files[n].data))
CallAt(l, write, sector) == io # "none" /\ pc = l => hdr = Rq(write, sector)
CallData(l, content) == io # "none" /\ pc = l => data = content
Calls ==
    /\ pc \in {"blk_init", "idle", "down"} => io = "none"
    /\ CallAt("format_sb", TRUE, SB_SECTOR)
    /\ CallData("format_sb", Superblock(DATA_START))
    /\ CallAt("format_dir", TRUE, DIR_SECTOR)
    /\ CallData("format_dir", Directory(EmptyDir))
    /\ CallAt("read_sb", FALSE, SB_SECTOR)
    /\ CallAt("read_dir", FALSE, DIR_SECTOR)
    /\ CallAt("write_data", TRUE, sb + off)
    /\ CallData("write_data", Data(chunk(file.data, off)))
    /\ CallAt("write_dir", TRUE, DIR_SECTOR)
    /\ CallData("write_dir", Directory(new_dir))
    /\ CallAt("write_sb", TRUE, SB_SECTOR)
    /\ CallData("write_sb", Superblock(sb + Size(k)))
    /\ \A l \in {"list", "serve", "find"} : CallAt(l, FALSE, DIR_SECTOR)
    /\ CallAt("copy", FALSE, ent.start + off)
    /\ io # "none" /\ pc = "serve" => ~NoPage
-----------------------------------------------------------------------------
(* The disk.                                                               *)

(* A directory whose files lie apart from each other and on the disk.      *)
Apart(d) ==
    \A e1, e2 \in Entries :
        /\ Extent(d[e1]) \subseteq DATA_START .. TOTAL_SECTORS - 1 \/ d[e1].name = 0
        /\ e1 # e2 /\ d[e1].name # 0 /\ d[e2].name # 0
              => Extent(d[e1]) \cap Extent(d[e2]) = {}

(* What the directory says and what a write of it will make it say.        *)
DirApart ==
    /\ Apart(disk[DIR_SECTOR].ents)
    /\ hdr.write /\ hdr.sector = DIR_SECTOR => Apart(data.ents)

(* The directory holds the first n files, in order, below sector lim.      *)
IsFile(e, f) == e.name = f.name /\ e.size = Len(f.data)
EndOf(e) == e.start + sectors_of(e.size)
Placed(d, n, lim) ==
    /\ n <= DIR_ENTRIES
    /\ \A e \in Entries : IF e < n
                            THEN /\ IsFile(d[e], files[e + 1])
                                 /\ DATA_START <= d[e].start /\ EndOf(d[e]) <= lim
                            ELSE d[e].name = 0
    /\ \A e1, e2 \in Entries : e1 < e2 /\ e2 < n => EndOf(d[e1]) <= d[e2].start

(* The first m sectors from s hold the file's bytes.                       *)
Laid(s, bytes, m) ==
    \A i \in 0 .. m - 1 : disk[s + i] = Data(chunk(bytes, i))
Stored(d, n) ==
    \A e \in Entries : e < n =>
        Laid(d[e].start, files[e + 1].data, sectors_of(d[e].size))

(* A file system with n files whose free space starts at lim.              *)
Holds(d, n, lim) == lim <= TOTAL_SECTORS /\ Placed(d, n, lim) /\ Stored(d, n)

NextFree == disk[SB_SECTOR].next_free
OnDisk == disk[DIR_SECTOR].ents

(* What each call of the setup has to build on.                            *)
Progress ==
    /\ pc \in {"blk_init", "format_sb", "format_dir"} => k = 1 /\ OnDisk = EmptyDir
    /\ pc \in {"format_dir"} => disk[SB_SECTOR] = Superblock(DATA_START)
    /\ pc \in {"read_sb", "read_dir", "write_data", "write_dir", "write_sb"} =>
          k <= Len(files)
    /\ pc \in {"read_sb", "read_dir"} =>
          /\ disk[SB_SECTOR].magic
          /\ DATA_START <= NextFree /\ Holds(OnDisk, k - 1, NextFree)
    /\ pc = "read_dir" => sb = NextFree
    /\ pc \in {"write_data", "write_dir"} =>
          /\ Holds(dir, k - 1, sb)
          /\ DATA_START <= sb /\ k <= DIR_ENTRIES /\ sb + Size(k) <= TOTAL_SECTORS
    /\ pc = "write_data" =>
          /\ OnDisk = dir
          /\ off < Size(k)
          /\ Laid(sb, file.data, off)
    /\ pc = "write_dir" =>
          /\ OnDisk \in {dir, new_dir}
          /\ Laid(sb, file.data, Size(k))
    /\ pc = "write_sb" => DATA_START <= sb /\ Holds(OnDisk, k, sb + Size(k))
    /\ pc = "list" \/ Up => Holds(OnDisk, Len(files), TOTAL_SECTORS)
-----------------------------------------------------------------------------
(* The request being served.                                               *)

(* The first bytes of a file, as many as n, the file and the buffer allow. *)
Bytes(data_, n) == SubSeq(data_, 1, Min({n, Len(data_)}))
Serving ==
    /\ pc \in {"serve", "find", "copy"} <=> req # NoReq
    /\ pc \in {"find", "copy"} =>
          /\ req.op \in {"DATACH", "READFILE"} /\ ~NoPage
          /\ ~mixed => req.i < Len(files) /\ ent = OnDisk[req.i]
    /\ pc = "copy" =>
          /\ off < sectors_of(ent.size)
          /\ off > 0 /\ req.op = "DATACH" => Min({SECTOR, ent.size}) <= Len(out)
          /\ ~mixed => out = Bytes(files[req.i + 1].data, Min({off * SECTOR, buf_len}))

Inv == TypeOK /\ Ring /\ Calls /\ DirApart /\ Progress /\ Serving
-----------------------------------------------------------------------------
(* Arithmetic.                                                             *)

(* Quotient and remainder. *)
LEMMA DivMod ==
  ASSUME NEW d \in Nat \ {0}, NEW a \in Nat
  PROVE  /\ a \div d \in Nat /\ a % d \in 0 .. d - 1
         /\ a = d * (a \div d) + (a % d)
  OBVIOUS

(* Multiplication is monotone. *)
LEMMA MulStep ==
  ASSUME NEW d \in Nat \ {0}, NEW q \in Nat, NEW h \in Nat, q < h
  PROVE  q * d + d <= h * d
  OBVIOUS

(* ... and adds up. *)
LEMMA MulNext ==
  ASSUME NEW d \in Nat, NEW q \in Nat
  PROVE  (q + 1) * d = q * d + d /\ q * d \in Nat
  OBVIOUS

(* A nonempty set of naturals has a least element, and Min is it. *)
LEMMA MinIsLeast ==
  ASSUME NEW S, S \subseteq Nat, S # {}
  PROVE  Min(S) \in S /\ \A y \in S : Min(S) <= y
<1>1. PICK x \in S : \A y \in S : ~(<<y, x>> \in OpToRel(<, Nat))
  BY NatLessThanWellFounded, WFMin, Zenon
<1>2. \A y \in S : x <= y
  <2> TAKE y \in S
  <2>1. y \in Nat /\ x \in Nat
    OBVIOUS
  <2>2. ~(y < x)
    BY <1>1, <2>1, Zenon DEF OpToRel
  <2> QED
    BY <2>1, <2>2
<1>3. \E z \in S : \A y \in S : z <= y
  BY <1>2
<1> QED
  BY <1>3 DEF Min

(* The smaller of two naturals. *)
LEMMA MinOfTwo ==
  ASSUME NEW a \in Nat, NEW b \in Nat
  PROVE  Min({a, b}) = IF a <= b THEN a ELSE b
<1> DEFINE m == Min({a, b})
<1>1. m \in {a, b} /\ \A y \in {a, b} : m <= y
  BY MinIsLeast
<1>2. m \in {a, b} /\ m <= a /\ m <= b
  BY <1>1
<1> HIDE DEF m
<1>3. m = IF a <= b THEN a ELSE b
  BY <1>2
<1> QED
  BY <1>3 DEF m

(* A file has a byte in its i-th sector exactly if it needs that sector. *)
LEMMA SectorsOf ==
  ASSUME NEW n \in Nat
  PROVE  /\ sectors_of(n) \in Nat
         /\ \A i \in Nat : i < sectors_of(n) <=> i * SECTOR < n
<1>0. SECTOR \in Nat \ {0} /\ n + SECTOR - 1 \in Nat
  BY FsAssumption
<1> DEFINE q == (n + SECTOR - 1) \div SECTOR
           r == (n + SECTOR - 1) % SECTOR
<1>1. q \in Nat /\ r \in 0 .. SECTOR - 1 /\ n + SECTOR - 1 = SECTOR * q + r
  BY <1>0, DivMod
<1>2. sectors_of(n) = q
  BY DEF sectors_of, div_ceil
<1> HIDE DEF q, r
<1>3. n + SECTOR - 1 = q * SECTOR + r
  BY <1>0, <1>1
<1>4. ASSUME NEW i \in Nat PROVE i < q <=> i * SECTOR < n
  <2>1. i * SECTOR \in Nat /\ q * SECTOR \in Nat
    BY <1>0, <1>1, MulNext
  <2>2. CASE i < q
    <3>1. i * SECTOR + SECTOR <= q * SECTOR
      BY <1>0, <1>1, <2>2, MulStep
    <3> QED
      BY <1>0, <1>1, <1>3, <2>1, <2>2, <3>1
  <2>3. CASE q <= i
    <3>1. q * SECTOR <= i * SECTOR
      <4>1. CASE q = i
        BY <4>1, <2>1
      <4>2. CASE q < i
        BY <4>2, <1>0, <1>1, <2>1, MulStep
      <4> QED
        BY <4>1, <4>2, <2>3, <1>1
    <3> QED
      BY <1>0, <1>1, <1>3, <2>1, <2>3, <3>1
  <2> QED
    BY <2>2, <2>3, <1>1
<1> QED
  BY <1>1, <1>2, <1>4
-----------------------------------------------------------------------------
(* The ring indices.                                                       *)

Index == 0 .. SEQ_WRAP - 1

(* The index after i. *)
LEMMA NextIndex ==
  ASSUME NEW i \in Index
  PROVE  (i + 1) % SEQ_WRAP = IF i + 1 = SEQ_WRAP THEN 0 ELSE i + 1
<1>1. SEQ_WRAP \in Nat \ {0} /\ SEQ_WRAP > 1 /\ i \in 0 .. SEQ_WRAP - 1
  BY FsAssumption DEF Index
<1>2. CASE i + 1 = SEQ_WRAP
  BY <1>1, <1>2
<1>3. CASE i + 1 # SEQ_WRAP
  <2>1. i + 1 \in 0 .. SEQ_WRAP - 1
    BY <1>1, <1>3
  <2> QED BY <1>1, <1>3, <2>1
<1> QED BY <1>2, <1>3

(* How far x is ahead of y. *)
LEMMA Distance ==
  ASSUME NEW x \in Index, NEW y \in Index
  PROVE  (x - y) % SEQ_WRAP = IF y <= x THEN x - y ELSE x - y + SEQ_WRAP
<1>1. SEQ_WRAP \in Nat \ {0} /\ x \in 0 .. SEQ_WRAP - 1 /\ y \in 0 .. SEQ_WRAP - 1
  BY FsAssumption DEF Index
<1>2. CASE y <= x
  <2>1. x - y \in 0 .. SEQ_WRAP - 1
    BY <1>1, <1>2
  <2> QED BY <1>1, <1>2, <2>1
<1>3. CASE x < y
  <2>1. x - y + SEQ_WRAP \in 0 .. SEQ_WRAP - 1
    BY <1>1, <1>3
  <2> QED BY <1>1, <1>3, <2>1
<1> QED BY <1>1, <1>2, <1>3

(* The number of requests the device holds, as both sides move. *)
LEMMA Outstanding ==
  ASSUME NEW x \in Index, NEW y \in Index
  PROVE  /\ (x - y) % SEQ_WRAP \in Index
         /\ (x - y) % SEQ_WRAP = 0 <=> x = y
         /\ (x + 1) % SEQ_WRAP \in Index
         /\ ((x - y) % SEQ_WRAP) + 1 < SEQ_WRAP =>
               (((x + 1) % SEQ_WRAP) - y) % SEQ_WRAP = ((x - y) % SEQ_WRAP) + 1
         /\ x # y =>
               (x - ((y + 1) % SEQ_WRAP)) % SEQ_WRAP = ((x - y) % SEQ_WRAP) - 1
<1>1. SEQ_WRAP \in Nat \ {0} /\ SEQ_WRAP > 1
         /\ x \in 0 .. SEQ_WRAP - 1 /\ y \in 0 .. SEQ_WRAP - 1
  BY FsAssumption DEF Index
<1>2. \A i \in Index : (i + 1) % SEQ_WRAP \in Index
                        /\ (i + 1) % SEQ_WRAP = IF i + 1 = SEQ_WRAP THEN 0 ELSE i + 1
  BY NextIndex, <1>1 DEF Index
<1>3. \A i, j \in Index : (i - j) % SEQ_WRAP = IF j <= i THEN i - j ELSE i - j + SEQ_WRAP
  BY Distance
<1> DEFINE xn == (x + 1) % SEQ_WRAP
           yn == (y + 1) % SEQ_WRAP
<1>4. xn \in Index /\ xn = (IF x + 1 = SEQ_WRAP THEN 0 ELSE x + 1)
  BY <1>2
<1>5. yn \in Index /\ yn = (IF y + 1 = SEQ_WRAP THEN 0 ELSE y + 1)
  BY <1>2
<1>6. (xn - y) % SEQ_WRAP = IF y <= xn THEN xn - y ELSE xn - y + SEQ_WRAP
  BY <1>3, <1>4
<1>7. (x - yn) % SEQ_WRAP = IF yn <= x THEN x - yn ELSE x - yn + SEQ_WRAP
  BY <1>3, <1>5
<1>8. (x - y) % SEQ_WRAP = IF y <= x THEN x - y ELSE x - y + SEQ_WRAP
  BY <1>3
<1> HIDE DEF xn, yn
<1> DEFINE d == (x - y) % SEQ_WRAP
           dx == (xn - y) % SEQ_WRAP
           dy == (x - yn) % SEQ_WRAP
<1>9. d = (IF y <= x THEN x - y ELSE x - y + SEQ_WRAP)
       /\ dx = (IF y <= xn THEN xn - y ELSE xn - y + SEQ_WRAP)
       /\ dy = (IF yn <= x THEN x - yn ELSE x - yn + SEQ_WRAP)
  BY <1>6, <1>7, <1>8
<1> HIDE DEF d, dx, dy
<1>10. d \in 0 .. SEQ_WRAP - 1 /\ (d = 0 <=> x = y)
  BY <1>1, <1>9
<1>11. d + 1 < SEQ_WRAP => dx = d + 1
  BY <1>1, <1>4, <1>9 DEF Index
<1>12. x # y => dy = d - 1
  BY <1>1, <1>5, <1>9 DEF Index
<1>13. d \in Index /\ (d = 0 <=> x = y) /\ xn \in Index
         /\ (d + 1 < SEQ_WRAP => dx = d + 1) /\ (x # y => dy = d - 1)
  BY <1>4, <1>10, <1>11, <1>12 DEF Index
<1>14. (x - y) % SEQ_WRAP \in Index /\ ((x - y) % SEQ_WRAP = 0 <=> x = y)
  BY ONLY <1>13, Zenon DEF d
<1>15. (x + 1) % SEQ_WRAP \in Index
  BY ONLY <1>13, Zenon DEF xn
<1>16. ((x - y) % SEQ_WRAP) + 1 < SEQ_WRAP =>
          (((x + 1) % SEQ_WRAP) - y) % SEQ_WRAP = ((x - y) % SEQ_WRAP) + 1
  BY ONLY <1>13, Zenon DEF d, dx, xn
<1>17. x # y => (x - ((y + 1) % SEQ_WRAP)) % SEQ_WRAP = ((x - y) % SEQ_WRAP) - 1
  BY ONLY <1>13, Zenon DEF d, dy, yn
<1> QED
  BY ONLY <1>14, <1>15, <1>16, <1>17, Zenon
-----------------------------------------------------------------------------
(* The operators.                                                          *)

(* The parameters. *)
LEMMA Sizes ==
  /\ SECTOR \in Nat \ {0} /\ PAGE_BYTES \in Nat
  /\ DIR_ENTRIES \in Nat \ {0}
  /\ TOTAL_SECTORS \in Nat /\ TOTAL_SECTORS > 2
  /\ MAX_STALE \in Nat /\ SEQ_WRAP \in Nat /\ MAX_STALE + 1 < SEQ_WRAP
  /\ SB_SECTOR \in Sectors /\ DIR_SECTOR \in Sectors
  BY FsAssumption DEF SB_SECTOR, DIR_SECTOR, Sectors

(* A catalogue is a sequence of files. *)
FileRec == [name : Nat \ {0}, data : Seq(Nat)]

(* The fields of the files of a catalogue have their types. *)
LEMMA FileType ==
  ASSUME files \in Catalogues
  PROVE  /\ files \in Seq(FileRec) /\ Len(files) \in Nat
         /\ \A j \in 1 .. Len(files) :
               /\ files[j] \in FileRec
               /\ files[j].name \in Nat /\ files[j].name # 0
               /\ files[j].data \in Seq(Nat) /\ Len(files[j].data) \in Nat
               /\ Size(j) \in Nat
         /\ \A i, j \in 1 .. Len(files) : files[i].name = files[j].name => i = j
<1>1. files \in Seq(FileRec) /\ Len(files) \in Nat
  BY FsAssumption DEF FileRec
<1>2. ASSUME NEW j \in 1 .. Len(files)
      PROVE  /\ files[j] \in FileRec
             /\ files[j].name \in Nat /\ files[j].name # 0
             /\ files[j].data \in Seq(Nat) /\ Len(files[j].data) \in Nat
  <2>1. files[j] \in FileRec
    BY <1>1
  <2>2. files[j].name \in Nat \ {0} /\ files[j].data \in Seq(Nat)
    BY <2>1 DEF FileRec
  <2>3. Len(files[j].data) \in Nat
    BY <2>2
  <2> QED
    BY <2>1, <2>2, <2>3
<1>3. ASSUME NEW j \in 1 .. Len(files) PROVE Size(j) \in Nat
  BY <1>2, SectorsOf DEF Size
<1>4. DOMAIN files = 1 .. Len(files)
  BY <1>1
<1> QED
  BY <1>1, <1>2, <1>3, <1>4, FsAssumption

(* A place in a sector. *)
LEMMA InSector ==
  ASSUME NEW n \in Nat
  PROVE  (n % SECTOR) + 1 \in 1 .. SECTOR
<1>1. SECTOR \in Nat \ {0}
  BY Sizes
<1>2. n % SECTOR \in 0 .. SECTOR - 1
  BY <1>1, DivMod
<1>3. PICK q \in 0 .. SECTOR - 1 : q = n % SECTOR
  BY <1>2
<1>4. q + 1 \in 1 .. SECTOR
  BY <1>1
<1> QED
  BY <1>3, <1>4, Zenon

(* What the setup writes are sectors. *)
LEMMA SectorTypes ==
  /\ NoEntry \in DirEntry /\ EmptyDir \in [Entries -> DirEntry]
  /\ \A n \in Nat : Superblock(n) \in AnySector
  /\ \A d \in [Entries -> DirEntry] : Directory(d) \in AnySector
  /\ \A b \in [1 .. SECTOR -> Nat] : Data(b) \in AnySector
  /\ Unwritten \in AnySector
<1>1. NoEntry \in DirEntry
  BY DEF NoEntry, DirEntry
<1>2. EmptyDir \in [Entries -> DirEntry]
  BY <1>1 DEF EmptyDir
<1>3. Zeros \in [1 .. SECTOR -> Nat]
  BY DEF Zeros
<1>4. \A m \in BOOLEAN, n \in Nat, d \in [Entries -> DirEntry], b \in [1 .. SECTOR -> Nat] :
         Sector(m, n, d, b) \in AnySector
  BY DEF Sector, AnySector
<1>5. ASSUME NEW b \in [1 .. SECTOR -> Nat] PROVE AsDir(b) \in [Entries -> DirEntry]
  <2>1. \A n \in Nat : (n % SECTOR) + 1 \in 1 .. SECTOR
    BY InSector
  <2>2. \A n \in Nat : b[(n % SECTOR) + 1] \in Nat
    BY <2>1
  <2>3. \A e \in Entries : e \in Nat /\ e + 1 \in Nat /\ e + 2 \in Nat
    BY Sizes DEF Entries
  <2>4. \A x, y, z \in Nat : [name |-> x, size |-> y, start |-> z] \in DirEntry
    BY DEF DirEntry
  <2> QED
    BY <2>2, <2>3, <2>4 DEF AsDir
<1> QED
  BY <1>1, <1>2, <1>3, <1>4, <1>5, Zenon DEF Superblock, Directory, Data, Unwritten

(* A blank sector is an empty directory. *)
LEMMA BlankDir == Unwritten.ents = EmptyDir
<1>1. \A n \in Nat : (n % SECTOR) + 1 \in 1 .. SECTOR
  BY InSector
<1>2. \A n \in Nat : Zeros[(n % SECTOR) + 1] = 0
  BY <1>1 DEF Zeros
<1>3. \A e \in Entries : e \in Nat /\ e + 1 \in Nat /\ e + 2 \in Nat
  BY Sizes DEF Entries
<1>4. AsDir(Zeros) = EmptyDir
  BY <1>2, <1>3 DEF AsDir, EmptyDir, NoEntry
<1> QED
  BY <1>4 DEF Unwritten, Data, Sector

(* The bytes of a sector of a file. *)
LEMMA ChunkType ==
  ASSUME NEW b \in Seq(Nat), NEW n \in Nat
  PROVE  chunk(b, n) \in [1 .. SECTOR -> Nat]
<1>1. SECTOR \in Nat \ {0} /\ n * SECTOR \in Nat
  BY Sizes, MulNext
<1> DEFINE m == n * SECTOR
<1> HIDE DEF m
<1>2. ASSUME NEW i \in 1 .. SECTOR PROVE (IF m + i <= Len(b) THEN b[m + i] ELSE 0) \in Nat
  BY <1>1 DEF m
<1>3. [i \in 1 .. SECTOR |-> IF m + i <= Len(b) THEN b[m + i] ELSE 0] \in [1 .. SECTOR -> Nat]
  BY <1>2
<1> QED
  BY <1>3 DEF chunk, m

(* The end of a file on the disk. *)
LEMMA EndType ==
  ASSUME NEW e \in DirEntry
  PROVE  e.start \in Nat /\ e.size \in Nat /\ e.name \in Nat
         /\ sectors_of(e.size) \in Nat /\ EndOf(e) \in Nat
         /\ EndOf(e) = e.start + sectors_of(e.size)
         /\ Extent(e) = e.start .. EndOf(e) - 1
<1>1. e.start \in Nat /\ e.size \in Nat /\ e.name \in Nat
  BY DEF DirEntry
<1>2. sectors_of(e.size) \in Nat
  BY <1>1, SectorsOf
<1>3. EndOf(e) = e.start + sectors_of(e.size) /\ EndOf(e) \in Nat
  BY <1>1, <1>2 DEF EndOf
<1>4. Extent(e) = e.start .. EndOf(e) - 1
  <2>1. e.start + (sectors_of(e.size) - 1) = EndOf(e) - 1
    BY <1>1, <1>2, <1>3
  <2> QED
    BY <2>1, Zenon DEF Extent
<1> QED
  BY <1>1, <1>2, <1>3, <1>4

(* A bump allocation keeps files apart. *)
LEMMA PlacedApart ==
  ASSUME NEW d \in [Entries -> DirEntry], NEW n \in Nat, NEW lim \in Nat,
         lim <= TOTAL_SECTORS, Placed(d, n, lim)
  PROVE  Apart(d)
<1>1. \A e \in Entries : /\ d[e].start \in Nat /\ EndOf(d[e]) \in Nat
                         /\ Extent(d[e]) = d[e].start .. EndOf(d[e]) - 1
  BY EndType
<1>2. TOTAL_SECTORS \in Nat /\ Entries \subseteq Nat
  BY Sizes DEF Entries
<1>3. ASSUME NEW e \in Entries, d[e].name # 0
      PROVE  /\ e < n
             /\ DATA_START <= d[e].start /\ EndOf(d[e]) <= lim
             /\ Extent(d[e]) \subseteq DATA_START .. TOTAL_SECTORS - 1
  <2>1. e < n /\ DATA_START <= d[e].start /\ EndOf(d[e]) <= lim
    BY <1>3 DEF Placed
  <2> QED
    BY <1>1, <1>2, <2>1 DEF DATA_START
<1>4. ASSUME NEW e1 \in Entries, NEW e2 \in Entries, e1 < e2,
             d[e1].name # 0, d[e2].name # 0
      PROVE  Extent(d[e1]) \cap Extent(d[e2]) = {}
  <2>1. EndOf(d[e1]) <= d[e2].start
    BY <1>3, <1>4 DEF Placed
  <2> QED
    BY <1>1, <2>1
<1>5. ASSUME NEW e1 \in Entries, NEW e2 \in Entries, e1 # e2,
             d[e1].name # 0, d[e2].name # 0
      PROVE  Extent(d[e1]) \cap Extent(d[e2]) = {}
  <2>1. e1 < e2 \/ e2 < e1
    BY <1>2, <1>5
  <2> QED
    BY <1>4, <1>5, <2>1
<1> QED
  BY <1>3, <1>5 DEF Apart

(* The first free slot is the one after the last file. *)
LEMMA FirstFree ==
  ASSUME files \in Catalogues, NEW d \in [Entries -> DirEntry],
         NEW n \in 0 .. Len(files), NEW lim \in Nat, Placed(d, n, lim)
  PROVE  /\ free_slots(d) # {} <=> n < DIR_ENTRIES
         /\ n < DIR_ENTRIES => n \in Entries /\ Min(free_slots(d)) = n
<1>1. \A e \in Entries : e \in free_slots(d) <=> n <= e
  <2> TAKE e \in Entries
  <2>1. e \in Nat /\ n \in Nat
    BY Sizes DEF Entries
  <2>2. CASE e < n
    <3>1. d[e].name = files[e + 1].name
      BY <2>2 DEF Placed, IsFile
    <3>2. e + 1 \in 1 .. Len(files)
      BY <2>1, <2>2, FileType
    <3> QED
      BY <2>1, <2>2, <3>1, <3>2, FileType DEF free_slots
  <2>3. CASE ~(e < n)
    BY <2>1, <2>3 DEF Placed, free_slots
  <2> QED
    BY <2>2, <2>3
<1>2. n \in Nat /\ n <= DIR_ENTRIES /\ Entries = 0 .. DIR_ENTRIES - 1
  BY FileType DEF Placed, Entries
<1>3. DIR_ENTRIES \in Nat
  BY Sizes
<1>4. free_slots(d) \subseteq Entries /\ Entries \subseteq Nat
  BY <1>2, <1>3 DEF free_slots
<1>5. ASSUME n < DIR_ENTRIES PROVE n \in Entries /\ Min(free_slots(d)) = n
  <2>1. n \in Entries
    BY <1>2, <1>3, <1>5
  <2>2. n \in free_slots(d)
    BY <1>1, <1>2, <2>1
  <2>3. Min(free_slots(d)) \in free_slots(d) /\ Min(free_slots(d)) <= n
    BY <1>4, <2>2, MinIsLeast
  <2>4. n <= Min(free_slots(d)) /\ Min(free_slots(d)) \in Nat
    BY <1>1, <1>4, <2>3
  <2> QED
    BY <1>2, <2>1, <2>3, <2>4
<1>6. ASSUME NEW e \in free_slots(d) PROVE n < DIR_ENTRIES
  <2>1. e \in Entries /\ n <= e
    BY <1>1, <1>4
  <2> QED
    BY <1>2, <1>3, <2>1
<1>7. n < DIR_ENTRIES => free_slots(d) # {}
  BY <1>1, <1>2, <1>5
<1> QED
  BY <1>5, <1>6, <1>7

(* The directory fs_create writes holds one file more. *)
LEMMA NewDir ==
  ASSUME TypeOK, k <= Len(files), k <= DIR_ENTRIES, DATA_START <= sb,
         Placed(dir, k - 1, sb)
  PROVE  /\ new_dir \in [Entries -> DirEntry]
         /\ Placed(new_dir, k, sb + Size(k))
         /\ k - 1 \in Entries /\ k \in 1 .. Len(files)
         /\ new_dir[k - 1] = [name |-> file.name, size |-> Len(file.data), start |-> sb]
         /\ \A e \in Entries : e # k - 1 => new_dir[e] = dir[e]
<1>1. /\ files \in Catalogues /\ k \in 1 .. Len(files) /\ sb \in Nat
      /\ dir \in [Entries -> DirEntry] /\ k - 1 \in 0 .. Len(files)
      /\ DIR_ENTRIES \in Nat /\ k \in Nat /\ Entries \subseteq Nat
      /\ Entries = 0 .. DIR_ENTRIES - 1
  BY FileType, Sizes DEF TypeOK, Entries
<1>2. k - 1 \in Entries /\ Min(free_slots(dir)) = k - 1
  <2>1. k - 1 < DIR_ENTRIES
    BY <1>1
  <2> QED
    BY <1>1, <2>1, FirstFree
<1> DEFINE x == [name |-> file.name, size |-> Len(file.data), start |-> sb]
<1>3. x \in DirEntry /\ x.name = files[k].name /\ x.size = Len(files[k].data) /\ x.start = sb
  BY <1>1, FileType DEF DirEntry, file
<1>4. new_dir = [dir EXCEPT ![k - 1] = x]
  BY <1>2 DEF new_dir
<1> HIDE DEF x
<1>5. /\ new_dir \in [Entries -> DirEntry] /\ new_dir[k - 1] = x
      /\ \A e \in Entries : e # k - 1 => new_dir[e] = dir[e]
  BY <1>1, <1>2, <1>3, <1>4
<1> HIDE DEF new_dir
<1>6. Size(k) \in Nat /\ EndOf(x) = sb + Size(k)
  BY <1>1, <1>3, FileType DEF EndOf, Size
<1>7. \A e \in Entries : dir[e].start \in Nat /\ EndOf(dir[e]) \in Nat
  BY <1>1, EndType
<1>8. ASSUME NEW e \in Entries, e < k
      PROVE  /\ IsFile(new_dir[e], files[e + 1])
             /\ DATA_START <= new_dir[e].start
             /\ EndOf(new_dir[e]) <= sb + Size(k)
  <2>1. CASE e = k - 1
    <3>1. e + 1 = k /\ new_dir[e] = x
      BY <1>1, <1>5, <2>1
    <3>2. IsFile(x, files[k]) /\ DATA_START <= x.start
      BY <1>3 DEF IsFile
    <3> QED
      BY <1>1, <1>6, <3>1, <3>2
  <2>2. CASE e # k - 1
    <3>1. e < k - 1 /\ new_dir[e] = dir[e]
      BY <1>1, <1>5, <1>8, <2>2
    <3>2. IsFile(dir[e], files[e + 1]) /\ DATA_START <= dir[e].start /\ EndOf(dir[e]) <= sb
      BY <3>1 DEF Placed
    <3> QED
      BY <1>1, <1>6, <1>7, <3>1, <3>2
  <2> QED BY <2>1, <2>2
<1>9. ASSUME NEW e \in Entries, ~(e < k) PROVE new_dir[e].name = 0
  <2>1. ~(e < k - 1) /\ new_dir[e] = dir[e]
    BY <1>1, <1>5, <1>9
  <2> QED
    BY <2>1 DEF Placed
<1>10. ASSUME NEW e1 \in Entries, NEW e2 \in Entries, e1 < e2, e2 < k
       PROVE  EndOf(new_dir[e1]) <= new_dir[e2].start
  <2>1. e1 < k - 1 /\ new_dir[e1] = dir[e1]
    BY <1>1, <1>5, <1>10
  <2>2. CASE e2 = k - 1
    <3>1. new_dir[e2].start = sb
      BY <1>3, <1>5, <2>2
    <3> QED
      BY <2>1, <3>1 DEF Placed
  <2>3. CASE e2 # k - 1
    <3>1. e2 < k - 1 /\ new_dir[e2] = dir[e2]
      BY <1>1, <1>5, <1>10, <2>3
    <3> QED
      BY <1>10, <2>1, <3>1 DEF Placed
  <2> QED BY <2>2, <2>3
<1>11. Placed(new_dir, k, sb + Size(k))
  BY <1>8, <1>9, <1>10 DEF Placed
<1> QED
  BY <1>1, <1>2, <1>5, <1>11 DEF x
-----------------------------------------------------------------------------
(* The initial states, and steps that leave a part alone.                  *)

(* The device holds a number of requests, none exactly if the indices agree. *)
LEMMA OutstandingType ==
  ASSUME TypeOK
  PROVE  /\ outstanding \in Nat
         /\ used \in Index /\ seq \in Index
         /\ outstanding = 0 <=> used = seq
         /\ Len(flight) \in Nat /\ flight \in Seq(AnyRq)
<1>1. used \in Index /\ seq \in Index
  BY DEF TypeOK, Index
<1>2. (seq - used) % SEQ_WRAP \in Index /\ ((seq - used) % SEQ_WRAP = 0 <=> seq = used)
  BY <1>1, Outstanding
<1>3. (seq - used) % SEQ_WRAP \in Nat
  BY <1>2, Sizes DEF Index
<1>4. Len(flight) \in Nat /\ flight \in Seq(AnyRq)
  BY DEF TypeOK
<1> QED
  BY <1>1, <1>2, <1>3, <1>4 DEF outstanding

(* An empty ring: the device has taken nothing. *)
LEMMA NoneTaken ==
  ASSUME TypeOK, Ring, used = seq
  PROVE  Len(flight) = 0
  BY OutstandingType DEF Ring

(* The first n bytes. *)
LEMMA FirstBytes ==
  ASSUME NEW S, NEW d \in Seq(S), NEW n \in Nat, n <= Len(d)
  PROVE  /\ SubSeq(d, 1, n) \in Seq(S) /\ Len(SubSeq(d, 1, n)) = n
         /\ \A i \in 1 .. n : SubSeq(d, 1, n)[i] = d[i]
<1>1. Len(d) \in Nat /\ \A i \in 1 .. Len(d) : d[i] \in S
  BY LenProperties, ElementOfSeq
<1>2. \A i \in 1 .. n : d[i] \in S
  BY <1>1
<1>3. n \in Int /\ 1 \in Int
  OBVIOUS
<1>4. /\ SubSeq(d, 1, n) \in Seq(S)
      /\ Len(SubSeq(d, 1, n)) = IF 1 <= n THEN n - 1 + 1 ELSE 0
      /\ \A i \in 1 .. n - 1 + 1 : SubSeq(d, 1, n)[i] = d[1 + i - 1]
  BY <1>2, <1>3, SubSeqProperties
<1>5. n - 1 + 1 = n /\ \A i \in Int : 1 + i - 1 = i
  OBVIOUS
<1>6. Len(SubSeq(d, 1, n)) = n
  BY <1>4, <1>5
<1>7. \A i \in 1 .. n : SubSeq(d, 1, n)[i] = d[i]
  BY <1>4, <1>5
<1> QED
  BY <1>4, <1>6, <1>7

(* What is left of a sequence without one of its elements. *)
LEMMA Removed ==
  ASSUME NEW S, NEW s \in Seq(S), NEW i \in 1 .. Len(s)
  PROVE  /\ RemoveAt(s, i) \in Seq(S) /\ Len(RemoveAt(s, i)) = Len(s) - 1
         /\ \A j \in 1 .. Len(RemoveAt(s, i)) : \E l \in 1 .. Len(s) : RemoveAt(s, i)[j] = s[l]
<1> DEFINE a == SubSeq(s, 1, i - 1)
           b == SubSeq(s, i + 1, Len(s))
           c == a \o b
<1>0. Len(s) \in Nat /\ i \in Nat
  BY LenProperties
<1>1. /\ a \in Seq(S) /\ Len(a) = i - 1
      /\ \A j \in 1 .. i - 1 : a[j] = s[j]
  BY <1>0, FirstBytes
<1>2. \A j \in i + 1 .. Len(s) : s[j] \in S
  BY <1>0, ElementOfSeq
<1>3. /\ b \in Seq(S) /\ Len(b) = Len(s) - i
      /\ \A j \in 1 .. Len(s) - i : b[j] = s[i + j]
  <2>1. /\ b \in Seq(S)
        /\ Len(b) = IF i + 1 <= Len(s) THEN Len(s) - (i + 1) + 1 ELSE 0
        /\ \A j \in 1 .. Len(s) - (i + 1) + 1 : b[j] = s[(i + 1) + j - 1]
    BY <1>0, <1>2, SubSeqProperties
  <2>2. Len(s) - (i + 1) + 1 = Len(s) - i /\ \A j \in Int : (i + 1) + j - 1 = i + j
    BY <1>0
  <2>3. \A j \in 1 .. Len(s) - i : b[j] = s[i + j]
    BY <1>0, <2>1, <2>2
  <2> HIDE DEF b
  <2>4. Len(b) = Len(s) - i
    BY <1>0, <2>1
  <2> QED
    BY <2>1, <2>3, <2>4
<1> HIDE DEF a, b
<1>4. /\ c \in Seq(S) /\ Len(c) = Len(a) + Len(b)
      /\ \A j \in 1 .. Len(a) + Len(b) : c[j] = IF j <= Len(a) THEN a[j] ELSE b[j - Len(a)]
  BY <1>1, <1>3, ConcatProperties
<1>5. RemoveAt(s, i) = c
  BY DEF RemoveAt, a, b
<1> HIDE DEF c
<1>6. Len(c) = Len(s) - 1
  BY <1>0, <1>1, <1>3, <1>4
<1>7. ASSUME NEW j \in 1 .. Len(c) PROVE \E l \in 1 .. Len(s) : c[j] = s[l]
  <2>1. CASE j <= i - 1
    <3>1. c[j] = s[j] /\ j \in 1 .. Len(s)
      BY <1>0, <1>1, <1>3, <1>4, <1>6, <2>1
    <3> QED
      BY <3>1
  <2>2. CASE ~(j <= i - 1)
    <3>1. j - (i - 1) \in 1 .. Len(s) - i /\ i + (j - (i - 1)) = j + 1 /\ j + 1 \in 1 .. Len(s)
      BY <1>0, <1>6, <2>2
    <3>2. c[j] = b[j - (i - 1)]
      BY <1>0, <1>1, <1>3, <1>4, <1>6, <2>2
    <3>3. c[j] = s[j + 1]
      BY <1>3, <3>1, <3>2
    <3> QED
      BY <3>1, <3>3
  <2> QED BY <2>1, <2>2
<1> QED
  BY <1>4, <1>5, <1>6, <1>7

(* The invariant holds when the root task starts. *)
LEMMA InitInv == Init => Inv
<1> SUFFICES ASSUME Init PROVE Inv
  OBVIOUS
<1>1. TypeOK
  <2>1. disk \in [Sectors -> AnySector] /\ data \in AnySector
    BY SectorTypes DEF Init
  <2>2. flight \in Seq(AnyRq) /\ hdr \in AnyRq
    BY DEF Init, NoRq, Rq, AnyRq
  <2>3. used \in 0 .. SEQ_WRAP - 1 /\ seq \in 0 .. SEQ_WRAP - 1
    BY Sizes DEF Init
  <2>4. k \in 1 .. Len(files) + 1 /\ files \in Catalogues
    BY FileType DEF Init
  <2>5. dir \in [Entries -> DirEntry] /\ ent \in DirEntry
    BY SectorTypes DEF Init
  <2>6. sb \in Nat /\ off \in Nat /\ out \in Seq(Nat)
    BY DEF Init
  <2>7. have_shm \in BOOLEAN /\ mixed \in BOOLEAN /\ req \in Requests \cup {NoReq}
    BY DEF Init
  <2>9. ans \in [word : Int, page : Seq(Nat)]
    BY DEF Init, Word, ERR
  <2>8. status \in {"sentinel", "ok", "error"} /\ io \in {"none", "filled", "polling", "ok", "failed"}
           /\ pc \in Labels
    BY DEF Init, Labels
  <2> QED
    BY <2>1, <2>2, <2>3, <2>4, <2>5, <2>6, <2>7, <2>8, <2>9 DEF TypeOK
<1>2. pc = "blk_init" /\ io = "none" /\ used = seq /\ flight = <<>> /\ ~Up
       /\ ~hdr.write /\ Len(flight) = 0 /\ req = NoReq /\ k = 1 /\ ~mixed
  BY DEF Init, Up, NoRq, Rq
<1>3. Ring
  <2>1. outstanding = 0 /\ Owed = 0
    BY <1>1, <1>2, OutstandingType DEF Owed
  <2> QED
    BY <1>2, <2>1 DEF Ring, Clean, OwnFlight, Transferred, OnlyReads
<1>4. Calls
  BY <1>2 DEF Calls, CallAt, CallData
<1>5. OnDisk = EmptyDir
  BY Sizes, BlankDir DEF Init, OnDisk
<1>6. DirApart
  <2>1. Apart(EmptyDir)
    BY DEF Apart, EmptyDir, NoEntry
  <2> QED
    BY <1>2, <1>5, <2>1 DEF DirApart, OnDisk
<1>7. Progress
  BY <1>2, <1>5 DEF Progress
<1>8. Serving
  BY <1>2 DEF Serving
<1> QED
  BY <1>1, <1>3, <1>4, <1>6, <1>7, <1>8 DEF Inv

(* The disk and the program's place decide what has been done. *)
LEMMA SameDisk ==
  ASSUME Progress, Serving, UNCHANGED <<files, disk, pc, locals, have_shm, req>>,
         mixed => mixed'
  PROVE  Progress' /\ Serving'
<1>1. UNCHANGED <<files, disk, pc, k, sb, dir, off, ent, out, req, have_shm>>
  BY DEF locals
<1>2. Progress'
  BY <1>1 DEF Progress, OnDisk, NextFree, Holds, Placed, Stored, Laid, IsFile, EndOf,
              Size, file, new_dir, Up
<1>3. OnDisk' = OnDisk /\ buf_len' = buf_len /\ NoPage' = NoPage
  BY <1>1 DEF OnDisk, buf_len, NoPage
<1>4. Serving'
  <2>1. (pc \in {"serve", "find", "copy"} <=> req # NoReq)'
    BY <1>1 DEF Serving
  <2>2. ASSUME pc \in {"find", "copy"}
        PROVE  /\ req'.op \in {"DATACH", "READFILE"} /\ ~NoPage'
               /\ ~mixed' => req'.i < Len(files') /\ ent' = OnDisk'[req'.i]
    BY <1>1, <1>3, <2>2 DEF Serving
  <2>3. ASSUME pc = "copy"
        PROVE  /\ off' < sectors_of(ent'.size)
               /\ off' > 0 /\ req'.op = "DATACH" => Min({SECTOR, ent'.size}) <= Len(out')
               /\ ~mixed' => out' = Bytes(files'[req'.i + 1].data, Min({off' * SECTOR, buf_len'}))
    BY <1>1, <1>3, <2>3 DEF Serving
  <2> QED
    BY <1>1, <2>1, <2>2, <2>3 DEF Serving
<1> QED
  BY <1>2, <1>4
-----------------------------------------------------------------------------
(* blk_rw.                                                                 *)

(* The buffers and the program's place decide which call it is in. *)
LEMMA SameCalls ==
  ASSUME Calls, UNCHANGED <<files, hdr, data, pc, locals, have_shm, req>>, io # "none" \/ io' = io
  PROVE  Calls'
<1>1. UNCHANGED <<files, hdr, data, pc, k, sb, dir, off, ent>>
  BY DEF locals
<1>2. NoPage' = NoPage /\ file' = file /\ new_dir' = new_dir /\ Size(k)' = Size(k)
  BY <1>1 DEF NoPage, file, new_dir, Size
<1>3. pc \in {"blk_init", "idle", "down"} => io' = "none"
  BY DEF Calls
<1>4. io' # "none" => io # "none"
  OBVIOUS
<1> HIDE DEF file, new_dir, Size, NoPage
<1> QED
  BY <1>1, <1>2, <1>3, <1>4 DEF Calls, CallAt, CallData

(* Filling in a request: the device holds none of the setup's. *)
LEMMA FillKeeps ==
  ASSUME Inv, NEW w \in BOOLEAN, NEW s \in Nat, NEW c \in AnySector, Fill(w, s, c),
         pc \notin {"blk_init", "idle", "down"}, Up => ~w,
         w /\ s = DIR_SECTOR => Apart(c.ents)
  PROVE  TypeOK' /\ Ring' /\ DirApart' /\ Progress' /\ Serving'
<1>1. /\ io = "none" /\ io' = "filled" /\ hdr' = Rq(w, s) /\ status' = "sentinel"
      /\ data' = (IF w THEN c ELSE data)
      /\ mixed' = (mixed \/ used # seq)
      /\ UNCHANGED <<files, disk, flight, used, seq, pc, locals, have_shm, req, ans>>
  BY DEF Fill, device
<1>2. Progress' /\ Serving'
  BY <1>1, SameDisk DEF Inv
<1>3. TypeOK'
  <2>1. hdr' \in AnyRq /\ data' \in AnySector
    BY <1>1 DEF Rq, AnyRq, Inv, TypeOK
  <2>2. mixed' \in BOOLEAN
    BY <1>1
  <2> QED
    BY <1>1, <2>1, <2>2 DEF Inv, TypeOK, locals
<1>4. hdr'.write = w /\ hdr'.sector = s
  BY <1>1 DEF Rq
<1>5. DirApart'
  BY <1>1, <1>4 DEF Inv, DirApart
<1>6. Ring'
  <2>1. outstanding' = outstanding /\ Owed' = Owed
    BY <1>1 DEF outstanding, Owed
  <2>2. ~Up => used = seq
    <3>1. ~Up => Owed = 0
      BY <1>1 DEF Owed, Up
    <3> QED
      BY <3>1, OutstandingType DEF Inv, Ring
  <2>3. ~Up => Len(flight) = 0
    BY <2>2, NoneTaken DEF Inv
  <2>4. OwnFlight'
    BY <1>1, <2>3 DEF OwnFlight, Up
  <2>5. Transferred'
    BY <1>1 DEF Transferred
  <2>6. OnlyReads'
    BY <1>1, <1>4 DEF OnlyReads, Up, Inv, Ring
  <2>7. Clean'
    BY <1>1, <2>2 DEF Clean, Up, Inv, Ring
  <2> QED
    BY <1>1, <2>1, <2>4, <2>5, <2>6, <2>7 DEF Inv, Ring
<1> QED
  BY <1>2, <1>3, <1>5, <1>6

(* A read at its label. *)
LEMMA ReadingKeeps ==
  ASSUME Inv, NEW s \in Nat, Reading(s), pc \notin {"blk_init", "idle", "down"}
  PROVE  TypeOK' /\ Ring' /\ DirApart' /\ Progress' /\ Serving'
<1>1. Fill(FALSE, s, Unwritten) /\ Unwritten \in AnySector
  BY SectorTypes DEF Reading
<1>2. \A w \in BOOLEAN : Fill(w, s, Unwritten) /\ ~w =>
         TypeOK' /\ Ring' /\ DirApart' /\ Progress' /\ Serving'
  BY <1>1, FillKeeps
<1> QED
  BY <1>1, <1>2

(* A write at its label. *)
LEMMA WritingKeeps ==
  ASSUME Inv, NEW s \in Nat, NEW c \in AnySector, Writing(s, c),
         pc \notin {"blk_init", "idle", "down"}, ~Up,
         s = DIR_SECTOR => Apart(c.ents)
  PROVE  TypeOK' /\ Ring' /\ DirApart' /\ Progress' /\ Serving'
<1>1. Fill(TRUE, s, c)
  BY DEF Writing
<1>2. \A w \in BOOLEAN : Fill(w, s, c) =>
         TypeOK' /\ Ring' /\ DirApart' /\ Progress' /\ Serving'
  BY FillKeeps
<1> QED
  BY <1>1, <1>2

(* The file being created, when the setup is at a write. *)
LEMMA AtWrite ==
  ASSUME Inv, pc \in {"write_data", "write_dir", "write_sb"}
  PROVE  /\ k \in 1 .. Len(files) /\ file \in FileRec /\ file.data \in Seq(Nat)
         /\ Size(k) \in Nat /\ sb \in Nat /\ off \in Nat /\ DATA_START <= sb
         /\ Size(k) = sectors_of(Len(file.data))
         /\ TOTAL_SECTORS \in Nat
         /\ sb + Size(k) <= TOTAL_SECTORS
         /\ pc \in {"write_data", "write_dir"} =>
               /\ Placed(dir, k - 1, sb) /\ k <= DIR_ENTRIES
               /\ new_dir \in [Entries -> DirEntry] /\ Apart(new_dir)
               /\ Apart(dir)
         /\ pc = "write_data" => sb + off \in Sectors
<1>1. k \in 1 .. Len(files)
  BY FileType DEF Inv, TypeOK, Progress
<1>2. file \in FileRec /\ file.data \in Seq(Nat) /\ Size(k) \in Nat
  BY <1>1, FileType DEF Inv, TypeOK, file
<1>3. sb \in Nat /\ off \in Nat /\ DATA_START <= sb /\ sb + Size(k) <= TOTAL_SECTORS
  BY DEF Inv, TypeOK, Progress, Holds
<1>4. TOTAL_SECTORS \in Nat
  BY Sizes
<1>5. ASSUME pc \in {"write_data", "write_dir"}
      PROVE  /\ Placed(dir, k - 1, sb) /\ k <= DIR_ENTRIES
             /\ new_dir \in [Entries -> DirEntry] /\ Apart(new_dir) /\ Apart(dir)
  <2>1. Placed(dir, k - 1, sb) /\ k <= DIR_ENTRIES
    BY <1>5 DEF Inv, Progress, Holds
  <2>2. new_dir \in [Entries -> DirEntry] /\ Placed(new_dir, k, sb + Size(k))
    BY <1>1, <1>3, <2>1, NewDir DEF Inv
  <2>3. k \in Nat /\ k - 1 \in Nat /\ sb + Size(k) \in Nat /\ sb <= TOTAL_SECTORS
    BY <1>1, <1>2, <1>3, <1>4
  <2>4. dir \in [Entries -> DirEntry]
    BY DEF Inv, TypeOK
  <2>5. Apart(new_dir)
    BY <1>3, <2>2, <2>3, PlacedApart
  <2>6. Apart(dir)
    BY <1>3, <2>1, <2>3, <2>4, PlacedApart
  <2> QED
    BY <2>1, <2>2, <2>5, <2>6
<1>6. pc = "write_data" => sb + off \in Sectors
  <2> SUFFICES ASSUME pc = "write_data" PROVE sb + off \in Sectors
    OBVIOUS
  <2>1. off < Size(k)
    BY DEF Inv, Progress
  <2> QED
    BY <1>2, <1>3, <1>4, <2>1 DEF Sectors
<1>7. Size(k) = sectors_of(Len(file.data))
  BY DEF Size, file
<1> QED
  BY <1>1, <1>2, <1>3, <1>4, <1>5, <1>6, <1>7

(* The calls of the setup that write. *)
LEMMA WritesKeep ==
  ASSUME Inv, fs_format_sb \/ fs_format_dir \/ create_write_data \/ create_write_dir
                \/ create_write_sb
  PROVE  Inv'
<1>0. 1 \in Nat /\ 2 \in Nat /\ 3 \in Nat
  OBVIOUS
<1>1. CASE fs_format_sb
  <2>1. pc = "format_sb" /\ Writing(SB_SECTOR, Superblock(DATA_START))
    BY <1>1 DEF fs_format_sb
  <2>2. TypeOK' /\ Ring' /\ DirApart' /\ Progress' /\ Serving'
    BY <1>0, <2>1, SectorTypes, WritingKeeps DEF Up, SB_SECTOR, DIR_SECTOR, DATA_START
  <2>3. Calls'
    BY <2>1 DEF Calls, CallAt, CallData, Writing, Fill
  <2> QED
    BY <2>2, <2>3 DEF Inv
<1>2. CASE fs_format_dir
  <2>1. pc = "format_dir" /\ Writing(DIR_SECTOR, Directory(EmptyDir))
    BY <1>2 DEF fs_format_dir
  <2>2. Apart(Directory(EmptyDir).ents)
    BY DEF Apart, Directory, Sector, EmptyDir, NoEntry
  <2>3. Directory(EmptyDir) \in AnySector /\ DIR_SECTOR \in Nat
    BY SectorTypes DEF DIR_SECTOR
  <2>4. TypeOK' /\ Ring' /\ DirApart' /\ Progress' /\ Serving'
    BY <2>1, <2>2, <2>3, WritingKeeps DEF Up
  <2>5. Calls'
    BY <2>1 DEF Calls, CallAt, CallData, Writing, Fill
  <2> QED
    BY <2>4, <2>5 DEF Inv
<1>3. CASE create_write_data
  <2> DEFINE c == Data(chunk(file.data, off))
  <2>1. pc = "write_data" /\ Writing(sb + off, c)
    BY <1>3 DEF create_write_data
  <2>2. c \in AnySector /\ sb + off \in Nat /\ sb + off # DIR_SECTOR
    <3>1. chunk(file.data, off) \in [1 .. SECTOR -> Nat]
      BY <2>1, AtWrite, ChunkType
    <3>3. sb \in Nat /\ off \in Nat /\ DATA_START <= sb
      BY <2>1, AtWrite
    <3>2. sb + off \in Nat /\ sb + off # DIR_SECTOR
      BY <3>3 DEF DATA_START, DIR_SECTOR
    <3> QED
      BY <3>1, <3>2, SectorTypes
  <2>3. Calls'
    BY <2>1 DEF Calls, CallAt, CallData, Writing, Fill, locals, file
  <2> HIDE DEF c
  <2>4. TypeOK' /\ Ring' /\ DirApart' /\ Progress' /\ Serving'
    BY <2>1, <2>2, WritingKeeps DEF Up
  <2> QED
    BY <2>3, <2>4 DEF Inv
<1>4. CASE create_write_dir
  <2> DEFINE c == Directory(new_dir)
  <2>1. pc = "write_dir" /\ Writing(DIR_SECTOR, c)
    BY <1>4 DEF create_write_dir
  <2>2. c \in AnySector /\ Apart(c.ents) /\ DIR_SECTOR \in Nat
    <3>1. new_dir \in [Entries -> DirEntry] /\ Apart(new_dir)
      BY <2>1, AtWrite
    <3> HIDE DEF new_dir
    <3>2. c.ents = new_dir
      BY DEF Directory, Sector
    <3> QED
      BY <3>1, <3>2, SectorTypes DEF DIR_SECTOR
  <2>3. Calls'
    BY <2>1 DEF Calls, CallAt, CallData, Writing, Fill, locals, file, new_dir
  <2> HIDE DEF c
  <2>4. TypeOK' /\ Ring' /\ DirApart' /\ Progress' /\ Serving'
    BY <2>1, <2>2, WritingKeeps DEF Up
  <2> QED
    BY <2>3, <2>4 DEF Inv
<1>5. CASE create_write_sb
  <2> DEFINE c == Superblock(sb + sectors_of(Len(file.data)))
  <2>1. pc = "write_sb" /\ Writing(SB_SECTOR, c)
    BY <1>5 DEF create_write_sb
  <2>2. c \in AnySector /\ SB_SECTOR \in Nat /\ SB_SECTOR # DIR_SECTOR
    <3>1. sb + sectors_of(Len(file.data)) \in Nat
      BY <2>1, AtWrite
    <3> QED
      BY <3>1, SectorTypes DEF SB_SECTOR, DIR_SECTOR
  <2>3. Calls'
    BY <2>1 DEF Calls, CallAt, CallData, Writing, Fill, locals, file, Size
  <2> HIDE DEF c
  <2>4. TypeOK' /\ Ring' /\ DirApart' /\ Progress' /\ Serving'
    BY <2>1, <2>2, WritingKeeps DEF Up
  <2> QED
    BY <2>3, <2>4 DEF Inv
<1> QED
  BY <1>1, <1>2, <1>3, <1>4, <1>5

(* The calls that read. *)
LEMMA ReadsKeep ==
  ASSUME Inv, create_read_sb \/ create_read_dir \/ fs_list \/ serve_read_dir
                \/ find_read_dir \/ copy_read_data
  PROVE  Inv'
<1>1. CASE create_read_sb
  <2>1. pc = "read_sb" /\ Reading(SB_SECTOR) /\ SB_SECTOR \in Nat
    BY <1>1 DEF create_read_sb, SB_SECTOR
  <2>2. Calls'
    BY <2>1 DEF Calls, CallAt, CallData, Reading, Fill
  <2> QED
    BY <2>1, <2>2, ReadingKeeps DEF Inv
<1>2. CASE create_read_dir \/ fs_list \/ serve_read_dir \/ find_read_dir
  <2>1. pc \in {"read_dir", "list", "serve", "find"} /\ Reading(DIR_SECTOR) /\ DIR_SECTOR \in Nat
           /\ (pc = "serve" => ~NoPage)
    BY <1>2 DEF create_read_dir, fs_list, serve_read_dir, find_read_dir, DIR_SECTOR
  <2>2. Calls'
    BY <2>1 DEF Calls, CallAt, CallData, Reading, Fill, NoPage
  <2>3. TypeOK' /\ Ring' /\ DirApart' /\ Progress' /\ Serving'
    BY <2>1, ReadingKeeps
  <2> QED
    BY <2>2, <2>3 DEF Inv
<1>3. CASE copy_read_data
  <2>1. pc = "copy" /\ Reading(ent.start + off)
    BY <1>3 DEF copy_read_data
  <2>2. ent.start + off \in Nat
    BY EndType, SMTT(60) DEF Inv, TypeOK
  <2>3. Calls'
    BY <2>1 DEF Calls, CallAt, CallData, Reading, Fill, locals
  <2>4. TypeOK' /\ Ring' /\ DirApart' /\ Progress' /\ Serving'
    BY <2>1, <2>2, ReadingKeeps
  <2> QED
    BY <2>3, <2>4 DEF Inv
<1> QED
  BY <1>1, <1>2, <1>3

(* Publishing and polling: one request more, and what a poll sees is what  *)
(* its own request did. *)
LEMMA PollsKeep ==
  ASSUME Inv, publish \/ poll_done \/ poll_timeout
  PROVE  Inv'
<1>1. /\ UNCHANGED <<files, disk, flight, used, hdr, data, status, pc, locals, client>>
      /\ io \in {"filled", "polling"} /\ io' \in {"polling", "ok", "failed"}
  BY DEF publish, poll_done, poll_timeout, device
<1>2. Progress' /\ Serving'
  BY <1>1, SameDisk DEF Inv, client
<1>3. Calls'
  BY <1>1, SameCalls DEF Inv, client
<1>4. DirApart'
  BY <1>1 DEF Inv, DirApart
<1>5. seq' \in Index /\ used \in Index /\ seq \in Index
  BY <1>1, OutstandingType, Outstanding DEF Inv, publish, poll_done, poll_timeout
<1>6. TypeOK'
  BY <1>1, <1>5 DEF Inv, TypeOK, locals, client, Index
<1>7. OnlyReads' /\ mixed' = mixed /\ Up' = Up
  BY <1>1 DEF Inv, Ring, OnlyReads, Up, client
<1>8. CASE publish
  <2>1. io = "filled" /\ io' = "polling" /\ seq' = (seq + 1) % SEQ_WRAP
    BY <1>8 DEF publish
  <2>2. pc \in Labels \ {"blk_init", "idle", "down"}
    BY <2>1 DEF Inv, TypeOK, Calls
  <2>3. Owed \in Nat /\ Owed <= MAX_STALE /\ Owed' = Owed + 1
    BY <1>1, <2>1, <2>2, Sizes DEF Owed
  <2>4. outstanding \in Nat /\ outstanding <= Owed /\ outstanding + 1 < SEQ_WRAP
    BY <2>3, OutstandingType, Sizes DEF Inv, Ring
  <2>5. outstanding' = outstanding + 1
    BY <1>1, <1>5, <2>1, <2>4, Outstanding DEF outstanding
  <2>6. used' # seq'
    <3>1. (seq' - used) % SEQ_WRAP = 0 <=> seq' = used
      BY <1>5, Outstanding
    <3>2. (seq' - used) % SEQ_WRAP = outstanding + 1
      BY <1>1, <2>5 DEF outstanding
    <3> QED
      BY <1>1, <2>4, <3>1, <3>2
  <2>7. outstanding' <= Owed'
    BY <2>3, <2>4, <2>5
  <2>8. ~mixed => used = seq
    BY <2>1 DEF Inv, Ring, Clean
  <2>10. Clean'
    <3>1. ~mixed => outstanding' <= 1
      BY <2>4, <2>5, <2>8, OutstandingType DEF Inv
    <3> QED
      BY <1>7, <2>1, <3>1 DEF Inv, Ring, Clean
  <2>11. OwnFlight'
    <3>1. ~mixed => Len(flight) = 0
      BY <2>8, NoneTaken DEF Inv
    <3>2. ~Up => ~mixed
      BY DEF Inv, Ring, Clean
    <3> QED
      BY <1>1, <1>7, <3>1, <3>2 DEF OwnFlight
  <2>12. Len(flight') <= outstanding'
    BY <1>1, <2>4, <2>5, OutstandingType DEF Inv, Ring
  <2>9. Transferred'
    BY <2>1, <2>6 DEF Transferred
  <2> QED
    BY <1>2, <1>3, <1>4, <1>6, <1>7, <2>7, <2>9, <2>10, <2>11, <2>12 DEF Inv, Ring
<1>9. CASE poll_done \/ poll_timeout
  <2>1. io = "polling" /\ seq' = seq
    BY <1>9 DEF poll_done, poll_timeout
  <2>2. outstanding' = outstanding
    BY <1>1, <2>1 DEF outstanding
  <2>3. pc \in Labels \ {"blk_init", "idle", "down"}
    BY <2>1 DEF Inv, TypeOK, Calls
  <2>4. outstanding' <= Owed'
    <3>1. CASE io' = "failed"
      <4>1. Owed' = Owed
        BY <1>1, <2>1, <3>1 DEF Owed
      <4> QED
        BY <2>2, <4>1 DEF Inv, Ring
    <3>2. CASE io' = "ok"
      <4>1. outstanding = 0
        BY <1>9, <3>2, OutstandingType DEF poll_done, poll_timeout, Inv
      <4>2. Owed' = 0
        BY <1>1, <2>3, <3>2 DEF Owed
      <4> QED
        BY <2>2, <4>1, <4>2
    <3> QED
      BY <1>9, <3>1, <3>2 DEF poll_done, poll_timeout
  <2>5. OwnFlight'
    BY <1>1, <1>7, <1>9, <2>1 DEF Inv, Ring, OwnFlight, poll_done, poll_timeout
  <2>6. Transferred'
    BY <1>1, <1>7, <1>9, <2>1 DEF Inv, Ring, Transferred, poll_done, poll_timeout
  <2>7. (Len(flight) <= outstanding)' /\ Clean'
    BY <1>1, <1>7, <1>9, <2>1, <2>2 DEF Inv, Ring, Clean, poll_done, poll_timeout
  <2> QED
    BY <1>2, <1>3, <1>4, <1>6, <1>7, <2>4, <2>5, <2>6, <2>7 DEF Inv, Ring
<1> QED
  BY <1>8, <1>9
-----------------------------------------------------------------------------
(* The device.                                                             *)

(* It takes a request: the last one it holds with the header in place. *)
LEMMA FetchKeeps ==
  ASSUME Inv, fetch
  PROVE  Inv'
<1>1. /\ UNCHANGED <<files, disk, used, hdr, data, status, seq, io, pc, locals, client>>
      /\ Len(flight) < outstanding /\ flight' = Append(flight, hdr)
  BY DEF fetch, ring
<1>2. Progress' /\ Serving'
  BY <1>1, SameDisk DEF Inv, client
<1>3. Calls'
  BY <1>1, SameCalls DEF Inv, client
<1>4. DirApart'
  BY <1>1 DEF Inv, DirApart
<1>5. /\ flight' \in Seq(AnyRq) /\ Len(flight') = Len(flight) + 1
      /\ \A i \in 1 .. Len(flight') : flight'[i] = hdr \/ (i \in 1 .. Len(flight) /\ flight'[i] = flight[i])
  <2>1. flight \in Seq(AnyRq) /\ hdr \in AnyRq
    BY DEF Inv, TypeOK
  <2>2. /\ flight' \in Seq(AnyRq) /\ Len(flight') = Len(flight) + 1
        /\ \A i \in 1 .. Len(flight) : flight'[i] = flight[i]
        /\ flight'[Len(flight) + 1] = hdr
    BY <1>1, <2>1, AppendProperties
  <2>3. Len(flight) \in Nat
    BY <2>1, LenProperties
  <2> QED
    BY <2>2, <2>3
<1>6. TypeOK'
  BY <1>1, <1>5 DEF Inv, TypeOK, locals, client
<1>7. outstanding' = outstanding /\ Owed' = Owed /\ Up' = Up /\ mixed' = mixed
  BY <1>1 DEF outstanding, Owed, Up, client
<1>8. OwnFlight'
  BY <1>1, <1>5, <1>7 DEF Inv, Ring, OwnFlight
<1>9. OnlyReads'
  BY <1>1, <1>5, <1>7 DEF Inv, Ring, OnlyReads
<1>10. Transferred' /\ Clean'
  BY <1>1, <1>7 DEF Inv, Ring, Transferred, Clean
<1>11. Len(flight') <= outstanding'
  BY <1>1, <1>5, <1>7, OutstandingType DEF Inv
<1>12. Ring'
  BY <1>7, <1>8, <1>9, <1>10, <1>11 DEF Inv, Ring
<1> QED
  BY <1>2, <1>3, <1>4, <1>6, <1>12 DEF Inv

(* A write elsewhere leaves the files in place. *)
LEMMA StoredElsewhere ==
  ASSUME NEW d \in [Entries -> DirEntry], NEW n \in Nat, NEW lim \in Nat,
         Placed(d, n, lim), Stored(d, n),
         \A s \in Sectors : DATA_START <= s /\ s < lim => disk'[s] = disk[s],
         lim <= TOTAL_SECTORS
  PROVE  \A e \in Entries : e < n =>
            \A i \in 0 .. sectors_of(d[e].size) - 1 :
               disk'[d[e].start + i] = Data(chunk(files[e + 1].data, i))
<1> SUFFICES ASSUME NEW e \in Entries, e < n, NEW i \in 0 .. sectors_of(d[e].size) - 1
             PROVE  disk'[d[e].start + i] = Data(chunk(files[e + 1].data, i))
  OBVIOUS
<1>1. /\ d[e].start \in Nat /\ sectors_of(d[e].size) \in Nat
      /\ EndOf(d[e]) = d[e].start + sectors_of(d[e].size)
  BY EndType
<1>2. DATA_START <= d[e].start /\ EndOf(d[e]) <= lim
  BY DEF Placed
<1>3. TOTAL_SECTORS \in Nat
  BY Sizes
<1>4. /\ d[e].start + i \in Sectors /\ DATA_START <= d[e].start + i
      /\ d[e].start + i < lim
  BY <1>1, <1>2, <1>3 DEF Sectors, DATA_START
<1>5. disk[d[e].start + i] = Data(chunk(files[e + 1].data, i))
  BY DEF Stored, Laid
<1> QED
  BY <1>4, <1>5

(* A write of the setup lands. *)
LEMMA LandedProgress ==
  ASSUME Inv, pc \in {"format_sb", "format_dir", "write_data", "write_dir", "write_sb"},
         io # "none", disk' = [disk EXCEPT ![hdr.sector] = data],
         UNCHANGED <<files, pc, locals, client>>
  PROVE  Progress' /\ Serving'
<1>1. /\ SB_SECTOR \in Sectors /\ DIR_SECTOR \in Sectors /\ SB_SECTOR # DIR_SECTOR
      /\ disk \in [Sectors -> AnySector] /\ TOTAL_SECTORS \in Nat
  BY Sizes DEF Inv, TypeOK, SB_SECTOR, DIR_SECTOR
<1>2. UNCHANGED <<files, pc, k, sb, dir, off, ent, out, req, have_shm>>
  BY DEF locals, client
<1>3. Serving'
  BY <1>2 DEF Inv, Serving
<1>4. CASE pc = "format_sb"
  <2>1. hdr.sector = SB_SECTOR
    BY <1>4 DEF Inv, Calls, CallAt, Rq
  <2>2. OnDisk' = OnDisk
    BY <1>1, <2>1 DEF OnDisk
  <2> QED
    BY <1>2, <1>3, <1>4, <2>2 DEF Inv, Progress, Up
<1>5. CASE pc = "format_dir"
  <2>1. hdr.sector = DIR_SECTOR /\ data = Directory(EmptyDir)
    BY <1>5 DEF Inv, Calls, CallAt, CallData, Rq
  <2>2. OnDisk' = EmptyDir /\ disk'[SB_SECTOR] = disk[SB_SECTOR]
    BY <1>1, <2>1 DEF OnDisk, Directory, Sector
  <2> QED
    BY <1>2, <1>3, <1>5, <2>2 DEF Inv, Progress, Up
<1>6. CASE pc = "write_data"
  <2>0. /\ sb + off \in Sectors /\ sb \in Nat /\ off \in Nat /\ Size(k) \in Nat
        /\ DATA_START <= sb /\ sb + Size(k) <= TOTAL_SECTORS /\ k \in Nat /\ k - 1 \in Nat
    BY <1>6, AtWrite, FileType DEF Inv, TypeOK
  <2>1. hdr.sector = sb + off
    BY <1>6 DEF Inv, Calls, CallAt, Rq
  <2>2. Holds(dir, k - 1, sb) /\ OnDisk = dir /\ off < Size(k) /\ Laid(sb, file.data, off)
    BY <1>6 DEF Inv, Progress
  <2>3. \A s \in Sectors : s # sb + off => disk'[s] = disk[s]
    BY <1>1, <2>1
  <2>4. OnDisk' = dir
    BY <1>1, <2>0, <2>2, <2>3 DEF OnDisk, DIR_SECTOR, DATA_START
  <2>5. \A s \in Sectors : DATA_START <= s /\ s < sb => disk'[s] = disk[s]
    BY <2>0, <2>3, <1>1 DEF Sectors
  <2>6. dir \in [Entries -> DirEntry]
    BY DEF Inv, TypeOK
  <2>7. \A e \in Entries : e < k - 1 =>
            \A i \in 0 .. sectors_of(dir[e].size) - 1 :
               disk'[dir[e].start + i] = Data(chunk(files[e + 1].data, i))
    BY <2>0, <2>2, <2>5, <2>6, StoredElsewhere DEF Holds
  <2>8. Holds(dir, k - 1, sb)'
    BY <1>2, <2>2, <2>7 DEF Holds, Placed, IsFile, EndOf, Stored, Laid
  <2>9. Laid(sb, file.data, off)'
    <3>1. ASSUME NEW i \in 0 .. off - 1 PROVE disk'[sb + i] = disk[sb + i]
      BY <1>1, <2>0, <2>3 DEF Sectors
    <3> QED
      BY <1>2, <2>2, <3>1 DEF Laid, file
  <2>10. Size(k)' = Size(k)
    BY <1>2 DEF Size
  <2>11. k <= Len(files) /\ k <= DIR_ENTRIES
    BY <1>6 DEF Inv, Progress
  <2> QED
    BY <1>2, <1>3, <1>6, <2>0, <2>2, <2>4, <2>8, <2>9, <2>10, <2>11 DEF Progress, Up
<1>7. CASE pc = "write_dir"
  <2>0. /\ sb \in Nat /\ Size(k) \in Nat
        /\ DATA_START <= sb /\ sb + Size(k) <= TOTAL_SECTORS /\ k \in Nat /\ k - 1 \in Nat
    BY <1>7, AtWrite, FileType DEF Inv, TypeOK
  <2>1. hdr.sector = DIR_SECTOR /\ data = Directory(new_dir)
    BY <1>7 DEF Inv, Calls, CallAt, CallData, Rq
  <2>2. Holds(dir, k - 1, sb) /\ Laid(sb, file.data, Size(k))
    BY <1>7 DEF Inv, Progress
  <2>3. \A s \in Sectors : DATA_START <= s => disk'[s] = disk[s]
    BY <1>1, <2>1 DEF DIR_SECTOR, DATA_START
  <2>4. OnDisk' = new_dir
    <3>1. disk'[DIR_SECTOR] = Directory(new_dir)
      BY <1>1, <2>1
    <3> QED
      BY <3>1 DEF OnDisk, Directory, Sector
  <2>6. dir \in [Entries -> DirEntry]
    BY DEF Inv, TypeOK
  <2>7. \A e \in Entries : e < k - 1 =>
            \A i \in 0 .. sectors_of(dir[e].size) - 1 :
               disk'[dir[e].start + i] = Data(chunk(files[e + 1].data, i))
    BY <2>0, <2>2, <2>3, <2>6, StoredElsewhere DEF Holds
  <2>8. Holds(dir, k - 1, sb)'
    BY <1>2, <2>2, <2>7 DEF Holds, Placed, IsFile, EndOf, Stored, Laid
  <2>9. Laid(sb, file.data, Size(k))'
    <3>1. ASSUME NEW i \in 0 .. Size(k) - 1 PROVE disk'[sb + i] = disk[sb + i]
      BY <1>1, <2>0, <2>3 DEF Sectors, DATA_START
    <3> QED
      BY <1>2, <2>2, <3>1 DEF Laid, file, Size
  <2>10. Size(k)' = Size(k) /\ new_dir' = new_dir
    BY <1>2 DEF Size, new_dir, file
  <2>11. k <= Len(files) /\ k <= DIR_ENTRIES
    BY <1>7 DEF Inv, Progress
  <2> QED
    BY <1>2, <1>3, <1>7, <2>0, <2>2, <2>4, <2>8, <2>9, <2>10, <2>11 DEF Progress, Up
<1>8. CASE pc = "write_sb"
  <2>0. /\ sb \in Nat /\ Size(k) \in Nat /\ sb + Size(k) \in Nat
        /\ DATA_START <= sb /\ sb + Size(k) <= TOTAL_SECTORS /\ k \in Nat
    BY <1>8, AtWrite, FileType, SMTT(60) DEF Inv, TypeOK
  <2>1. hdr.sector = SB_SECTOR
    BY <1>8 DEF Inv, Calls, CallAt, Rq
  <2>2. Holds(OnDisk, k, sb + Size(k))
    BY <1>8 DEF Inv, Progress
  <2>3. \A s \in Sectors : DATA_START <= s => disk'[s] = disk[s]
    BY <1>1, <2>1 DEF SB_SECTOR, DATA_START
  <2>4. OnDisk' = OnDisk
    BY <1>1, <2>1 DEF OnDisk
  <2>6. OnDisk \in [Entries -> DirEntry]
    BY <1>1 DEF OnDisk, AnySector
  <2>7. \A e \in Entries : e < k =>
            \A i \in 0 .. sectors_of(OnDisk[e].size) - 1 :
               disk'[OnDisk[e].start + i] = Data(chunk(files[e + 1].data, i))
    <3> HIDE DEF OnDisk
    <3> QED
      BY <2>0, <2>2, <2>3, <2>6, StoredElsewhere DEF Holds
  <2>10. Size(k)' = Size(k)
    BY <1>2 DEF Size
  <2>8. Holds(OnDisk, k, sb + Size(k))'
    <3>1. Placed(OnDisk, k, sb + Size(k))'
      <4> HIDE DEF OnDisk, Size
      <4> QED BY <1>2, <2>2, <2>4, <2>10 DEF Holds, Placed, IsFile, EndOf
    <3>2. Stored(OnDisk, k)'
      <4> HIDE DEF OnDisk
      <4> QED BY <1>2, <2>4, <2>7 DEF Stored, Laid
    <3> QED
      BY <1>2, <2>0, <2>10, <3>1, <3>2 DEF Holds
  <2>11. k <= Len(files)
    BY <1>8 DEF Inv, Progress
  <2> QED
    BY <1>2, <1>3, <1>8, <2>0, <2>8, <2>10, <2>11 DEF Progress, Up
<1> QED
  BY <1>4, <1>5, <1>6, <1>7, <1>8

(* It completes a request: of the setup, the one in the header; of the     *)
(* service, a read. *)
LEMMA CompleteKeeps ==
  ASSUME Inv, NEW i \in DOMAIN flight, NEW ok \in BOOLEAN, complete(i, ok)
  PROVE  Inv' /\ (Up => disk' = disk)
<1> DEFINE rq == flight[i]
<1>1. /\ UNCHANGED <<files, hdr, seq, io, pc, locals, client>>
      /\ flight' = RemoveAt(flight, i) /\ used' = (used + 1) % SEQ_WRAP
      /\ status' = (IF ok THEN "ok" ELSE "error")
      /\ ok => rq.sector \in Sectors
      /\ disk' = (IF ok /\ rq.write THEN [disk EXCEPT ![rq.sector] = data] ELSE disk)
      /\ data' = (IF ok /\ ~rq.write THEN disk[rq.sector] ELSE data)
  BY DEF complete
<1>2. /\ flight \in Seq(AnyRq) /\ Len(flight) \in Nat /\ i \in 1 .. Len(flight)
      /\ rq \in AnyRq
  <2>1. flight \in Seq(AnyRq)
    BY DEF Inv, TypeOK
  <2> QED
    BY <2>1, LenProperties, ElementOfSeq
<1>3. /\ flight' \in Seq(AnyRq) /\ Len(flight') = Len(flight) - 1
      /\ \A j \in 1 .. Len(flight') : \E l \in 1 .. Len(flight) : flight'[j] = flight[l]
  <2>1. PICK s \in Seq(AnyRq) : s = flight
    BY <1>2
  <2>2. i \in 1 .. Len(s) /\ s \in Seq(AnyRq)
    BY <1>2, <2>1
  <2>3. /\ RemoveAt(s, i) \in Seq(AnyRq) /\ Len(RemoveAt(s, i)) = Len(s) - 1
        /\ \A j \in 1 .. Len(RemoveAt(s, i)) : \E l \in 1 .. Len(s) : RemoveAt(s, i)[j] = s[l]
    BY ONLY <2>2, Removed, ZenonT(60)
  <2>4. flight' = RemoveAt(s, i)
    BY <1>1, <2>1
  <2> QED
    BY ONLY <2>1, <2>3, <2>4, Zenon
<1>4. used \in Index /\ seq \in Index /\ outstanding \in Nat /\ outstanding # 0 /\ used # seq
        /\ Len(flight) <= outstanding
  BY <1>2, OutstandingType DEF Inv, Ring
<1>5. used' \in Index /\ outstanding' = outstanding - 1
  BY <1>1, <1>4, Outstanding DEF outstanding
<1>6. Owed' = Owed /\ outstanding <= Owed /\ Up' = Up /\ mixed' = mixed
  BY <1>1 DEF Owed, Inv, Ring, Up, client
<1>7. ~Up \/ (~mixed /\ io = "polling") => rq = hdr
  BY <1>2 DEF Inv, Ring, OwnFlight
<1>8. ~Up => pc = "down" \/ io \in {"polling", "failed"}
  BY <1>4, <1>6 DEF Owed, Up
<1>9. Up => ~rq.write /\ ~hdr.write
  BY <1>2 DEF Inv, Ring, OnlyReads
<1> HIDE DEF rq
<1>10. disk' # disk => ok /\ rq.write
  BY <1>1
<1>11. data' # data => ~hdr.write
  BY <1>1, <1>7, <1>9
<1>12. TypeOK'
  <2>1. disk' \in [Sectors -> AnySector] /\ data' \in AnySector
    BY <1>1 DEF Inv, TypeOK
  <2> QED
    BY <1>1, <1>3, <1>5, <2>1 DEF Inv, TypeOK, locals, client, Index
<1>13. Ring'
  <2>1. Transferred'
    <3>1. io # "ok"
      BY <1>4 DEF Inv, Ring, Transferred
    <3> SUFFICES ASSUME ~mixed, io = "polling", ok
                 PROVE  hdr.sector \in Sectors /\ disk'[hdr.sector] = data'
      BY <1>1, <1>6, <3>1 DEF Transferred
    <3>2. rq = hdr
      BY <1>7
    <3> QED
      BY <1>1, <3>2 DEF Inv, TypeOK
  <2>2. OnlyReads'
    BY <1>1, <1>3, <1>6 DEF Inv, Ring, OnlyReads
  <2>3. OwnFlight'
    BY <1>1, <1>3, <1>6 DEF Inv, Ring, OwnFlight
  <2>4. Len(flight') <= outstanding'
    BY <1>2, <1>3, <1>4, <1>5
  <2>5. outstanding' <= Owed'
    <3>1. Owed \in Nat
      BY Sizes DEF Owed
    <3> QED
      BY <1>4, <1>5, <1>6, <3>1
  <2>6. Clean'
    <3>1. ~mixed /\ io = "polling" => outstanding' <= 1
      <4>1. ~mixed /\ io = "polling" => outstanding <= 1
        BY DEF Inv, Ring, Clean
      <4> QED
        BY <1>4, <1>5, <4>1
    <3>2. ~(~mixed /\ io = "filled") /\ (~Up => ~mixed)
      BY <1>4 DEF Inv, Ring, Clean
    <3> QED
      BY <1>1, <1>6, <3>1, <3>2 DEF Clean
  <2> QED
    BY <2>1, <2>2, <2>3, <2>4, <2>5, <2>6 DEF Ring
<1>14. Calls'
  <2>1. CASE data' = data
    BY <1>1, <2>1, SameCalls DEF Inv, client
  <2>2. CASE data' # data
    <3>1. io # "none" =>
             pc \notin {"format_sb", "format_dir", "write_data", "write_dir", "write_sb"}
      BY <1>11, <2>2 DEF Inv, Calls, CallAt, Rq
    <3> QED
      BY <1>1, <3>1 DEF Inv, Calls, CallAt, CallData, NoPage, locals, client
  <2> QED BY <2>1, <2>2
<1>15. DirApart'
  <2>1. CASE disk' = disk
    BY <1>1, <1>11, <2>1 DEF Inv, DirApart
  <2>2. CASE disk' # disk
    <3>1. ~Up /\ rq = hdr /\ ok /\ rq.write /\ hdr.sector \in Sectors
      BY <1>1, <1>7, <1>9, <1>10, <2>2
    <3>2. disk' = [disk EXCEPT ![hdr.sector] = data] /\ data' = data
      BY <1>1, <3>1
    <3>3. disk'[DIR_SECTOR] = IF hdr.sector = DIR_SECTOR THEN data ELSE disk[DIR_SECTOR]
      BY <3>1, <3>2, Sizes DEF Inv, TypeOK
    <3> QED
      BY <1>1, <3>1, <3>2, <3>3 DEF Inv, DirApart
  <2> QED BY <2>1, <2>2
<1>16. Progress' /\ Serving'
  <2>1. CASE disk' = disk
    BY <1>1, <2>1, SameDisk DEF Inv, client
  <2>2. CASE disk' # disk
    <3>1. ~Up /\ rq = hdr /\ ok /\ rq.write /\ (pc = "down" \/ io # "none")
      BY <1>7, <1>8, <1>9, <1>10, <2>2
    <3>2. disk' = [disk EXCEPT ![hdr.sector] = data]
      BY <1>1, <3>1
    <3>3. CASE pc = "down"
      BY <1>1, <3>3 DEF Inv, Progress, Serving, Up, client
    <3>4. CASE pc # "down"
      <4>1. pc \in {"format_sb", "format_dir", "write_data", "write_dir", "write_sb"}
        BY <3>1, <3>4 DEF Inv, TypeOK, Labels, Creating, Calls, CallAt, Rq, Up
      <4> QED
        BY <1>1, <3>1, <3>2, <3>4, <4>1, LandedProgress
    <3> QED BY <3>3, <3>4
  <2> QED BY <2>1, <2>2
<1>17. Up => disk' = disk
  BY <1>9, <1>10
<1> QED
  BY <1>12, <1>13, <1>14, <1>15, <1>16, <1>17 DEF Inv

-----------------------------------------------------------------------------
(* fs_setup.                                                               *)

(* blk_rw has returned: the ring, the buffers and the disk stay. *)
LEMMA ReturnKeeps ==
  ASSUME Inv, io' = "none", UNCHANGED <<files, device, hdr, data, status, seq>>,
         outstanding <= Owed', Up \/ ~Up' \/ pc = "list", ~Up' => ~Up,
         io # "none" \/ pc # "list", mixed' => mixed
  PROVE  Ring' /\ Calls' /\ DirApart'
<1>1. UNCHANGED <<files, disk, flight, used, hdr, data, status, seq>>
  BY DEF device
<1>2. outstanding' = outstanding
  BY <1>1 DEF outstanding
<1>3. Calls' /\ DirApart'
  BY <1>1 DEF Inv, DirApart, Calls, CallAt, CallData
<1>4. OnlyReads'
  <2>1. CASE Up
    BY <1>1, <2>1 DEF Inv, Ring, OnlyReads
  <2>2. CASE pc = "list"
    <3>1. hdr = Rq(FALSE, DIR_SECTOR) /\ ~Up
      BY <2>2 DEF Inv, Calls, CallAt, Up
    <3>2. \A i \in 1 .. Len(flight) : flight[i] = hdr
      BY <3>1 DEF Inv, Ring, OwnFlight
    <3> QED
      BY <1>1, <3>1, <3>2 DEF OnlyReads, Rq
  <2> QED
    BY <2>1, <2>2 DEF OnlyReads
<1>5. OwnFlight' /\ Clean'
  BY <1>1 DEF Inv, Ring, OwnFlight, Clean
<1>6. Transferred'
  BY DEF Transferred
<1> QED
  BY <1>1, <1>2, <1>3, <1>4, <1>5, <1>6 DEF Inv, Ring

(* What blk_rw left behind when it returned TRUE. *)
LEMMA OkLeft ==
  ASSUME Inv, io = "ok"
  PROVE  /\ outstanding = 0
         /\ ~mixed => hdr.sector \in Sectors /\ disk[hdr.sector] = data
         /\ data \in AnySector /\ data.next_free \in Nat
         /\ data.ents \in [Entries -> DirEntry] /\ data.bytes \in [1 .. SECTOR -> Nat]
         /\ ~Up => ~mixed
<1>1. used = seq /\ status = "ok"
  BY DEF Inv, Ring, Transferred
<1>2. data \in AnySector
  BY DEF Inv, TypeOK
<1>3. ~Up => ~mixed
  BY DEF Inv, Ring, Clean
<1> QED
  BY <1>1, <1>2, <1>3, OutstandingType DEF Inv, Ring, Transferred, AnySector

(* A step of the setup to another of its labels keeps the ring. *)
LEMMA SetupRing ==
  ASSUME Inv, io' = "none", UNCHANGED <<files, device, hdr, data, status, seq>>,
         ~Up, ~Up', io = "ok" \/ pc = "blk_init" \/ pc' = "down",
         pc' # "idle", io # "none" \/ pc # "list", UNCHANGED mixed
  PROVE  Ring' /\ Calls' /\ DirApart'
<1>1. Owed' \in {0, 1, MAX_STALE} /\ Owed' >= 0
  BY Sizes DEF Owed
<1>2. CASE pc' = "down"
  <2>1. Owed' = 1
    BY <1>2 DEF Owed
  <2>2. Owed \in 0 .. 1 /\ outstanding \in Nat /\ outstanding <= Owed
    BY OutstandingType DEF Owed, Up, Inv, Ring
  <2>3. outstanding <= Owed'
    BY <2>1, <2>2
  <2> QED
    BY <2>3, ReturnKeeps
<1>3. CASE io = "ok"
  BY <1>1, <1>3, OkLeft, ReturnKeeps
<1>4. CASE pc = "blk_init"
  <2>1. io = "none"
    BY <1>4 DEF Inv, Calls
  <2>2. Owed = 0 /\ outstanding \in Nat /\ outstanding <= Owed
    BY <1>4, <2>1, OutstandingType DEF Owed, Inv, Ring
  <2>3. outstanding <= Owed'
    BY <1>1, <2>2
  <2> QED
    BY <2>3, ReturnKeeps
<1> QED
  BY <1>2, <1>3, <1>4

(* An empty file system. *)
LEMMA EmptyHolds ==
  ASSUME NEW lim \in Nat, DATA_START <= lim, lim <= TOTAL_SECTORS
  PROVE  Holds(EmptyDir, 0, lim)
<1>1. \A e \in Entries : ~(e < 0) /\ EmptyDir[e].name = 0
  BY Sizes DEF Entries, EmptyDir, NoEntry
<1>2. Placed(EmptyDir, 0, lim)
  BY <1>1, Sizes DEF Placed
<1>3. Stored(EmptyDir, 0)
  BY <1>1 DEF Stored
<1> QED
  BY <1>2, <1>3 DEF Holds

(* blk_init, and a failed call. *)
LEMMA InitFailKeeps ==
  ASSUME Inv, setup_failed \/ \E ok \in BOOLEAN : blk_init(ok)
  PROVE  Inv'
<1>1. /\ UNCHANGED <<files, device, hdr, data, status, seq>>
      /\ UNCHANGED <<locals, client>> /\ io' = "none"
      /\ \/ pc = "blk_init" /\ pc' = "format_sb"
         \/ pc \in {"blk_init"} \cup Creating /\ pc' = "down"
  BY DEF setup_failed, blk_init, Goto, Failed, Returned, Inv, Calls
<1>2. Ring' /\ Calls' /\ DirApart'
  BY <1>1, SetupRing DEF Up, Creating, client
<1>3. TypeOK'
  BY <1>1 DEF Inv, TypeOK, device, locals, client, Labels, Creating
<1>4. Serving'
  BY <1>1 DEF Inv, Serving, client, Creating
<1>5. Progress'
  <2>1. CASE pc' = "down"
    BY <2>1 DEF Progress, Up
  <2>2. CASE pc' = "format_sb"
    <3>1. k' = k /\ OnDisk' = OnDisk
      BY <1>1 DEF locals, device, OnDisk
    <3> QED
      BY <1>1, <2>2, <3>1 DEF Inv, Progress, Up, Creating
  <2> QED
    BY <1>1, <2>1, <2>2
<1> QED
  BY <1>2, <1>3, <1>4, <1>5 DEF Inv

(* fs_format. *)
LEMMA FormatKeeps ==
  ASSUME Inv, setup_format
  PROVE  Inv'
<1>1. /\ UNCHANGED <<files, disk, flight, used, hdr, data, status, seq>>
      /\ UNCHANGED <<k, sb, dir, ent, off, out, req, ans, mixed, have_shm>> /\ io = "ok" /\ io' = "none"
      /\ \/ pc = "format_sb" /\ pc' = "format_dir"
         \/ pc = "format_dir" /\ pc' = NextFile(1)
  BY DEF setup_format, Ok, Returned, Goto, locals, client, device
<1>2. pc' \in {"format_dir", "read_sb", "list"}
  BY <1>1 DEF NextFile
<1>3. Ring' /\ Calls' /\ DirApart'
  BY <1>1, <1>2, SetupRing DEF Up, device
<1>4. TypeOK'
  BY <1>1, <1>2 DEF Inv, TypeOK, Labels, Creating
<1>5. Serving'
  BY <1>1, <1>2 DEF Inv, Serving
<1>6. k = 1 /\ OnDisk = EmptyDir /\ OnDisk' = EmptyDir
  BY <1>1 DEF Inv, Progress, OnDisk
<1>7. Progress'
  <2>1. CASE pc = "format_sb"
    <3>1. hdr.sector = SB_SECTOR /\ data = Superblock(DATA_START)
      BY <1>1, <2>1 DEF Inv, Calls, CallAt, CallData, Rq
    <3>2. disk'[SB_SECTOR] = Superblock(DATA_START)
      BY <1>1, <3>1, OkLeft DEF Up
    <3> QED
      BY <1>1, <1>6, <2>1, <3>2 DEF Progress, Up
  <2>2. CASE pc = "format_dir"
    <3>1. disk'[SB_SECTOR] = Superblock(DATA_START)
      BY <1>1, <2>2 DEF Inv, Progress
    <3>2. NextFree' = DATA_START /\ disk'[SB_SECTOR].magic
      BY <3>1 DEF NextFree, Superblock, Sector
    <3>3. DATA_START \in Nat /\ DATA_START <= TOTAL_SECTORS /\ TOTAL_SECTORS \in Nat
      BY Sizes DEF DATA_START
    <3>4. Holds(EmptyDir, 0, DATA_START) /\ Holds(EmptyDir, 0, TOTAL_SECTORS)
      BY <3>3, EmptyHolds
    <3>5. Holds(EmptyDir, 0, DATA_START)' /\ Holds(EmptyDir, 0, TOTAL_SECTORS)'
      BY <1>1, <3>4 DEF Holds, Placed, Stored, Laid
    <3>6. CASE 1 <= Len(files)
      <4>1. pc' = "read_sb" /\ k' = 1 /\ k' - 1 = 0 /\ k' <= Len(files')
        BY <1>1, <1>6, <2>2, <3>6 DEF NextFile
      <4>2. Holds(OnDisk, k - 1, NextFree)'
        BY <1>6, <3>2, <3>5, <4>1
      <4> QED
        BY <3>2, <3>3, <4>1, <4>2 DEF Progress, Up
    <3>7. CASE ~(1 <= Len(files))
      <4>1. pc' = "list" /\ Len(files') = 0
        BY <1>1, <2>2, <3>7, FileType DEF NextFile, Inv, TypeOK
      <4>2. Holds(OnDisk, Len(files), TOTAL_SECTORS)'
        BY <1>6, <3>5, <4>1
      <4> QED
        BY <4>1, <4>2 DEF Progress, Up
    <3> QED
      BY <3>6, <3>7
  <2> QED
    BY <1>1, <2>1, <2>2
<1> QED
  BY <1>3, <1>4, <1>5, <1>7 DEF Inv

(* fs_create reads the superblock. *)
LEMMA ReadSbKeeps ==
  ASSUME Inv, setup_sb
  PROVE  Inv'
<1>1. /\ UNCHANGED <<files, disk, flight, used, hdr, data, status, seq>>
      /\ UNCHANGED <<k, dir, ent, off, out, req, ans, mixed, have_shm>> /\ io = "ok" /\ io' = "none"
      /\ pc = "read_sb" /\ pc' = (IF data.magic THEN "read_dir" ELSE "down")
      /\ sb' = data.next_free
  BY DEF setup_sb, Ok, Returned, Goto, client, device
<1>2. hdr.sector = SB_SECTOR
  BY <1>1 DEF Inv, Calls, CallAt, Rq
<1>3. disk[SB_SECTOR] = data /\ data.next_free \in Nat
  BY <1>1, <1>2, OkLeft DEF Up
<1>4. pc' = "read_dir" /\ sb' = NextFree /\ NextFree \in Nat
  BY <1>1, <1>3 DEF Inv, Progress, NextFree
<1>5. Ring' /\ Calls' /\ DirApart'
  BY <1>1, <1>4, SetupRing DEF Up, device
<1>6. TypeOK'
  BY <1>1, <1>4 DEF Inv, TypeOK, Labels, Creating
<1>7. Serving'
  BY <1>1, <1>4 DEF Inv, Serving
<1>8. Progress'
  <2>1. k <= Len(files) /\ disk[SB_SECTOR].magic /\ DATA_START <= NextFree
           /\ Holds(OnDisk, k - 1, NextFree)
    BY <1>1 DEF Inv, Progress
  <2>2. Holds(OnDisk, k - 1, NextFree)'
    BY <1>1, <2>1 DEF Holds, Placed, Stored, Laid, OnDisk, NextFree
  <2> QED
    BY <1>1, <1>4, <2>1, <2>2 DEF Progress, Up, NextFree
<1> QED
  BY <1>5, <1>6, <1>7, <1>8 DEF Inv

(* fs_create reads the directory: a free slot and enough sectors. *)
LEMMA ReadDirKeeps ==
  ASSUME Inv, setup_dir
  PROVE  Inv'
<1> DEFINE full == free_slots(data.ents) = {}
                     \/ sb + sectors_of(Len(file.data)) > TOTAL_SECTORS
<1>1. /\ UNCHANGED <<files, disk, flight, used, hdr, data, status, seq>>
      /\ UNCHANGED <<k, sb, ent, out, req, ans, mixed, have_shm>> /\ io = "ok" /\ io' = "none"
      /\ pc = "read_dir"
      /\ pc' = (IF full THEN "down"
                ELSE IF file.data = <<>> THEN "write_dir" ELSE "write_data")
      /\ dir' = data.ents /\ off' = 0
  BY DEF setup_dir, Ok, Returned, Goto, client, device
<1>2. hdr.sector = DIR_SECTOR
  BY <1>1 DEF Inv, Calls, CallAt, Rq
<1>3. disk[DIR_SECTOR] = data /\ data.ents \in [Entries -> DirEntry] /\ data.ents = OnDisk
  BY <1>1, <1>2, OkLeft DEF OnDisk, Up
<1>4. pc' \in {"down", "write_dir", "write_data"}
  BY <1>1
<1>5. Ring' /\ Calls' /\ DirApart'
  BY <1>1, <1>4, SetupRing DEF Up, device
<1>6. TypeOK'
  BY <1>1, <1>3, <1>4 DEF Inv, TypeOK, Labels, Creating
<1>7. Serving'
  BY <1>1, <1>4 DEF Inv, Serving
<1>8. Progress'
  <2>0. /\ files \in Catalogues /\ k \in 1 .. Len(files) /\ sb \in Nat
        /\ k \in Nat /\ k - 1 \in 0 .. Len(files)
        /\ file.data \in Seq(Nat) /\ Len(file.data) \in Nat /\ Size(k) \in Nat
        /\ Size(k) = sectors_of(Len(file.data))
        /\ TOTAL_SECTORS \in Nat /\ DIR_ENTRIES \in Nat
    BY <1>1, FileType, Sizes, SMTT(60) DEF Inv, TypeOK, Progress, Size, file
  <2>1. sb = NextFree /\ DATA_START <= NextFree /\ Holds(OnDisk, k - 1, NextFree)
    BY <1>1 DEF Inv, Progress
  <2>2. Placed(data.ents, k - 1, sb)
    BY <1>3, <2>1 DEF Holds
  <2>3. Holds(dir, k - 1, sb)'
    <3>1. Holds(data.ents, k - 1, sb)
      BY <1>3, <2>1
    <3> QED
      BY <1>1, <3>1 DEF Holds, Placed, Stored, Laid
  <2>4. CASE full
    BY <1>1, <2>4 DEF Progress, Up
  <2>5. CASE ~full
    <3>1. k - 1 < DIR_ENTRIES /\ sb + Size(k) <= TOTAL_SECTORS
      <4>1. free_slots(data.ents) # {} /\ ~(sb + Size(k) > TOTAL_SECTORS)
        BY <2>0, <2>5
      <4>2. k - 1 < DIR_ENTRIES
        BY <1>3, <2>0, <2>2, <4>1, FirstFree
      <4> QED
        BY <2>0, <4>1, <4>2
    <3>2. OnDisk' = dir'
      BY <1>1, <1>3 DEF OnDisk
    <3>3. Size(k)' = Size(k) /\ file' = file
      BY <1>1 DEF Size, file
    <3>4. Laid(sb, file.data, off)'
      BY <1>1 DEF Laid
    <3>5. /\ k' <= Len(files') /\ k' <= DIR_ENTRIES /\ DATA_START <= sb'
          /\ sb' + Size(k)' <= TOTAL_SECTORS
      BY <1>1, <2>0, <2>1, <3>1, <3>3
    <3>6. CASE file.data = <<>>
      <4>1. Size(k) = 0
        <5>1. ~(0 < Size(k))
          <6>1. 0 < sectors_of(0) <=> 0 * SECTOR < 0
            BY SectorsOf
          <6>2. 0 * SECTOR = 0
            BY Sizes
          <6>3. Len(file.data) = 0
            BY <3>6
          <6> QED
            BY <2>0, <6>1, <6>2, <6>3
        <5> QED
          BY <2>0, <5>1
      <4>2. Laid(sb, file.data, Size(k))'
        BY <1>1, <3>3, <4>1 DEF Laid
      <4>3. pc' = "write_dir"
        BY <1>1, <2>5, <3>6
      <4> QED
        BY <2>3, <3>2, <3>5, <4>2, <4>3 DEF Progress, Up
    <3>7. CASE file.data # <<>>
      <4>1. 0 < Size(k)
        <5>1. 0 < sectors_of(Len(file.data)) <=> 0 * SECTOR < Len(file.data)
          BY <2>0, SectorsOf
        <5>2. 0 * SECTOR = 0
          BY Sizes
        <5>3. Len(file.data) > 0
          BY <2>0, <3>7
        <5> QED
          BY <2>0, <5>1, <5>2, <5>3
      <4>2. pc' = "write_data"
        BY <1>1, <2>5, <3>7
      <4>3. off' < Size(k)'
        BY <1>1, <3>3, <4>1
      <4> QED
        BY <2>3, <3>2, <3>4, <3>5, <4>2, <4>3 DEF Progress, Up
    <3> QED BY <3>6, <3>7
  <2> QED BY <2>4, <2>5
<1> QED
  BY <1>5, <1>6, <1>7, <1>8 DEF Inv

(* fs_create has written a sector of the file. *)
LEMMA DataKeeps ==
  ASSUME Inv, setup_data
  PROVE  Inv'
<1>1. /\ UNCHANGED <<files, disk, flight, used, hdr, data, status, seq>>
      /\ UNCHANGED <<k, sb, dir, ent, out, req, ans, mixed, have_shm>> /\ io = "ok" /\ io' = "none"
      /\ pc = "write_data" /\ pc' = AfterData /\ off' = off + 1
  BY DEF setup_data, Ok, Returned, Goto, client, device
<1>2. pc' \in {"write_data", "write_dir"}
  BY <1>1 DEF AfterData
<1>3. Ring' /\ Calls' /\ DirApart'
  BY <1>1, <1>2, SetupRing DEF Up, device
<1>4. TypeOK'
  BY <1>1, <1>2 DEF Inv, TypeOK, Labels, Creating
<1>5. Serving'
  BY <1>1, <1>2 DEF Inv, Serving
<1>6. /\ Size(k) \in Nat /\ sb \in Nat /\ off \in Nat
      /\ Size(k) = sectors_of(Len(file.data))
  BY <1>1, AtWrite
<1>7. hdr.sector = sb + off /\ data = Data(chunk(file.data, off))
  BY <1>1 DEF Inv, Calls, CallAt, CallData, Rq
<1>8. disk[sb + off] = Data(chunk(file.data, off))
  BY <1>1, <1>7, OkLeft DEF Up
<1>9. Laid(sb, file.data, off) /\ off < Size(k) /\ OnDisk = dir /\ k <= Len(files)
        /\ Holds(dir, k - 1, sb)
        /\ DATA_START <= sb /\ k <= DIR_ENTRIES /\ sb + Size(k) <= TOTAL_SECTORS
  BY <1>1 DEF Inv, Progress
<1>10. Laid(sb, file.data, off + 1)
  <2> SUFFICES ASSUME NEW i \in 0 .. off PROVE disk[sb + i] = Data(chunk(file.data, i))
    BY <1>6 DEF Laid
  <2> QED
    BY <1>6, <1>8, <1>9 DEF Laid
<1>11. Holds(dir, k - 1, sb)'
  BY <1>1, <1>9 DEF Holds, Placed, Stored, Laid
<1>12. Size(k)' = Size(k) /\ file' = file /\ OnDisk' = dir'
  BY <1>1, <1>9 DEF Size, file, OnDisk
<1>13. Laid(sb, file.data, off)'
  BY <1>1, <1>10, <1>12 DEF Laid
<1>14. Progress'
  <2>1. CASE off + 1 < Size(k)
    <3>1. pc' = "write_data" /\ off' < Size(k)'
      BY <1>1, <1>6, <1>12, <2>1 DEF AfterData
    <3> QED
      BY <1>1, <1>9, <1>11, <1>12, <1>13, <3>1 DEF Progress, Up
  <2>2. CASE ~(off + 1 < Size(k))
    <3>1. pc' = "write_dir" /\ off' = Size(k)'
      BY <1>1, <1>6, <1>9, <1>12, <2>2 DEF AfterData
    <3>2. Laid(sb, file.data, Size(k))'
      BY <1>13, <3>1
    <3> QED
      BY <1>1, <1>9, <1>11, <1>12, <3>1, <3>2 DEF Progress, Up
  <2> QED BY <2>1, <2>2
<1> QED
  BY <1>3, <1>4, <1>5, <1>14 DEF Inv

(* fs_create has written the directory. *)
LEMMA EntryKeeps ==
  ASSUME Inv, setup_entry
  PROVE  Inv'
<1>1. /\ UNCHANGED <<files, disk, flight, used, hdr, data, status, seq>>
      /\ UNCHANGED <<k, sb, dir, ent, off, out, req, ans, mixed, have_shm>> /\ io = "ok" /\ io' = "none"
      /\ pc = "write_dir" /\ pc' = "write_sb"
  BY DEF setup_entry, Ok, Returned, Goto, client, locals, device
<1>2. Ring' /\ Calls' /\ DirApart'
  BY <1>1, SetupRing DEF Up, device
<1>3. TypeOK'
  BY <1>1 DEF Inv, TypeOK, Labels, Creating
<1>4. Serving'
  BY <1>1 DEF Inv, Serving
<1>5. /\ Size(k) \in Nat /\ sb \in Nat /\ k \in 1 .. Len(files) /\ k \in Nat
      /\ Size(k) = sectors_of(Len(file.data)) /\ sb + Size(k) <= TOTAL_SECTORS
      /\ DATA_START <= sb
  BY <1>1, AtWrite, FileType DEF Inv, TypeOK
<1>6. hdr.sector = DIR_SECTOR /\ data = Directory(new_dir)
  BY <1>1 DEF Inv, Calls, CallAt, CallData, Rq
<1>7. OnDisk = new_dir
  <2>1. disk[DIR_SECTOR] = Directory(new_dir)
    BY <1>1, <1>6, OkLeft DEF Up
  <2> QED
    BY <2>1 DEF OnDisk, Directory, Sector
<1>8. Holds(dir, k - 1, sb) /\ Laid(sb, file.data, Size(k)) /\ k <= DIR_ENTRIES
  BY <1>1 DEF Inv, Progress
<1>9. /\ Placed(new_dir, k, sb + Size(k)) /\ k - 1 \in Entries
      /\ new_dir[k - 1] = [name |-> file.name, size |-> Len(file.data), start |-> sb]
      /\ \A e \in Entries : e # k - 1 => new_dir[e] = dir[e]
  BY <1>1, <1>5, <1>8, NewDir DEF Inv, Holds
<1> HIDE DEF new_dir
<1>10. Stored(new_dir, k)
  <2> SUFFICES ASSUME NEW e \in Entries, e < k
               PROVE  Laid(new_dir[e].start, files[e + 1].data, sectors_of(new_dir[e].size))
    BY DEF Stored
  <2>1. e \in Nat
    BY Sizes DEF Entries
  <2>2. CASE e = k - 1
    <3>1. new_dir[e].start = sb /\ new_dir[e].size = Len(file.data)
      BY <1>9, <2>2
    <3>2. files[e + 1] = file
      BY <1>5, <2>2 DEF file
    <3> QED
      BY <1>5, <1>8, <3>1, <3>2
  <2>3. CASE e # k - 1
    <3>1. e < k - 1 /\ new_dir[e] = dir[e]
      BY <1>5, <1>9, <2>1, <2>3
    <3> QED
      BY <1>8, <3>1 DEF Holds, Stored
  <2> QED BY <2>2, <2>3
<1>11. Holds(OnDisk, k, sb + Size(k))
  BY <1>5, <1>7, <1>9, <1>10 DEF Holds
<1>12. Holds(OnDisk, k, sb + Size(k))'
  BY <1>1, <1>11 DEF Holds, Placed, Stored, Laid, OnDisk, Size
<1>13. Progress'
  BY <1>1, <1>5, <1>12 DEF Progress, Up
<1> QED
  BY <1>2, <1>3, <1>4, <1>13 DEF Inv

(* fs_create has committed the free pointer: the next file, or fs_list. *)
LEMMA CommitKeeps ==
  ASSUME Inv, setup_commit
  PROVE  Inv'
<1>1. /\ UNCHANGED <<files, disk, flight, used, hdr, data, status, seq>>
      /\ UNCHANGED <<sb, dir, ent, off, out, req, ans, mixed, have_shm>> /\ io = "ok" /\ io' = "none"
      /\ pc = "write_sb" /\ pc' = NextFile(k + 1) /\ k' = k + 1
  BY DEF setup_commit, Ok, Returned, Goto, client, device
<1>2. pc' \in {"read_sb", "list"}
  BY <1>1 DEF NextFile
<1>3. Ring' /\ Calls' /\ DirApart'
  BY <1>1, <1>2, SetupRing DEF Up, device
<1>4. /\ Size(k) \in Nat /\ sb \in Nat /\ k \in 1 .. Len(files) /\ k \in Nat
      /\ Len(files) \in Nat /\ sb + Size(k) \in Nat
      /\ sb + Size(k) <= TOTAL_SECTORS /\ DATA_START <= sb
  BY <1>1, AtWrite, FileType, SMTT(60) DEF Inv, TypeOK
<1>5. TypeOK'
  BY <1>1, <1>2, <1>4, SMTT(60) DEF Inv, TypeOK, Labels, Creating
<1>6. Serving'
  BY <1>1, <1>2 DEF Inv, Serving
<1>7. hdr.sector = SB_SECTOR /\ data = Superblock(sb + Size(k))
  BY <1>1 DEF Inv, Calls, CallAt, CallData, Rq
<1>8. disk'[SB_SECTOR] = Superblock(sb + Size(k))
  BY <1>1, <1>7, OkLeft DEF Up
<1>9. NextFree' = sb + Size(k) /\ disk'[SB_SECTOR].magic
  BY <1>8 DEF NextFree, Superblock, Sector
<1>10. Holds(OnDisk, k, sb + Size(k)) /\ OnDisk' = OnDisk
  BY <1>1 DEF Inv, Progress, OnDisk
<1>11. Progress'
  <2>1. CASE k + 1 <= Len(files)
    <3>1. pc' = "read_sb" /\ k' <= Len(files') /\ k' - 1 = k
      BY <1>1, <1>4, <2>1 DEF NextFile
    <3>2. Holds(OnDisk, k - 1, NextFree)'
      <4> HIDE DEF OnDisk, NextFree, Size
      <4> QED BY <1>1, <1>9, <1>10, <3>1 DEF Holds, Placed, Stored, Laid
    <3>3. DATA_START <= NextFree'
      BY <1>4, <1>9 DEF DATA_START
    <3> QED
      BY <1>9, <3>1, <3>2, <3>3 DEF Progress, Up
  <2>2. CASE ~(k + 1 <= Len(files))
    <3>1. pc' = "list" /\ Len(files') = k
      BY <1>1, <1>4, <2>2 DEF NextFile
    <3>2. Placed(OnDisk, k, TOTAL_SECTORS) /\ Stored(OnDisk, k)
      <4>1. Placed(OnDisk, k, sb + Size(k)) /\ Stored(OnDisk, k)
        BY <1>10 DEF Holds
      <4>2. \A e \in Entries : EndOf(OnDisk[e]) \in Nat
        <5>1. OnDisk \in [Entries -> DirEntry]
          BY Sizes DEF Inv, TypeOK, AnySector, OnDisk
        <5> HIDE DEF OnDisk
        <5> QED
          BY <5>1, EndType
      <4>3. \A e \in Entries : EndOf(OnDisk[e]) <= sb + Size(k) => EndOf(OnDisk[e]) <= TOTAL_SECTORS
        BY <1>4, <4>2, Sizes
      <4> QED
        BY <4>1, <4>3 DEF Placed
    <3>3. Holds(OnDisk, Len(files), TOTAL_SECTORS)'
      <4> HIDE DEF OnDisk
      <4>1. TOTAL_SECTORS <= TOTAL_SECTORS
        BY Sizes
      <4> QED BY <1>1, <1>10, <3>1, <3>2, <4>1 DEF Holds, Placed, Stored, Laid
    <3> QED
      BY <3>1, <3>3 DEF Progress, Up
  <2> QED BY <2>1, <2>2
<1> QED
  BY <1>3, <1>5, <1>6, <1>11 DEF Inv

(* fs_list returned: the service is up. *)
LEMMA ListedKeeps ==
  ASSUME Inv, setup_listed
  PROVE  Inv'
<1>1. /\ UNCHANGED <<files, disk, flight, used, hdr, data, status, seq>>
      /\ UNCHANGED <<k, sb, dir, ent, off, out, req, ans, mixed>> /\ have_shm' \in BOOLEAN /\ io # "none" /\ io' = "none"
      /\ pc = "list" /\ pc' = "idle"
  BY DEF setup_listed, Returned, Goto, client, locals, device
<1>2. Owed \in 0 .. 1 /\ Owed' = MAX_STALE + 1 /\ MAX_STALE \in Nat
  BY <1>1, Sizes DEF Owed
<1>3. outstanding \in Nat /\ outstanding <= Owed
  BY OutstandingType DEF Inv, Ring
<1>4. outstanding <= Owed'
  BY <1>2, <1>3
<1>5. Ring' /\ Calls' /\ DirApart'
  BY <1>1, <1>4, ReturnKeeps DEF Up, device
<1>6. TypeOK'
  BY <1>1 DEF Inv, TypeOK, Labels
<1>7. Serving'
  BY <1>1 DEF Inv, Serving
<1>8. Progress'
  <2>1. Holds(OnDisk, Len(files), TOTAL_SECTORS)'
    BY <1>1 DEF Inv, Progress, Holds, Placed, Stored, Laid, OnDisk
  <2> QED
    BY <1>1, <2>1 DEF Progress
<1> QED
  BY <1>5, <1>6, <1>7, <1>8 DEF Inv
-----------------------------------------------------------------------------
(* Answers.                                                                *)

(* Bytes copied out of a sector continue the ones before. *)
LEMMA NextBytes ==
  ASSUME NEW d \in Seq(Nat), NEW o \in Nat, NEW n \in Nat, NEW c \in Seq(Nat),
         o + n <= Len(d), n <= Len(c), \A i \in 1 .. n : c[i] = d[o + i]
  PROVE  SubSeq(d, 1, o) \o SubSeq(c, 1, n) = SubSeq(d, 1, o + n)
<1>0. Len(d) \in Nat /\ Len(c) \in Nat /\ o <= Len(d) /\ o + n \in Nat
  BY LenProperties
<1> DEFINE a == SubSeq(d, 1, o)
           b == SubSeq(c, 1, n)
           r == SubSeq(d, 1, o + n)
<1>1. a \in Seq(Nat) /\ Len(a) = o /\ \A i \in 1 .. o : a[i] = d[i]
  BY <1>0, FirstBytes
<1>2. b \in Seq(Nat) /\ Len(b) = n /\ \A i \in 1 .. n : b[i] = c[i]
  BY FirstBytes
<1>3. r \in Seq(Nat) /\ Len(r) = o + n /\ \A i \in 1 .. o + n : r[i] = d[i]
  BY <1>0, FirstBytes
<1> HIDE DEF a, b, r
<1> DEFINE s == a \o b
<1>4. /\ s \in Seq(Nat) /\ Len(s) = Len(a) + Len(b)
      /\ \A i \in 1 .. Len(a) + Len(b) : s[i] = IF i <= Len(a) THEN a[i] ELSE b[i - Len(a)]
  BY <1>1, <1>2, ConcatProperties
<1> HIDE DEF s
<1>5. ASSUME NEW i \in 1 .. o + n PROVE s[i] = r[i]
  <2>1. s[i] = IF i <= o THEN a[i] ELSE b[i - o]
    BY <1>1, <1>2, <1>4
  <2>2. CASE i <= o
    <3>1. i \in 1 .. o
      BY <2>2
    <3>2. a[i] = d[i] /\ r[i] = d[i]
      BY <1>1, <1>3, <3>1
    <3> QED
      BY <2>1, <2>2, <3>2
  <2>3. CASE ~(i <= o)
    <3>1. i - o \in 1 .. n /\ o + (i - o) = i
      BY <2>3
    <3>2. b[i - o] = c[i - o] /\ c[i - o] = d[o + (i - o)]
      BY <1>2, <3>1
    <3> QED
      BY <1>3, <2>1, <2>3, <3>1, <3>2
  <2> QED BY <2>2, <2>3
<1>6. Len(s) = Len(r) /\ Len(s) = o + n
  BY <1>1, <1>2, <1>3, <1>4
<1>7. s = r
  BY <1>3, <1>4, <1>5, <1>6, SeqEqual
<1> QED
  BY <1>7 DEF s, a, b, r

(* Min in FileStore is Min here. *)
LEMMA StoreMin == \A S : Store!Min(S) = Min(S)
  BY DEF Store!Min, Min

(* The directory of a service that is up is that of the catalogue. *)
LEMMA Catalogue ==
  ASSUME Inv, Up
  PROVE  /\ OnDisk \in [Entries -> DirEntry]
         /\ files \in Catalogues /\ Len(files) \in Nat /\ Entries \subseteq Nat
         /\ \A i \in Nat : occupied(OnDisk, i) <=> i < Len(files)
         /\ \A i \in Nat : i < Len(files) =>
               /\ i \in Entries /\ i + 1 \in 1 .. Len(files)
               /\ OnDisk[i].name = files[i + 1].name
               /\ OnDisk[i].size = Len(files[i + 1].data)
               /\ files[i + 1].data \in Seq(Nat)
               /\ fs_find(OnDisk, OnDisk[i].name) = {i}
               /\ \A j \in 0 .. sectors_of(OnDisk[i].size) - 1 :
                     disk[OnDisk[i].start + j] = Data(chunk(files[i + 1].data, j))
         /\ Cardinality({e \in Entries : OnDisk[e].name # 0}) = Len(files)
<1>1. /\ OnDisk \in [Entries -> DirEntry] /\ files \in Catalogues /\ Len(files) \in Nat
      /\ DIR_ENTRIES \in Nat /\ Entries = 0 .. DIR_ENTRIES - 1
  BY Sizes, FileType DEF Inv, TypeOK, OnDisk, AnySector, Entries
<1>2. Placed(OnDisk, Len(files), TOTAL_SECTORS) /\ Stored(OnDisk, Len(files))
  BY DEF Inv, Progress, Holds
<1> HIDE DEF OnDisk
<1>3. Len(files) <= DIR_ENTRIES
  BY <1>2 DEF Placed
<1>4. ASSUME NEW i \in Nat, i < Len(files)
      PROVE  /\ i \in Entries /\ i + 1 \in 1 .. Len(files)
             /\ OnDisk[i].name = files[i + 1].name
             /\ OnDisk[i].size = Len(files[i + 1].data)
             /\ files[i + 1].data \in Seq(Nat) /\ files[i + 1].name # 0
  <2>1. i \in Entries /\ i + 1 \in 1 .. Len(files)
    BY <1>1, <1>3, <1>4
  <2>2. IsFile(OnDisk[i], files[i + 1])
    BY <1>2, <1>4, <2>1 DEF Placed
  <2> QED
    BY <1>1, <2>1, <2>2, FileType DEF IsFile
<1>5. ASSUME NEW i \in Entries, ~(i < Len(files)) PROVE OnDisk[i].name = 0
  BY <1>2, <1>5 DEF Placed
<1>6. Entries \subseteq Nat
  BY <1>1
<1>7. \A i \in Nat : occupied(OnDisk, i) <=> i < Len(files)
  BY <1>4, <1>5 DEF occupied
<1>8. ASSUME NEW i \in Nat, i < Len(files)
      PROVE  fs_find(OnDisk, OnDisk[i].name) = {i}
  <2>1. \A e \in Entries : OnDisk[e].name = OnDisk[i].name => e = i
    <3> SUFFICES ASSUME NEW e \in Entries, OnDisk[e].name = OnDisk[i].name PROVE e = i
      OBVIOUS
    <3>1. e < Len(files)
      BY <1>4, <1>5, <1>8
    <3>2. e + 1 \in 1 .. Len(files) /\ i + 1 \in 1 .. Len(files)
             /\ files[e + 1].name = files[i + 1].name
      BY <1>4, <1>6, <1>8, <3>1
    <3>3. e + 1 = i + 1
      BY <1>1, <3>2, FileType
    <3> QED
      BY <1>6, <3>3
  <2>2. i \in Entries
    BY <1>4, <1>8
  <2> QED
    BY <2>1, <2>2 DEF fs_find
<1>9. ASSUME NEW i \in Nat, i < Len(files),
             NEW j \in 0 .. sectors_of(OnDisk[i].size) - 1
      PROVE  disk[OnDisk[i].start + j] = Data(chunk(files[i + 1].data, j))
  BY <1>2, <1>4, <1>9 DEF Stored, Laid
<1>10. Cardinality({e \in Entries : OnDisk[e].name # 0}) = Len(files)
  <2>1. {e \in Entries : OnDisk[e].name # 0} = 0 .. Len(files) - 1
    <3>1. ASSUME NEW e \in Entries PROVE OnDisk[e].name # 0 <=> e \in 0 .. Len(files) - 1
      <4>1. e \in Nat
        BY <1>6
      <4>2. OnDisk[e].name # 0 <=> e < Len(files)
        BY <1>4, <1>5, <4>1
      <4> QED
        BY <1>1, <4>1, <4>2
    <3>2. 0 .. Len(files) - 1 \subseteq Entries
      BY <1>1, <1>3
    <3> QED
      BY <3>1, <3>2
  <2>2. Cardinality(0 .. Len(files) - 1) =
           IF 0 > Len(files) - 1 THEN 0 ELSE Len(files) - 1 - 0 + 1
    BY <1>1, FS_Interval, SMTT(60)
  <2>3. Cardinality(0 .. Len(files) - 1) = Len(files)
    BY <1>1, <2>2
  <2> QED
    BY <2>1, <2>3, Zenon
<1> QED
  BY <1>1, <1>4, <1>6, <1>7, <1>8, <1>9, <1>10

(* The request being served. *)
LEMMA RequestType ==
  ASSUME Inv, pc \in {"serve", "find", "copy"}
  PROVE  req \in Requests /\ req.i \in Nat /\ req.off \in Nat /\ req # NoReq /\ Up
<1>1. req \in Requests
  BY DEF Inv, TypeOK, Serving
<1> QED
  BY <1>1, FsAssumption DEF Inv, Serving, Up

(* The directory answers what it can answer truly. *)
LEMMA DirTruth ==
  ASSUME Inv, pc = "serve", ~WantsData(OnDisk)
  PROVE  DirAnswer(OnDisk) = Store!Truth(req)
<1>1. req.i \in Nat /\ req.off \in Nat /\ Up
  BY RequestType
<1>2. occupied(OnDisk, req.i) <=> req.i < Len(files)
  BY <1>1, Catalogue
<1>3. req.i < Len(files) => /\ OnDisk[req.i].name = files[req.i + 1].name
                            /\ OnDisk[req.i].size = Len(files[req.i + 1].data)
  BY <1>1, Catalogue
<1>4. Cardinality({e \in Entries : OnDisk[e].name # 0}) = Len(files)
  BY <1>1, Catalogue
<1>5. \A w : Word(w) = Store!Word(w)
  BY DEF Word, Store!Word
<1>6. ERR = Store!ERR
  BY DEF ERR, Store!ERR
<1> HIDE DEF OnDisk
<1>7. CASE req.op = "NFILES"
  BY <1>4, <1>5, <1>7, Zenon DEF DirAnswer, Store!Truth
<1>8. CASE req.op = "FSIZE"
  <2>1. DirAnswer(OnDisk) = Word(IF occupied(OnDisk, req.i) THEN OnDisk[req.i].size ELSE ERR)
    BY <1>8 DEF DirAnswer
  <2>2. Store!Truth(req) = Store!Word(IF req.i < Len(files) THEN Len(files[req.i + 1].data)
                                                            ELSE Store!ERR)
    BY <1>8 DEF Store!Truth
  <2> QED
    BY <1>2, <1>3, <1>5, <1>6, <2>1, <2>2
<1>9. CASE req.op = "NAMECH"
  <2>1. DirAnswer(OnDisk) = Word(IF occupied(OnDisk, req.i) THEN OnDisk[req.i].name ELSE 0)
    BY <1>9 DEF DirAnswer
  <2>2. Store!Truth(req) = Store!Word(IF req.i < Len(files) THEN files[req.i + 1].name ELSE 0)
    BY <1>9 DEF Store!Truth
  <2> QED
    BY <1>2, <1>3, <1>5, <2>1, <2>2
<1>10. CASE req.op = "DATACH"
  <2>1. ~(req.i < Len(files))
    BY <1>2, <1>10 DEF WantsData
  <2>2. DirAnswer(OnDisk) = Word(0)
    BY <1>10 DEF DirAnswer
  <2>3. Store!Truth(req) = Store!Word(0)
    BY <1>10, <2>1 DEF Store!Truth
  <2> QED
    BY <1>5, <2>2, <2>3
<1>11. CASE req.op = "READFILE"
  <2>1. ~(req.i < Len(files))
    BY <1>2, <1>11 DEF WantsData
  <2>2. DirAnswer(OnDisk) = Word(ERR)
    BY <1>11 DEF DirAnswer
  <2>3. Store!Truth(req) = Store!Word(Store!ERR)
    BY <1>11, <2>1 DEF Store!Truth
  <2> QED
    BY <1>5, <1>6, <2>2, <2>3
<1>12. CASE req.op \notin {"NFILES", "FSIZE", "NAMECH", "DATACH", "READFILE"}
  <2>1. DirAnswer(OnDisk) = Word(ERR)
    BY <1>12 DEF DirAnswer
  <2>2. Store!Truth(req) = Store!Word(Store!ERR)
    BY <1>12 DEF Store!Truth
  <2> QED
    BY <1>5, <1>6, <2>1, <2>2
<1> QED
  BY <1>7, <1>8, <1>9, <1>10, <1>11, <1>12

(* The true answer is an answer. *)
LEMMA TruthType ==
  ASSUME Inv, pc \in {"serve", "find", "copy"}
  PROVE  Store!Truth(req) \in [word : Int, page : Seq(Nat)]
<1>1. req.i \in Nat /\ req.off \in Nat
  BY RequestType
<1>2. files \in Catalogues /\ Len(files) \in Nat
  BY FileType DEF Inv, TypeOK
<1>3. \A w \in Int : Store!Word(w) \in [word : Int, page : Seq(Nat)]
  BY DEF Store!Word
<1>4. Store!ERR \in Int
  BY DEF Store!ERR
<1>5. ASSUME req.i < Len(files)
      PROVE  /\ files[req.i + 1].name \in Int /\ Len(files[req.i + 1].data) \in Int
             /\ files[req.i + 1].data \in Seq(Nat)
  <2>1. req.i + 1 \in 1 .. Len(files)
    BY <1>1, <1>2, <1>5
  <2> QED
    BY <1>2, <2>1, FileType
<1>6. CASE req.op = "NFILES"
  BY <1>2, <1>3, <1>6 DEF Store!Truth
<1>7. CASE req.op = "FSIZE"
  BY <1>3, <1>4, <1>5, <1>7 DEF Store!Truth
<1>8. CASE req.op = "NAMECH"
  BY <1>3, <1>4, <1>5, <1>8 DEF Store!Truth
<1>9. CASE req.op = "DATACH"
  <2>1. SECTOR \in Nat
    BY Sizes
  <2>2. ASSUME req.i < Len(files), req.off < Min({Len(files[req.i + 1].data), SECTOR})
        PROVE  files[req.i + 1].data[req.off + 1] \in Int
    <3> DEFINE d == files[req.i + 1].data
    <3>1. d \in Seq(Nat) /\ Len(d) \in Nat
      BY <1>5, <2>2
    <3>2. Min({Len(d), SECTOR}) = IF Len(d) <= SECTOR THEN Len(d) ELSE SECTOR
      BY <2>1, <3>1, MinOfTwo
    <3>3. req.off + 1 \in 1 .. Len(d)
      BY <1>1, <2>1, <2>2, <3>1, <3>2
    <3> HIDE DEF d
    <3>4. d[req.off + 1] \in Nat
      BY <3>1, <3>3, ElementOfSeq
    <3> QED
      BY <3>4 DEF d
  <2>3. Store!Truth(req) =
           Store!Word(IF req.i < Len(files)
                           /\ req.off < Min({Len(files[req.i + 1].data), SECTOR})
                        THEN files[req.i + 1].data[req.off + 1] ELSE 0)
    BY <1>9, StoreMin DEF Store!Truth
  <2> DEFINE w == IF req.i < Len(files)
                       /\ req.off < Min({Len(files[req.i + 1].data), SECTOR})
                    THEN files[req.i + 1].data[req.off + 1] ELSE 0
  <2>4. w \in Int
    BY <2>2
  <2>5. Store!Truth(req) = Store!Word(w)
    BY <2>3
  <2> HIDE DEF w
  <2> QED
    BY <1>3, <2>4, <2>5
<1>10. CASE req.op = "READFILE"
  <2>1. CASE req.i < Len(files) /\ have_shm
    <3> DEFINE d == files[req.i + 1].data
    <3>1. d \in Seq(Nat) /\ Len(d) \in Nat /\ PAGE_BYTES \in Nat
      BY <1>5, <2>1, Sizes
    <3>2. Store!Truth(req) =
             [word |-> Len(d), page |-> SubSeq(d, 1, Min({PAGE_BYTES, Len(d)}))]
      BY <1>10, <2>1, StoreMin DEF Store!Truth, Store!Prefix
    <3> HIDE DEF d
    <3>3. Min({PAGE_BYTES, Len(d)}) \in Nat /\ Min({PAGE_BYTES, Len(d)}) <= Len(d)
      BY <3>1, MinOfTwo
    <3>4. SubSeq(d, 1, Min({PAGE_BYTES, Len(d)})) \in Seq(Nat)
      BY <3>1, <3>3, FirstBytes
    <3> DEFINE q == SubSeq(d, 1, Min({PAGE_BYTES, Len(d)}))
    <3>5. q \in Seq(Nat)
      BY <3>4, Zenon
    <3>6. Store!Truth(req) = [word |-> Len(d), page |-> q]
      BY <3>2, Zenon
    <3>7. Len(d) \in Int
      BY <3>1
    <3> HIDE DEF q
    <3> QED
      BY <3>5, <3>6, <3>7
  <2>2. CASE ~(req.i < Len(files) /\ have_shm)
    BY <1>3, <1>4, <1>10, <2>2 DEF Store!Truth
  <2> QED BY <2>1, <2>2
<1>11. CASE req.op \notin {"NFILES", "FSIZE", "NAMECH", "DATACH", "READFILE"}
  BY <1>3, <1>4, <1>11 DEF Store!Truth
<1> QED
  BY <1>6, <1>7, <1>8, <1>9, <1>10, <1>11

(* A data request for the bytes the buffer can take is answered truly. *)
LEMMA DataTruth ==
  ASSUME Inv, pc \in {"find", "copy"}, ~mixed
  PROVE  LET d == files[req.i + 1].data
         IN  DataAnswer(Len(d), SubSeq(d, 1, Min({buf_len, Len(d)}))) = Store!Truth(req)
<1> DEFINE d == files[req.i + 1].data
<1>1. req.i \in Nat /\ req.off \in Nat /\ Up
  BY RequestType
<1>2. /\ req.op \in {"DATACH", "READFILE"} /\ req.i < Len(files)
      /\ req.op = "READFILE" => have_shm
  BY DEF Inv, Serving, NoPage
<1>3. d \in Seq(Nat) /\ Len(d) \in Nat /\ SECTOR \in Nat
  BY <1>1, <1>2, Catalogue, Sizes
<1>4. CASE req.op = "READFILE"
  <2>1. buf_len = PAGE_BYTES
    BY <1>4 DEF buf_len
  <2>2. Store!Truth(req) = [word |-> Len(d), page |-> SubSeq(d, 1, Min({PAGE_BYTES, Len(d)}))]
    BY <1>2, <1>4, StoreMin DEF Store!Truth, Store!Prefix
  <2> HIDE DEF d
  <2>3. DataAnswer(Len(d), SubSeq(d, 1, Min({buf_len, Len(d)}))) = Store!Truth(req)
    BY <1>4, <2>1, <2>2 DEF DataAnswer
  <2> QED
    BY <2>3 DEF d
<1>5. CASE req.op = "DATACH"
  <2>1. buf_len = SECTOR
    BY <1>5 DEF buf_len
  <2>2. Store!Truth(req) = Word(IF req.off < Min({Len(d), SECTOR}) THEN d[req.off + 1] ELSE 0)
    BY <1>2, <1>5, StoreMin DEF Store!Truth, Store!Word, Word
  <2> HIDE DEF d
  <2> DEFINE m == Min({SECTOR, Len(d)})
             b == SubSeq(d, 1, m)
  <2>3. /\ m = (IF SECTOR <= Len(d) THEN SECTOR ELSE Len(d))
        /\ Min({Len(d), SECTOR}) = (IF Len(d) <= SECTOR THEN Len(d) ELSE SECTOR)
    BY <1>3, MinOfTwo
  <2>4. m \in Nat /\ m <= Len(d) /\ Min({Len(d), SECTOR}) = m
          /\ (req.off < m <=> req.off < Len(d) /\ req.off < SECTOR)
    BY <1>1, <1>3, <2>3
  <2> HIDE DEF m
  <2>5. \A i \in 1 .. m : b[i] = d[i]
    BY <1>3, <2>4, FirstBytes
  <2> HIDE DEF b
  <2>6. req.off < m => b[req.off + 1] = d[req.off + 1]
    BY <1>1, <2>4, <2>5
  <2>7. DataAnswer(Len(d), b) = Word(IF req.off < Len(d) /\ req.off < SECTOR
                                       THEN b[req.off + 1] ELSE 0)
    BY <1>5 DEF DataAnswer
  <2>8. DataAnswer(Len(d), b) = Store!Truth(req)
    BY <2>2, <2>4, <2>6, <2>7
  <2> QED
    BY <2>1, <2>8, Zenon DEF b, m, d
<1> QED
  BY <1>2, <1>4, <1>5

(* A sector more of the file is copied out. *)
LEMMA CopiedBytes ==
  ASSUME Inv, pc = "copy", io = "ok", ~mixed
  PROVE  LET d == files[req.i + 1].data
         IN  /\ d \in Seq(Nat) /\ ent.size = Len(d) /\ Len(d) \in Nat
             /\ off \in Nat /\ off * SECTOR \in Nat /\ off * SECTOR < Len(d)
             /\ (off + 1) * SECTOR \in Nat /\ buf_len \in Nat
             /\ copied(ent.size) = Bytes(d, Min({(off + 1) * SECTOR, buf_len}))
<1> DEFINE d == files[req.i + 1].data
           o == off * SECTOR
           L == Len(d)
           B == buf_len
           c == data.bytes
<1>1. req.i \in Nat /\ Up /\ req.i < Len(files) /\ ent = OnDisk[req.i]
        /\ req.op \in {"DATACH", "READFILE"} /\ off < sectors_of(ent.size)
        /\ out = Bytes(d, Min({o, B}))
  BY RequestType DEF Inv, Serving
<1>2. d \in Seq(Nat) /\ L \in Nat /\ ent.size = L
  BY <1>1, Catalogue
<1>3. off \in Nat /\ SECTOR \in Nat \ {0} /\ SECTOR \in Nat
  BY Sizes DEF Inv, TypeOK
<1>4. o \in Nat /\ (off + 1) * SECTOR = o + SECTOR
  BY <1>3, MulNext
<1>5. o < L
  BY <1>1, <1>2, <1>3, SectorsOf
<1>6. B \in Nat /\ (o < B => o + SECTOR <= B)
  <2>1. B \in Nat /\ B % SECTOR = 0
    <3>1. SECTOR % SECTOR = 0
      BY <1>3
    <3> QED
      BY <3>1, Sizes, FsAssumption DEF buf_len
  <2> DEFINE q == B \div SECTOR
  <2>2. q \in Nat /\ B = SECTOR * q + (B % SECTOR)
    BY <1>3, <2>1, DivMod
  <2> HIDE DEF B, q
  <2>3. B = q * SECTOR
    BY <1>3, <2>1, <2>2
  <2>4. o < B => off < q
    <3> SUFFICES ASSUME q <= off PROVE ~(o < B)
      BY <1>3, <2>2
    <3>1. CASE q = off
      BY <1>4, <2>3, <3>1
    <3>2. CASE q < off
      <4>1. q * SECTOR + SECTOR <= off * SECTOR
        BY <1>3, <2>2, <3>2, MulStep
      <4> QED
        BY <1>3, <1>4, <2>1, <2>3, <4>1
    <3> QED
      BY <1>3, <2>2, <3>1, <3>2
  <2>5. off < q => o + SECTOR <= B
    BY <1>3, <2>2, <2>3, MulStep
  <2> QED
    BY <2>1, <2>4, <2>5
<1>7. c = chunk(d, off) /\ c \in [1 .. SECTOR -> Nat]
  <2>1. off \in 0 .. sectors_of(OnDisk[req.i].size) - 1
    <3>1. sectors_of(ent.size) \in Nat
      BY <1>2, SectorsOf
    <3>2. off \in 0 .. sectors_of(ent.size) - 1
      BY <1>1, <1>3, <3>1
    <3> QED
      BY <1>1, <3>2
  <2>2. disk[OnDisk[req.i].start + off] = Data(chunk(d, off))
    BY <1>1, <2>1, Catalogue
  <2>3. hdr.sector = OnDisk[req.i].start + off
    BY <1>1 DEF Inv, Calls, CallAt, Rq
  <2>4. data = Data(chunk(d, off)) /\ c \in [1 .. SECTOR -> Nat]
    BY <2>2, <2>3, OkLeft
  <2> QED
    BY <2>4 DEF Data, Sector
<1>8. c \in Seq(Nat) /\ Len(c) = SECTOR
  BY <1>3, <1>7, IsASeq, LenProperties
<1>9. \A i \in 1 .. SECTOR : o + i <= L => c[i] = d[o + i]
  BY <1>7 DEF chunk
<1> DEFINE n == Min({SECTOR, L - o})
<1>10. n = (IF SECTOR <= L - o THEN SECTOR ELSE L - o)
  <2>1. L - o \in Nat
    BY <1>2, <1>4, <1>5
  <2> QED
    BY <1>3, <2>1, MinOfTwo
<1>11. copied(ent.size) = IF o + n <= B THEN out \o SubSeq(c, 1, n) ELSE out
  BY <1>2 DEF copied
<1> DEFINE m == Min({o, B})
           mn == Min({o + SECTOR, B})
<1>12. m = (IF o <= B THEN o ELSE B) /\ mn = (IF o + SECTOR <= B THEN o + SECTOR ELSE B)
  BY <1>3, <1>4, <1>6, MinOfTwo
<1>13. m \in Nat /\ mn \in Nat
  BY <1>3, <1>4, <1>6, <1>12
<1>14. out = SubSeq(d, 1, Min({m, L})) /\ Bytes(d, mn) = SubSeq(d, 1, Min({mn, L}))
  BY <1>1 DEF Bytes
<1> HIDE DEF m, mn, n, c, B, o, d
<1>15. /\ Min({m, L}) = (IF m <= L THEN m ELSE L)
       /\ Min({mn, L}) = (IF mn <= L THEN mn ELSE L)
  BY <1>2, <1>13, MinOfTwo
<1> HIDE DEF L
<1>16. copied(ent.size) = Bytes(d, mn)
  <2>1. CASE o < B
    <3>1. m = o /\ mn = o + SECTOR
      BY <1>3, <1>4, <1>6, <1>12, <2>1
    <3>2. Min({m, L}) = o /\ Min({mn, L}) = o + n /\ n \in Nat /\ n <= SECTOR /\ o + n <= L
      BY <1>2, <1>3, <1>4, <1>5, <1>10, <1>15, <3>1
    <3>3. o + n <= B
      BY <1>3, <1>4, <1>6, <2>1, <3>2
    <3>4. \A i \in 1 .. n : c[i] = d[o + i]
      <4> TAKE i \in 1 .. n
      <4>1. i \in 1 .. SECTOR /\ o + i <= L
        BY <1>2, <1>3, <1>4, <3>2
      <4> QED
        BY <1>9, <4>1
    <3>5. o + n <= Len(d) /\ n <= Len(c)
      BY <1>8, <3>2 DEF L
    <3>6. SubSeq(d, 1, o) \o SubSeq(c, 1, n) = SubSeq(d, 1, o + n)
      <4>1. d \in Seq(Nat) /\ o \in Nat /\ n \in Nat /\ c \in Seq(Nat)
        BY <1>2, <1>4, <1>8, <3>2
      <4> QED
        BY ONLY <3>4, <3>5, <4>1, NextBytes
    <3>7. copied(ent.size) = out \o SubSeq(c, 1, n)
      BY <1>11, <3>3
    <3> QED
      BY <1>14, <3>2, <3>6, <3>7
  <2>2. CASE ~(o < B)
    <3>1. m = B /\ mn = B
      BY <1>3, <1>4, <1>6, <1>12, <2>2
    <3>2. ~(o + n <= B)
      BY <1>2, <1>3, <1>4, <1>5, <1>6, <1>10, <2>2
    <3> QED
      BY <1>11, <1>14, <3>1, <3>2
  <2> QED BY <2>1, <2>2
<1>17. copied(ent.size) = Bytes(d, Min({(off + 1) * SECTOR, buf_len}))
  BY <1>4, <1>16 DEF mn, B
<1>18. (off + 1) * SECTOR \in Nat
  BY <1>3, <1>4
<1> QED
  BY <1>2, <1>3, <1>4, <1>5, <1>6, <1>17, <1>18 DEF d, o, L, B
-----------------------------------------------------------------------------
(* Serving.                                                                *)

Answers == [word : Int, page : Seq(Nat)]

(* Steps of the service keep the disk. *)
LEMMA UpProgress ==
  ASSUME Inv, Up, Up', UNCHANGED <<files, disk>>
  PROVE  Progress'
<1>1. Holds(OnDisk, Len(files), TOTAL_SECTORS)'
  BY DEF Inv, Progress, Holds, Placed, Stored, Laid, OnDisk
<1> QED
  BY <1>1 DEF Progress, Up

(* A reply, with the service back at the top of its loop. *)
LEMMA ReplyKeeps ==
  ASSUME Inv, pc \in {"serve", "find", "copy"}, pc' = "idle", io' = "none",
         UNCHANGED <<files, device, hdr, data, status, seq>>, UNCHANGED <<k, sb, dir>>,
         have_shm' = have_shm, req' = NoReq, mixed' = FALSE, ans' \in Answers,
         ent' \in DirEntry, off' \in Nat, out' \in Seq(Nat)
  PROVE  Inv'
<1>1. Up /\ Up'
  BY DEF Up
<1>2. Owed \in Nat /\ Owed <= MAX_STALE + 1 /\ Owed' = MAX_STALE + 1
  BY Sizes DEF Owed
<1>3. outstanding \in Nat /\ outstanding <= Owed
  BY OutstandingType DEF Inv, Ring
<1>4. outstanding <= Owed'
  BY <1>2, <1>3, Sizes
<1>5. Ring' /\ Calls' /\ DirApart'
  BY <1>1, <1>4, ReturnKeeps
<1>6. TypeOK'
  BY DEF Inv, TypeOK, Labels, Answers, device
<1>7. Progress'
  BY <1>1, UpProgress DEF device
<1>8. Serving'
  BY DEF Serving
<1> QED
  BY <1>5, <1>6, <1>7, <1>8 DEF Inv

(* A call of the request went well, and another one follows. *)
LEMMA GoOnKeeps ==
  ASSUME Inv, pc \in {"serve", "find", "copy"}, pc' \in {"find", "copy"}, io = "ok", io' = "none",
         UNCHANGED <<files, device, hdr, data, status, seq>>, UNCHANGED <<k, sb, dir, client>>,
         ent' \in DirEntry, off' \in Nat, out' \in Seq(Nat), Serving'
  PROVE  Inv'
<1>1. Up /\ Up'
  BY DEF Up
<1>2. outstanding <= Owed'
  <2>1. Owed' = 0
    BY DEF Owed
  <2> QED
    BY <2>1, OkLeft
<1>3. Ring' /\ Calls' /\ DirApart'
  BY <1>1, <1>2, ReturnKeeps DEF client
<1>4. TypeOK'
  BY DEF Inv, TypeOK, Labels, device, client
<1>5. Progress'
  BY <1>1, UpProgress DEF device
<1> QED
  BY <1>3, <1>4, <1>5 DEF Inv

(* A client asks. *)
LEMMA AskKeeps ==
  ASSUME Inv, NEW r \in Requests, ask(r)
  PROVE  Inv' /\ req = NoReq /\ req' # NoReq
<1>1. /\ UNCHANGED <<files, device, hdr, data, status, seq>>
      /\ UNCHANGED <<k, sb, dir, ent, off, out, ans, mixed, have_shm>> /\ io' = io
      /\ pc = "idle" /\ pc' = "serve" /\ req' = r /\ outstanding <= MAX_STALE
  BY DEF ask, Goto, locals
<1>2. io = "none" /\ Up /\ Up'
  BY <1>1 DEF Inv, Calls, Up
<1>3. Owed' = MAX_STALE
  BY <1>1, <1>2 DEF Owed
<1>4. Ring' /\ Calls' /\ DirApart'
  BY <1>1, <1>2, <1>3, ReturnKeeps
<1>5. TypeOK'
  BY <1>1 DEF Inv, TypeOK, Labels, device
<1>6. Progress'
  BY <1>1, <1>2, UpProgress DEF device
<1>7. req = NoReq /\ r # NoReq
  BY <1>1, FsAssumption DEF Inv, Serving, NoReq
<1>8. Serving'
  BY <1>1, <1>7 DEF Serving
<1> QED
  BY <1>1, <1>4, <1>5, <1>6, <1>7, <1>8 DEF Inv

(* What a step of the service that answers does: the true answer, or after *)
(* a failed call a refusal, unless the request is mixed. *)
Answered ==
    /\ req # NoReq /\ req' = NoReq /\ Up /\ Up'
    /\ io # "polling" /\ io' = "none" /\ mixed' = FALSE /\ have_shm' = have_shm
    /\ ans' \in Answers
    /\ ~mixed /\ io # "failed" => ans' = Store!Truth(req)
    /\ ~mixed /\ io = "failed" => ans' \in Store!Refusals(req)
GoesOn == UNCHANGED client /\ Up /\ Up' /\ io = "ok" /\ io' = "none"

(* A reply keeps the invariant. *)
LEMMA ReplyIs ==
  ASSUME Inv, NEW a \in Answers, Reply(a), pc \in {"serve", "find", "copy"},
         io # "polling", io' = "none",
         ~mixed /\ io # "failed" => a = Store!Truth(req),
         ~mixed /\ io = "failed" => a \in Store!Refusals(req)
  PROVE  Inv' /\ Answered
<1>1. /\ UNCHANGED <<files, device, hdr, data, status, seq>> /\ UNCHANGED <<k, sb, dir>>
      /\ pc' = "idle" /\ req' = NoReq /\ mixed' = FALSE /\ ans' = a /\ have_shm' = have_shm
      /\ ent' = NoEntry /\ off' = 0 /\ out' = <<>>
  BY DEF Reply, Goto
<1>2. ent' \in DirEntry /\ off' \in Nat /\ out' \in Seq(Nat)
  BY <1>1, SectorTypes
<1>3. Inv'
  BY <1>1, <1>2, ReplyKeeps
<1>4. req # NoReq /\ Up /\ Up'
  BY <1>1, RequestType DEF Up
<1> QED
  BY <1>1, <1>3, <1>4 DEF Answered

(* Words are answers. *)
LEMMA WordType ==
  /\ \A w \in Int : Word(w) \in Answers
  /\ ERR \in Int /\ Unreadable \in Answers
<1>1. \A w \in Int : Word(w) \in Answers
  BY DEF Word, Answers
<1>2. ERR \in Int
  BY DEF ERR
<1>3. Unreadable \in Answers
  BY <1>1, <1>2 DEF Unreadable
<1> QED
  BY <1>1, <1>2, <1>3

(* OP_READFILE without a page: refused, as it always is. *)
LEMMA NoPageKeeps ==
  ASSUME Inv, serve_no_page
  PROVE  Inv' /\ Answered
<1>1. pc = "serve" /\ io = "none" /\ io' = "none" /\ NoPage /\ Reply(Word(ERR))
  BY DEF serve_no_page
<1>2. Word(ERR) = Store!Truth(req)
  BY <1>1 DEF NoPage, Store!Truth, Store!Word, Word, Store!ERR, ERR
<1>3. \A a \in Answers : a = Word(ERR) /\ Reply(a) => Inv' /\ Answered
  BY <1>1, <1>2, ReplyIs
<1> QED
  BY <1>1, <1>3, WordType

(* A failed call of a request. *)
LEMMA FailedKeeps ==
  ASSUME Inv, serve_failed \/ read_failed
  PROVE  Inv' /\ Answered
<1>1. /\ io = "failed" /\ io' = "none" /\ pc \in {"serve", "find", "copy"}
      /\ Reply(Word(ERR)) \/ Reply(Unreadable)
  BY DEF serve_failed, read_failed, Failed, Returned
<1>2. Word(ERR) \in Store!Refusals(req) /\ Unreadable \in Store!Refusals(req)
  BY DEF Store!Refusals, Store!Word, Word, Unreadable, Store!ERR, ERR
<1>3. \A a \in Answers : a \in Store!Refusals(req) /\ Reply(a) => Inv' /\ Answered
  BY <1>1, ReplyIs
<1> QED
  BY <1>1, <1>2, <1>3, WordType

(* What the directory sector, or whatever was read for it, makes of a      *)
(* request is an answer. *)
LEMMA DirAnswerType ==
  ASSUME Inv, pc = "serve", NEW d \in [Entries -> DirEntry]
  PROVE  DirAnswer(d) \in Answers
<1>1. \A w \in Int : Word(w) \in Answers
  BY WordType
<1>2. ERR \in Int
  BY WordType
<1>3. Cardinality({e \in Entries : d[e].name # 0}) \in Int
  <2>1. IsFiniteSet(Entries)
    BY Sizes, FS_Interval DEF Entries
  <2>2. IsFiniteSet({e \in Entries : d[e].name # 0})
    BY <2>1, FS_Subset
  <2>3. Cardinality({e \in Entries : d[e].name # 0}) \in Nat
    BY <2>2, FS_CardinalityType
  <2>4. PICK n \in Nat : n = Cardinality({e \in Entries : d[e].name # 0})
    BY <2>3
  <2>5. n \in Int
    OBVIOUS
  <2> QED
    BY <2>4, <2>5, Zenon
<1>4. \A i : occupied(d, i) => d[i].size \in Int /\ d[i].name \in Int
  BY DEF occupied, DirEntry
<1>5. CASE req.op = "NFILES"
  BY <1>1, <1>3, <1>5, Zenon DEF DirAnswer
<1>6. CASE req.op = "FSIZE"
  <2>1. DirAnswer(d) = Word(IF occupied(d, req.i) THEN d[req.i].size ELSE ERR)
    BY <1>6 DEF DirAnswer
  <2> QED
    BY <1>1, <1>2, <1>4, <2>1
<1>7. CASE req.op = "NAMECH"
  <2>1. DirAnswer(d) = Word(IF occupied(d, req.i) THEN d[req.i].name ELSE 0)
    BY <1>7 DEF DirAnswer
  <2> QED
    BY <1>1, <1>4, <2>1
<1>8. CASE req.op \notin {"NFILES", "FSIZE", "NAMECH"}
  <2>1. DirAnswer(d) \in {Word(0), Word(ERR)}
    BY <1>8 DEF DirAnswer
  <2> QED
    BY <1>1, <1>2, <2>1
<1> QED
  BY <1>5, <1>6, <1>7, <1>8

(* serve_one and read_by_index have the directory. *)
LEMMA ServeDirKeeps ==
  ASSUME Inv, serve_dir
  PROVE  Inv' /\ (Answered \/ GoesOn)
<1>1. io = "ok" /\ io' = "none" /\ pc = "serve"
  BY DEF serve_dir, Ok, Returned
<1>2. hdr.sector = DIR_SECTOR /\ ~NoPage
  BY <1>1 DEF Inv, Calls, CallAt, Rq
<1>3. data.ents \in [Entries -> DirEntry] /\ (~mixed => data.ents = OnDisk)
  BY <1>1, <1>2, OkLeft DEF OnDisk
<1>4. req # NoReq /\ Up /\ req.i \in Nat
  BY <1>1, RequestType
<1>6. CASE WantsData(data.ents)
  <2>1. /\ UNCHANGED <<files, device, hdr, data, status, seq>>
        /\ UNCHANGED <<k, sb, dir, off, out, client>>
        /\ pc' = "find" /\ ent' = data.ents[req.i]
    BY <1>6 DEF serve_dir, Goto
  <2>2. req.op \in {"DATACH", "READFILE"} /\ req.i \in Entries
    BY <1>6 DEF WantsData, occupied
  <2>3. ~mixed => req.i < Len(files)
    BY <1>3, <1>4, <1>6, Catalogue DEF WantsData
  <2>4. ent' \in DirEntry /\ off' \in Nat /\ out' \in Seq(Nat)
    BY <1>3, <2>1, <2>2 DEF Inv, TypeOK
  <2>5. OnDisk' = OnDisk /\ NoPage' = NoPage /\ req' = req /\ mixed' = mixed
    BY <2>1 DEF OnDisk, device, NoPage, client
  <2>6. Serving'
    <3>1. ~mixed => ent' = OnDisk[req.i]
      BY <1>3, <2>1
    <3> QED
      BY <1>2, <1>4, <2>1, <2>2, <2>3, <2>5, <3>1 DEF Serving
  <2>7. Inv'
    BY <1>1, <2>1, <2>4, <2>6, GoOnKeeps
  <2> QED
    BY <1>1, <1>4, <2>1, <2>7 DEF GoesOn, Up
<1>7. CASE ~WantsData(data.ents)
  <2>1. Reply(DirAnswer(data.ents))
    BY <1>7 DEF serve_dir
  <2>2. DirAnswer(data.ents) \in Answers
    BY <1>1, <1>3, DirAnswerType
  <2>3. ~mixed => DirAnswer(data.ents) = Store!Truth(req)
    BY <1>1, <1>3, <1>7, DirTruth
  <2>4. PICK a \in Answers : a = DirAnswer(data.ents)
    BY <2>2
  <2>5. Reply(a) /\ (~mixed => a = Store!Truth(req))
    BY <2>1, <2>3, <2>4
  <2> QED
    BY <1>1, <2>5, ReplyIs
<1> QED
  BY <1>6, <1>7

(* The file that fs_read finds is the one asked for. *)
LEMMA FoundTruly ==
  ASSUME Inv, pc = "find", io = "ok", ~mixed
  PROVE  /\ req.i \in Nat /\ req.i < Len(files) /\ ent = OnDisk[req.i]
         /\ fs_find(data.ents, ent.name) = {req.i}
         /\ data.ents[req.i] = ent
         /\ files[req.i + 1].data \in Seq(Nat) /\ ent.size = Len(files[req.i + 1].data)
<1>1. hdr.sector = DIR_SECTOR
  BY DEF Inv, Calls, CallAt, Rq
<1>2. data.ents = OnDisk
  BY <1>1, OkLeft DEF OnDisk
<1>3. req.i \in Nat /\ Up
  BY RequestType
<1>4. req.i < Len(files) /\ ent = OnDisk[req.i]
  BY DEF Inv, Serving
<1> QED
  BY <1>2, <1>3, <1>4, Catalogue

(* fs_read has the directory. *)
LEMMA FindKeeps ==
  ASSUME Inv, find_dir
  PROVE  Inv' /\ (Answered \/ GoesOn)
<1> DEFINE hits == fs_find(data.ents, ent.name)
           hit == data.ents[Min(hits)]
           d == files[req.i + 1].data
<1>1. io = "ok" /\ io' = "none" /\ pc = "find"
  BY DEF find_dir, Ok, Returned
<1>2. req # NoReq /\ Up /\ req.i \in Nat /\ req.off \in Nat
  BY <1>1, RequestType
<1>3. req.op \in {"DATACH", "READFILE"} /\ ~NoPage
  BY <1>1 DEF Inv, Serving
<1>4. data.ents \in [Entries -> DirEntry]
  BY <1>1, OkLeft
<1>5. hits # {} => Min(hits) \in Entries /\ hit \in DirEntry
  <2>1. hits \subseteq Entries /\ Entries \subseteq Nat
    BY Sizes DEF fs_find, Entries
  <2>2. hits # {} => Min(hits) \in hits
    BY <2>1, MinIsLeast
  <2> QED
    BY <1>4, <2>1, <2>2
<1>6. ~mixed => /\ hits = {req.i} /\ hit = ent /\ d \in Seq(Nat) /\ Len(d) \in Nat
                /\ ent.size = Len(d)
  <2> SUFFICES ASSUME ~mixed
               PROVE  /\ hits = {req.i} /\ hit = ent /\ d \in Seq(Nat) /\ Len(d) \in Nat
                      /\ ent.size = Len(d)
    OBVIOUS
  <2>1. hits = {req.i} /\ data.ents[req.i] = ent /\ d \in Seq(Nat) /\ ent.size = Len(d)
    BY <1>1, FoundTruly
  <2>2. Min({req.i}) \in {req.i}
    BY <1>2, MinIsLeast
  <2>3. Min(hits) = req.i
    BY <2>1, <2>2
  <2> HIDE DEF hits, d
  <2>4. Len(d) \in Nat
    BY <2>1, LenProperties
  <2> QED
    BY <2>1, <2>3, <2>4
<1>7. buf_len \in Nat
  BY Sizes DEF buf_len
<1>8. CASE hits = {}
  <2>1. Reply(Unreadable) /\ mixed
    BY <1>6, <1>8 DEF find_dir
  <2>2. \A a \in Answers : Reply(a) => Inv' /\ Answered
    BY <1>1, <2>1, ReplyIs
  <2> QED
    BY <2>1, <2>2, WordType
<1>9. CASE hits # {} /\ hit.size = 0
  <2>1. Reply(DataAnswer(0, <<>>))
    BY <1>9 DEF find_dir
  <2>2. DataAnswer(0, <<>>) \in Answers
    <3>1. DataAnswer(0, <<>>) = Word(0)
      <4>1. ~(req.off < 0)
        BY <1>2
      <4> QED
        BY <4>1 DEF DataAnswer, Word
    <3> QED
      BY <3>1, WordType
  <2>3. ~mixed => DataAnswer(0, <<>>) = Store!Truth(req)
    <3> SUFFICES ASSUME ~mixed PROVE DataAnswer(0, <<>>) = Store!Truth(req)
      OBVIOUS
    <3>1. Len(d) = 0
      BY <1>6, <1>9
    <3>2. Min({buf_len, Len(d)}) = 0
      BY <1>6, <1>7, <3>1, MinOfTwo
    <3>3. SubSeq(d, 1, Min({buf_len, Len(d)})) = <<>>
      BY <1>6, <3>2, SubSeqEmpty
    <3>4. DataAnswer(Len(d), SubSeq(d, 1, Min({buf_len, Len(d)}))) = Store!Truth(req)
      BY <1>1, DataTruth
    <3> QED
      BY <3>1, <3>3, <3>4
  <2>4. PICK a \in Answers : a = DataAnswer(0, <<>>)
    BY <2>2
  <2>5. Reply(a) /\ (~mixed => a = Store!Truth(req))
    BY <2>1, <2>3, <2>4
  <2> QED
    BY <1>1, <2>5, ReplyIs
<1>10. CASE hits # {} /\ hit.size # 0
  <2>1. /\ UNCHANGED <<files, device, hdr, data, status, seq>>
        /\ UNCHANGED <<k, sb, dir, client>>
        /\ pc' = "copy" /\ ent' = hit /\ off' = 0 /\ out' = <<>>
    BY <1>10 DEF find_dir, Goto
  <2>2. ent' \in DirEntry /\ off' \in Nat /\ out' \in Seq(Nat)
    BY <1>5, <1>10, <2>1
  <2>3. off' < sectors_of(ent'.size)
    <3>1. PICK z \in Nat : z = ent'.size /\ z > 0
      <4>1. hit.size \in Nat
        BY <1>5, <1>10 DEF DirEntry
      <4>2. ent'.size = hit.size /\ hit.size # 0
        BY <1>10, <2>1
      <4> QED
        BY <4>1, <4>2
    <3>2. 0 < sectors_of(z) <=> 0 * SECTOR < z
      BY SectorsOf
    <3>3. 0 * SECTOR = 0
      BY Sizes
    <3> QED
      BY <2>1, <3>1, <3>2, <3>3
  <2>4. ~mixed => out' = Bytes(d, Min({off' * SECTOR, buf_len}))
    <3> SUFFICES ASSUME ~mixed PROVE out' = Bytes(d, Min({off' * SECTOR, buf_len}))
      OBVIOUS
    <3>1. off' * SECTOR = 0
      BY <2>1, Sizes
    <3>2. Min({0, buf_len}) = 0
      BY <1>7, MinOfTwo
    <3>3. Min({0, Len(d)}) = 0
      BY <1>6, MinOfTwo
    <3>4. Bytes(d, 0) = <<>>
      BY <1>6, <3>3, SubSeqEmpty DEF Bytes
    <3> QED
      BY <2>1, <3>1, <3>2, <3>4
  <2>5. OnDisk' = OnDisk /\ buf_len' = buf_len /\ NoPage' = NoPage /\ req' = req
          /\ mixed' = mixed /\ files' = files
    BY <2>1 DEF OnDisk, device, buf_len, NoPage, client
  <2>6. ~mixed => req.i < Len(files) /\ ent' = OnDisk[req.i]
    BY <1>1, <1>6, <2>1, FoundTruly
  <2>7. Serving'
    <3>1. ~(off' > 0)
      BY <2>1
    <3>2. ~mixed' => out' = Bytes(files'[req'.i + 1].data, Min({off' * SECTOR, buf_len'}))
      BY <2>4, <2>5
    <3>3. ~mixed' => req'.i < Len(files') /\ ent' = OnDisk'[req'.i]
      BY <2>5, <2>6
    <3>4. req'.op \in {"DATACH", "READFILE"} /\ ~NoPage' /\ req' # NoReq
      BY <1>2, <1>3, <2>5
    <3> QED
      BY <2>1, <2>3, <3>1, <3>2, <3>3, <3>4 DEF Serving
  <2>8. Inv'
    BY <1>1, <2>1, <2>2, <2>7, GoOnKeeps
  <2> QED
    BY <1>1, <1>2, <2>1, <2>8 DEF GoesOn, Up
<1> QED
  BY <1>8, <1>9, <1>10

(* What has been copied out, whatever it is. *)
LEMMA CopiedType ==
  ASSUME Inv, pc = "copy", io = "ok"
  PROVE  /\ copied(ent.size) \in Seq(Nat)
         /\ req.op = "DATACH" => Min({SECTOR, ent.size}) <= Len(copied(ent.size))
<1>1. /\ ent.size \in Nat /\ off \in Nat /\ out \in Seq(Nat) /\ Len(out) \in Nat
      /\ SECTOR \in Nat \ {0} /\ SECTOR \in Nat
  <2>1. ent \in DirEntry /\ off \in Nat /\ out \in Seq(Nat)
    BY DEF Inv, TypeOK
  <2> QED
    BY <2>1, EndType, LenProperties, Sizes
<1>2. data.bytes \in Seq(Nat) /\ Len(data.bytes) = SECTOR
  BY <1>1, OkLeft, IsASeq, LenProperties
<1>3. off * SECTOR \in Nat /\ off * SECTOR < ent.size
  <2>1. off < sectors_of(ent.size)
    BY DEF Inv, Serving
  <2> QED
    BY <1>1, <2>1, MulNext, SectorsOf
<1> DEFINE n == Min({SECTOR, ent.size - off * SECTOR})
           x == out \o SubSeq(data.bytes, 1, n)
<1>4. n \in Nat /\ n <= SECTOR /\ n <= ent.size - off * SECTOR
  <2>1. ent.size - off * SECTOR \in Nat
    BY <1>1, <1>3
  <2>2. PICK y \in Nat : y = ent.size - off * SECTOR
    BY <2>1
  <2>3. Min({SECTOR, y}) = IF SECTOR <= y THEN SECTOR ELSE y
    BY <1>1, MinOfTwo
  <2>4. n = Min({SECTOR, y})
    BY <2>2
  <2> HIDE DEF n
  <2> QED
    BY <1>1, <2>2, <2>3, <2>4
<1>5. copied(ent.size) = IF off * SECTOR + n <= buf_len THEN x ELSE out
  BY DEF copied
<1> HIDE DEF n
<1>6. x \in Seq(Nat) /\ Len(x) = Len(out) + n
  <2>1. SubSeq(data.bytes, 1, n) \in Seq(Nat) /\ Len(SubSeq(data.bytes, 1, n)) = n
    BY <1>2, <1>4, FirstBytes
  <2>2. PICK s \in Seq(Nat) : s = SubSeq(data.bytes, 1, n) /\ Len(s) = n
    BY <2>1
  <2>3. out \o s \in Seq(Nat) /\ Len(out \o s) = Len(out) + Len(s)
    BY <1>1, ConcatProperties
  <2> QED
    BY <2>2, <2>3
<1> HIDE DEF x
<1>7. ASSUME req.op = "DATACH"
      PROVE  Min({SECTOR, ent.size}) <= Len(copied(ent.size))
  <2> DEFINE m == Min({SECTOR, ent.size})
  <2>0. m = IF SECTOR <= ent.size THEN SECTOR ELSE ent.size
    BY <1>1, MinOfTwo
  <2> HIDE DEF m
  <2>1. CASE off = 0
    <3>1. off * SECTOR = 0
      BY <1>1, <2>1
    <3>5. ent.size - off * SECTOR = ent.size
      BY <1>1, <3>1
    <3>2. n = m
      BY <3>5 DEF n, m
    <3>3. buf_len = SECTOR
      BY <1>7 DEF buf_len
    <3>4. copied(ent.size) = x
      BY <1>4, <1>5, <3>1, <3>3
    <3> QED
      BY <1>1, <1>4, <1>6, <3>2, <3>4 DEF m
  <2>2. CASE off # 0
    <3>1. m <= Len(out)
      BY <1>1, <1>7, <2>2 DEF Inv, Serving, m
    <3>2. Len(out) <= Len(copied(ent.size)) /\ Len(copied(ent.size)) \in Nat /\ m \in Nat
      BY <1>1, <1>4, <1>5, <1>6, <2>0
    <3> QED
      BY <1>1, <3>1, <3>2 DEF m
  <2> QED BY <2>1, <2>2
<1>8. copied(ent.size) \in Seq(Nat)
  BY <1>1, <1>5, <1>6
<1> QED
  BY <1>7, <1>8

(* fs_read has a sector of the file. *)
LEMMA CopyKeeps ==
  ASSUME Inv, copy_data
  PROVE  Inv' /\ (Answered \/ GoesOn)
<1> DEFINE d == files[req.i + 1].data
           t == (off + 1) * SECTOR
           c == copied(ent.size)
<1>1. io = "ok" /\ io' = "none" /\ pc = "copy"
  BY DEF copy_data, Ok, Returned
<1>2. req # NoReq /\ Up /\ req.i \in Nat /\ req.off \in Nat
  BY <1>1, RequestType
<1>3. req.op \in {"DATACH", "READFILE"} /\ ~NoPage
  BY <1>1 DEF Inv, Serving
<1>4. c \in Seq(Nat) /\ (req.op = "DATACH" => Min({SECTOR, ent.size}) <= Len(c))
  BY <1>1, CopiedType
<1>5. /\ ent \in DirEntry /\ ent.size \in Nat /\ off \in Nat /\ off + 1 \in Nat /\ t \in Nat
      /\ buf_len \in Nat /\ SECTOR \in Nat
  <2>1. ent \in DirEntry /\ off \in Nat
    BY DEF Inv, TypeOK
  <2>2. SECTOR \in Nat /\ buf_len \in Nat
    BY Sizes DEF buf_len
  <2>3. off + 1 \in Nat
    BY <2>1
  <2>4. t \in Nat
    BY <2>2, <2>3, MulNext
  <2> QED
    BY <2>1, <2>2, <2>3, <2>4, EndType
<1>6. ~mixed => /\ d \in Seq(Nat) /\ ent.size = Len(d) /\ Len(d) \in Nat
                /\ c = Bytes(d, Min({t, buf_len}))
  BY <1>1, CopiedBytes
<1>9. CASE t < ent.size
  <2>1. /\ UNCHANGED <<files, device, hdr, data, status, seq>>
        /\ UNCHANGED <<k, sb, dir, ent, client>>
        /\ pc' = "copy" /\ out' = c /\ off' = off + 1
    BY <1>9 DEF copy_data, Goto
  <2>2. off' < sectors_of(ent.size)
    BY <1>5, <1>9, <2>1, SectorsOf
  <2>3. OnDisk' = OnDisk /\ buf_len' = buf_len /\ NoPage' = NoPage /\ req' = req
          /\ mixed' = mixed /\ files' = files
    BY <2>1 DEF OnDisk, device, buf_len, NoPage, client
  <2>4. ~mixed => out' = Bytes(d, Min({off' * SECTOR, buf_len}))
    BY <1>6, <2>1
  <2>5. ~mixed => req.i < Len(files) /\ ent = OnDisk[req.i]
    BY <1>1 DEF Inv, Serving
  <2>6. Serving'
    <3>1. req'.op = "DATACH" => Min({SECTOR, ent'.size}) <= Len(out')
      BY <1>4, <2>1, <2>3
    <3>2. ~mixed' => out' = Bytes(files'[req'.i + 1].data, Min({off' * SECTOR, buf_len'}))
      BY <2>3, <2>4
    <3>3. ~mixed' => req'.i < Len(files') /\ ent' = OnDisk'[req'.i]
      BY <2>1, <2>3, <2>5
    <3>4. req'.op \in {"DATACH", "READFILE"} /\ ~NoPage' /\ req' # NoReq
      BY <1>2, <1>3, <2>3
    <3>5. off' < sectors_of(ent'.size)
      BY <2>1, <2>2
    <3> QED
      BY <2>1, <3>1, <3>2, <3>3, <3>4, <3>5 DEF Serving
  <2>7. ent' \in DirEntry /\ off' \in Nat /\ out' \in Seq(Nat)
    BY <1>4, <1>5, <2>1
  <2>8. Inv'
    BY <1>1, <2>1, <2>6, <2>7, GoOnKeeps
  <2> QED
    BY <1>1, <1>2, <2>1, <2>8 DEF GoesOn, Up
<1>10. CASE ~(t < ent.size)
  <2>1. Reply(DataAnswer(ent.size, c))
    BY <1>10 DEF copy_data
  <2>2. DataAnswer(ent.size, c) \in Answers
    <3> HIDE DEF c
    <3>1. CASE req.op = "READFILE"
      <4>1. DataAnswer(ent.size, c) = [word |-> ent.size, page |-> c]
        BY <3>1 DEF DataAnswer
      <4>2. ent.size \in Int
        BY <1>5
      <4> QED
        BY <1>4, <4>1, <4>2 DEF Answers
    <3>2. CASE req.op = "DATACH"
      <4>1. DataAnswer(ent.size, c) = Word(IF req.off < ent.size /\ req.off < SECTOR
                                             THEN c[req.off + 1] ELSE 0)
        BY <3>2 DEF DataAnswer
      <4>2. Min({SECTOR, ent.size}) = IF SECTOR <= ent.size THEN SECTOR ELSE ent.size
        BY <1>5, MinOfTwo
      <4>3. ASSUME req.off < ent.size, req.off < SECTOR PROVE c[req.off + 1] \in Int
        <5>1. req.off + 1 \in 1 .. Len(c)
          BY <1>2, <1>4, <1>5, <3>2, <4>2, <4>3, LenProperties
        <5> QED
          BY <1>4, <5>1, ElementOfSeq
      <4> QED
        BY <4>1, <4>3, WordType
    <3> QED
      BY <1>3, <3>1, <3>2
  <2>3. ~mixed => DataAnswer(ent.size, c) = Store!Truth(req)
    <3> SUFFICES ASSUME ~mixed PROVE DataAnswer(ent.size, c) = Store!Truth(req)
      OBVIOUS
    <3>0. DataAnswer(Len(d), SubSeq(d, 1, Min({buf_len, Len(d)}))) = Store!Truth(req)
      BY <1>1, DataTruth
    <3> DEFINE m == Min({t, buf_len})
    <3>1. c = SubSeq(d, 1, Min({m, Len(d)}))
      BY <1>6 DEF Bytes
    <3> HIDE DEF c, d
    <3>2. m = IF t <= buf_len THEN t ELSE buf_len
      BY <1>5, MinOfTwo
    <3> HIDE DEF t, m
    <3>3. m \in Nat
      BY <1>5, <3>2
    <3>4. Min({m, Len(d)}) = (IF m <= Len(d) THEN m ELSE Len(d))
            /\ Min({buf_len, Len(d)}) = (IF buf_len <= Len(d) THEN buf_len ELSE Len(d))
      BY <1>5, <1>6, <3>3, MinOfTwo
    <3>5. t >= Len(d)
      BY <1>5, <1>6, <1>10
    <3>6. Min({m, Len(d)}) = Min({buf_len, Len(d)})
      BY <1>5, <1>6, <3>2, <3>3, <3>4, <3>5
    <3> QED
      BY <1>6, <3>0, <3>1, <3>6
  <2>4. PICK a \in Answers : a = DataAnswer(ent.size, c)
    BY <2>2
  <2>5. Reply(a) /\ (~mixed => a = Store!Truth(req))
    BY <2>1, <2>3, <2>4
  <2> QED
    BY <1>1, <2>5, ReplyIs
<1> QED
  BY <1>9, <1>10
-----------------------------------------------------------------------------
(* Results.                                                                *)

(* Every step keeps the invariant. *)
LEMMA StepInv == Inv /\ [Next]_vars => Inv'
<1> SUFFICES ASSUME Inv, [Next]_vars PROVE Inv'
  OBVIOUS
<1>1. CASE fetch
  BY <1>1, FetchKeeps
<1>2. ASSUME NEW i \in DOMAIN flight, NEW ok \in BOOLEAN, complete(i, ok) PROVE Inv'
  BY <1>2, CompleteKeeps
<1>3. CASE blk_rw
  BY <1>3, WritesKeep, ReadsKeep, PollsKeep DEF blk_rw
<1>4. CASE fs_setup
  BY <1>4, InitFailKeeps, FormatKeeps, ReadSbKeeps, ReadDirKeeps, DataKeeps, EntryKeeps,
     CommitKeeps, ListedKeeps DEF fs_setup
<1>5. CASE serve
  BY <1>5, NoPageKeeps, FailedKeeps, ServeDirKeeps, FindKeeps, CopyKeeps DEF serve
<1>6. ASSUME NEW r \in Requests, ask(r) PROVE Inv'
  BY <1>6, AskKeeps
<1>7. CASE UNCHANGED vars
  <2>1. UNCHANGED <<files, disk, flight, used, hdr, data, status, seq, io, pc, locals, client>>
    BY <1>7 DEF vars, device, ring
  <2>2. Progress' /\ Serving'
    BY <2>1, SameDisk DEF Inv, client
  <2>3. Calls'
    BY <2>1, SameCalls DEF Inv, client
  <2>4. DirApart' /\ TypeOK'
    BY <2>1 DEF Inv, DirApart, TypeOK, locals, client
  <2>5. Ring'
    <3>1. outstanding' = outstanding /\ Owed' = Owed /\ Up' = Up /\ mixed' = mixed
      BY <2>1 DEF outstanding, Owed, Up, client
    <3> QED
      BY <2>1, <3>1 DEF Inv, Ring, Clean, OwnFlight, OnlyReads, Transferred
  <2> QED
    BY <2>2, <2>3, <2>4, <2>5 DEF Inv
<1> QED
  BY <1>1, <1>2, <1>3, <1>4, <1>5, <1>6, <1>7 DEF Next, Device, Program

(* The driver and the filesystem keep their invariant, whatever the device *)
(* does with the requests it holds. *)
THEOREM FsInvariant == Spec => []Inv
  BY InitInv, StepInv, PTL DEF Spec

(* Every buffer, sector, index and answer keeps its type. *)
THEOREM FsTypes == Spec => []TypeOK
<1>1. Inv => TypeOK
  BY DEF Inv
<1> QED
  BY <1>1, FsInvariant, PTL

(* Files never share a sector and lie inside the disk (fs_create), also    *)
(* when a write of the setup fails, is given up or lands late. *)
THEOREM FilesLieApart == Spec => []NoOverlap
<1>1. Inv => NoOverlap
  BY DEF Inv, DirApart, Apart, NoOverlap
<1> QED
  BY <1>1, FsInvariant, PTL

(* Once the service is up the disk never changes: blk_rw has no write left *)
(* with the device, for any number of requests given up. *)
THEOREM DiskStaysFrozen == Spec => DiskFrozen
<1>1. Inv /\ [Next]_vars => (Up => disk' = disk)
  <2> SUFFICES ASSUME Inv, [Next]_vars, Up PROVE disk' = disk
    OBVIOUS
  <2>1. ASSUME NEW i \in DOMAIN flight, NEW ok \in BOOLEAN, complete(i, ok) PROVE disk' = disk
    BY <2>1, CompleteKeeps
  <2>2. CASE fetch \/ UNCHANGED vars
    BY <2>2 DEF fetch, vars, device
  <2>3. CASE blk_rw
    BY <2>3 DEF blk_rw, fs_format_sb, fs_format_dir, create_read_sb, create_read_dir,
       create_write_data, create_write_dir, create_write_sb, fs_list, serve_read_dir,
       find_read_dir, copy_read_data, publish, poll_done, poll_timeout, Reading, Writing,
       Fill, device
  <2>4. CASE fs_setup
    BY <2>4 DEF fs_setup, blk_init, setup_format, setup_sb, setup_dir, setup_data, setup_entry,
       setup_commit, setup_failed, setup_listed, Goto, device
  <2>5. CASE serve
    BY <2>5 DEF serve, serve_no_page, serve_failed, serve_dir, find_dir, copy_data, read_failed,
       Reply, Goto, device
  <2>6. ASSUME NEW r \in Requests, ask(r) PROVE disk' = disk
    BY <2>6 DEF ask, Goto, device
  <2> QED
    BY <2>1, <2>2, <2>3, <2>4, <2>5, <2>6 DEF Next, Device, Program
<1>2. Inv /\ [Next]_vars => [Up => disk' = disk]_vars
  BY <1>1
<1> QED
  BY <1>2, FsInvariant, PTL DEF Spec, DiskFrozen

(* The parts of the state that FileStore sees. *)
Phase == IF Up THEN "up" ELSE IF pc = "down" THEN "down" ELSE "setup"
Fault == Up /\ io = "failed"
Left == Up /\ Stale

(* A step that FileStore does not see. *)
LEMMA Unseen ==
  ASSUME UNCHANGED <<files, have_shm, req, ans, mixed>>, Phase' = Phase, Fault' = Fault,
         Left' = Left
  PROVE  Store!vars' = Store!vars
  BY DEF Store!vars, Phase, Fault, Left

(* Whether a request is left over does not change while blk_rw returns. *)
LEMMA SameLeft ==
  ASSUME UNCHANGED <<seq, used>>, io # "polling", io' # "polling", Up' = Up
  PROVE  Left' = Left
  BY DEF Left, Stale, outstanding

(* A step of the service is one of FileStore. *)
LEMMA AnswerIsAnswer ==
  ASSUME UNCHANGED <<files, device, seq>>, Answered \/ GoesOn
  PROVE  [Store!Next]_(Store!vars)
<1>1. CASE Answered
  <2>1. Left' = Left
    BY <1>1, SameLeft DEF Answered, device
  <2>2. ans' \in IF mixed THEN [word : Int, page : Seq(Nat)]
                 ELSE IF Fault THEN Store!Refusals(req) ELSE {Store!Truth(req)}
    BY <1>1 DEF Answered, Answers, Fault
  <2>3. Phase' = Phase /\ Fault' = FALSE
    BY <1>1 DEF Answered, Phase, Fault
  <2>4. req # NoReq /\ req' = NoReq /\ mixed' = FALSE /\ have_shm' = have_shm
    BY <1>1 DEF Answered
  <2>5. Store!Answer
    BY <2>1, <2>2, <2>3, <2>4 DEF Store!Answer, Store!NoReq, NoReq, Phase, Fault, Left
  <2> QED
    BY <2>5 DEF Store!Next
<1>2. CASE GoesOn
  <2>1. Left' = Left
    BY <1>2, SameLeft DEF GoesOn, device
  <2> QED
    BY <1>2, <2>1, Unseen DEF GoesOn, Phase, Fault, client
<1> QED
  BY <1>1, <1>2

(* One request more or less with the device. *)
LEMMA CompleteCounts ==
  ASSUME Inv, NEW i \in DOMAIN flight, NEW ok \in BOOLEAN, complete(i, ok)
  PROVE  outstanding \in Nat /\ outstanding' = outstanding - 1
<1>1. used' = (used + 1) % SEQ_WRAP /\ seq' = seq
  BY DEF complete
<1>2. flight \in Seq(AnyRq)
  BY DEF Inv, TypeOK
<1>3. Len(flight) \in Nat /\ i \in 1 .. Len(flight)
  BY <1>2, LenProperties
<1>4. used \in Index /\ seq \in Index /\ outstanding \in Nat /\ used # seq
  BY <1>3, OutstandingType DEF Inv, Ring
<1> QED
  BY <1>1, <1>4, Outstanding DEF outstanding

(* Every step of the driver, the setup and the service is a step of        *)
(* FileStore or unseen by it. *)
LEMMA StoreStep == Inv /\ [Next]_vars => [Store!Next]_(Store!vars)
<1> SUFFICES ASSUME Inv, [Next]_vars PROVE [Store!Next]_(Store!vars)
  OBVIOUS
<1>1. CASE fetch \/ UNCHANGED vars
  <2>1. UNCHANGED <<files, have_shm, req, ans, mixed, pc, io, seq, used>>
    BY <1>1 DEF fetch, vars, client, ring, device
  <2> QED
    BY <2>1, Unseen DEF Phase, Fault, Left, Stale, outstanding, Up
<1>2. ASSUME NEW i \in DOMAIN flight, NEW ok \in BOOLEAN, complete(i, ok)
      PROVE  [Store!Next]_(Store!vars)
  <2>1. UNCHANGED <<files, have_shm, req, ans, mixed, pc, io>>
    BY <1>2 DEF complete, client
  <2>2. Phase' = Phase /\ Fault' = Fault /\ Up' = Up
    BY <2>1 DEF Phase, Fault, Up
  <2>3. Left' => Left
    <3>1. outstanding \in Nat /\ outstanding' = outstanding - 1
      BY <1>2, CompleteCounts
    <3>2. Stale' => Stale
      BY <2>1, <3>1 DEF Stale
    <3> QED
      BY <2>2, <3>2 DEF Left
  <2>4. CASE Left' = Left
    BY <2>1, <2>2, <2>4, Unseen
  <2>5. CASE Left' # Left
    <3>1. Left /\ Left' = FALSE
      BY <2>3, <2>5 DEF Left
    <3>2. Store!Settle
      BY <2>1, <2>2, <3>1 DEF Store!Settle, Phase, Fault, Left
    <3> QED
      BY <3>2 DEF Store!Next
  <2> QED BY <2>4, <2>5
<1>3. ASSUME NEW w \in BOOLEAN, NEW s, NEW c, Fill(w, s, c),
             pc \notin {"blk_init", "idle", "down"}
      PROVE  [Store!Next]_(Store!vars)
  <2>1. /\ UNCHANGED <<files, have_shm, req, ans, pc, seq, used>> /\ io = "none" /\ io' = "filled"
        /\ mixed' = (mixed \/ used # seq)
    BY <1>3 DEF Fill, device
  <2>2. Phase' = Phase /\ Fault' = Fault /\ Up' = Up
    BY <2>1 DEF Phase, Fault, Up
  <2>3. Left' = Left
    BY <2>1, <2>2, SameLeft
  <2>4. CASE used # seq
    <3>1. outstanding \in Nat /\ outstanding # 0
      BY <2>4, OutstandingType DEF Inv
    <3>2. Up
      <4>1. ~Up => Owed = 0
        BY <1>3, <2>1 DEF Owed, Up
      <4> QED
        BY <3>1, <4>1 DEF Inv, Ring
    <3>3. Left
      BY <2>1, <3>1, <3>2 DEF Left, Stale
    <3>4. req # NoReq
      <4>1. pc \in {"serve", "find", "copy"}
        BY <1>3, <3>2 DEF Up
      <4> QED
        BY <4>1, RequestType
    <3>5. mixed' = TRUE
      BY <2>1, <2>4
    <3>6. Store!Overlap
      BY <2>1, <2>2, <2>3, <3>3, <3>4, <3>5
         DEF Store!Overlap, Store!NoReq, NoReq, Phase, Fault, Left
    <3> QED
      BY <3>6 DEF Store!Next
  <2>5. CASE used = seq
    <3>1. mixed' = mixed
      BY <2>1, <2>5 DEF Inv, TypeOK
    <3> QED
      BY <2>1, <2>2, <2>3, <3>1, Unseen
  <2> QED BY <2>4, <2>5
<1>4. CASE fs_format_sb \/ fs_format_dir \/ create_read_sb \/ create_read_dir
             \/ create_write_data \/ create_write_dir \/ create_write_sb \/ fs_list
             \/ serve_read_dir \/ find_read_dir \/ copy_read_data
  <2>1. \E w \in BOOLEAN : \E s, c : Fill(w, s, c)
    BY <1>4, Zenon DEF fs_format_sb, fs_format_dir, create_read_sb, create_read_dir,
       create_write_data, create_write_dir, create_write_sb, fs_list, serve_read_dir,
       find_read_dir, copy_read_data, Reading, Writing
  <2>2. pc \notin {"blk_init", "idle", "down"}
    BY <1>4 DEF fs_format_sb, fs_format_dir, create_read_sb, create_read_dir,
       create_write_data, create_write_dir, create_write_sb, fs_list, serve_read_dir,
       find_read_dir, copy_read_data
  <2> QED
    BY <1>3, <2>1, <2>2
<1>5. CASE publish
  <2>1. /\ UNCHANGED <<files, have_shm, req, ans, mixed, pc, used>>
        /\ io = "filled" /\ io' = "polling" /\ seq' = (seq + 1) % SEQ_WRAP
    BY <1>5 DEF publish, client, device
  <2>2. Phase' = Phase /\ Fault' = Fault /\ Up' = Up
    BY <2>1 DEF Phase, Fault, Up
  <2>3. outstanding \in Nat /\ outstanding' = outstanding + 1
    <3>1. pc \in Labels \ {"blk_init", "idle", "down"}
      BY <2>1 DEF Inv, TypeOK, Calls
    <3>2. Owed \in Nat /\ Owed <= MAX_STALE
      BY <2>1, <3>1, Sizes DEF Owed
    <3>3. outstanding \in Nat /\ outstanding <= Owed /\ used \in Index /\ seq \in Index
      BY OutstandingType DEF Inv, Ring
    <3>4. outstanding + 1 < SEQ_WRAP
      BY <3>2, <3>3, Sizes
    <3> QED
      BY <2>1, <3>3, <3>4, Outstanding DEF outstanding
  <2>4. Stale' = Stale
    BY <2>1, <2>3 DEF Stale
  <2> QED
    BY <2>1, <2>2, <2>4, Unseen DEF Left
<1>6. CASE poll_done \/ poll_timeout
  <2>1. /\ UNCHANGED <<files, have_shm, req, ans, mixed, pc, used, seq>>
        /\ io = "polling" /\ io' \in {"ok", "failed"}
        /\ io' = "ok" => used = seq
    BY <1>6 DEF poll_done, poll_timeout, client, device
  <2>2. Phase' = Phase /\ Up' = Up
    BY <2>1 DEF Phase, Up
  <2>3. outstanding' = outstanding /\ outstanding \in Nat /\ (used = seq <=> outstanding = 0)
    BY <2>1, OutstandingType DEF outstanding, Inv
  <2>4. CASE Up /\ io' = "failed"
    <3>1. pc \in {"serve", "find", "copy"}
      BY <2>1, <2>4 DEF Inv, Calls, Up
    <3>2. req # NoReq
      BY <3>1, RequestType
    <3>3. Left' \in {Left, TRUE}
      <4>1. Stale => Stale'
        BY <2>1, <2>3, <2>4 DEF Stale
      <4>2. Left => Left'
        BY <2>2, <4>1 DEF Left
      <4>3. Left \in BOOLEAN /\ Left' \in BOOLEAN
        BY DEF Left
      <4> QED
        BY <4>2, <4>3
    <3>4. Fault' = TRUE
      BY <2>2, <2>4 DEF Fault
    <3>5. Store!DiskFault
      BY <2>1, <2>2, <3>2, <3>3, <3>4 DEF Store!DiskFault, Store!NoReq, NoReq, Phase, Fault, Left
    <3> QED
      BY <3>5 DEF Store!Next
  <2>5. CASE ~Up
    BY <2>1, <2>2, <2>5, Unseen DEF Fault, Left
  <2>6. CASE io' = "ok"
    <3>1. ~Stale /\ ~Stale'
      BY <2>1, <2>3, <2>6 DEF Stale
    <3> QED
      BY <2>1, <2>2, <2>6, <3>1, Unseen DEF Fault, Left
  <2> QED
    BY <2>1, <2>4, <2>5, <2>6
<1>7. CASE fs_setup
  <2>1. /\ UNCHANGED <<files, req, ans, mixed>> /\ io' = "none"
        /\ pc \in Creating \cup {"blk_init", "list"}
        /\ \/ pc' \in Creating \cup {"list", "down"} /\ have_shm' = have_shm
           \/ pc' = "idle" /\ have_shm' \in BOOLEAN
    <3>1. CASE setup_failed \/ setup_listed \/ \E ok \in BOOLEAN : blk_init(ok)
      BY <3>1 DEF setup_failed, setup_listed, blk_init, Goto, Failed, Returned, client,
         Creating, Inv, Calls
    <3>2. CASE setup_format \/ setup_sb
      BY <3>2 DEF setup_format, setup_sb, Goto, Ok, Returned, client, Creating, NextFile
    <3>3. CASE setup_dir \/ setup_data
      BY <3>3 DEF setup_dir, setup_data, Goto, Ok, Returned, client, Creating, AfterData
    <3>4. CASE setup_entry \/ setup_commit
      BY <3>4 DEF setup_entry, setup_commit, Goto, Ok, Returned, client, Creating, NextFile
    <3> QED
      BY <1>7, <3>1, <3>2, <3>3, <3>4 DEF fs_setup
  <2>2. /\ Phase = "setup" /\ Fault = FALSE /\ Fault' = FALSE /\ Left = FALSE
        /\ Left' \in BOOLEAN
    BY <2>1 DEF Phase, Fault, Left, Up, Creating
  <2>3. CASE pc' \in Creating \cup {"list"}
    <3>1. Phase' = "setup" /\ Left' = FALSE /\ have_shm' = have_shm
      BY <2>1, <2>3 DEF Phase, Left, Up, Creating
    <3> QED
      BY <2>1, <2>2, <3>1, Unseen
  <2>4. CASE pc' \in {"down", "idle"}
    <3>1. Phase' \in {"up", "down"}
      BY <2>4 DEF Phase, Up
    <3>2. have_shm' \in BOOLEAN
      BY <2>1 DEF Inv, TypeOK
    <3>3. Store!Open(Phase')
      BY <2>1, <2>2, <3>2 DEF Store!Open, Phase, Fault, Left
    <3> QED
      BY <3>1, <3>3 DEF Store!Next
  <2> QED BY <2>1, <2>3, <2>4
<1>8. CASE serve
  <2>1. UNCHANGED <<files, device, seq>>
    BY <1>8 DEF serve, serve_no_page, serve_failed, serve_dir, find_dir, copy_data, read_failed,
       Reply, Goto
  <2>2. Answered \/ GoesOn
    BY <1>8, NoPageKeeps, FailedKeeps, ServeDirKeeps, FindKeeps, CopyKeeps DEF serve
  <2> QED
    BY <2>1, <2>2, AnswerIsAnswer
<1>9. ASSUME NEW r \in Requests, ask(r) PROVE [Store!Next]_(Store!vars)
  <2>1. /\ UNCHANGED <<files, have_shm, ans, mixed, io, seq, used>>
        /\ req' = r /\ pc = "idle" /\ pc' = "serve"
    BY <1>9 DEF ask, Goto, device
  <2>2. req = NoReq /\ io = "none"
    BY <1>9, <2>1, AskKeeps DEF Inv, Calls
  <2>3. Up /\ Up'
    BY <2>1 DEF Up
  <2>4. Left' = Left
    BY <2>1, <2>2, <2>3, SameLeft
  <2>5. Phase = "up" /\ Phase' = "up" /\ Fault' = Fault
    BY <2>1, <2>3 DEF Phase, Fault
  <2>6. Store!Ask(r)
    BY <2>1, <2>2, <2>4, <2>5 DEF Store!Ask, Store!NoReq, NoReq, Phase, Fault, Left
  <2> QED
    BY <2>6 DEF Store!Next
<1> QED
  BY <1>1, <1>2, <1>4, <1>5, <1>6, <1>7, <1>8, <1>9 DEF Next, Device, Program, blk_rw

(* The service starts as FileStore does. *)
LEMMA StoreInit == Init => Store!Init
<1> SUFFICES ASSUME Init PROVE Store!Init
  OBVIOUS
<1>1. ~Up /\ pc # "down"
  BY DEF Init, Up
<1> QED
  BY <1>1 DEF Init, Store!Init, Store!NoReq, NoReq, Store!Word, Word, Store!ERR, ERR

(* The driver, XernelFS and the service implement FileStore, in whatever   *)
(* order the device completes its requests: a request is answered from the *)
(* catalogue fs_setup was given, or refused if one of its own blk_rw       *)
(* failed or combined_service has no page; only a request that began with  *)
(* one given up still in the ring may be answered otherwise. *)
THEOREM ServesTheCatalogue == Spec => StoreSpec
  BY FsInvariant, StoreStep, StoreInit, PTL DEF Spec, StoreSpec, Store!Spec
=============================================================================
