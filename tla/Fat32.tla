-------------------------------- MODULE Fat32 --------------------------------
(* The kernel's FAT32 reader (pi-side/kernel/disk/fs.c, fat32-helpers.c) and *)
(* the three shell commands on top of it: ls, cat and run.                   *)
(* A sector is a sequence of SECTOR_SIZE items.  An item is one directory    *)
(* slot [kind, state, attr, name, lower, cluster, nbytes] or one byte of a   *)
(* file [kind, val].  A disk is                                              *)
(*   parts, sig    the MBR: the type of each partition, the signature        *)
(*   lba           where the partition starts                                *)
(*   boot          the fields of the boot sector                             *)
(*   fats          the two copies of the FAT, each with its cluster entries  *)
(*   data          the items of each cluster; junk, a byte of the FAT itself *)
(* and tree, what the formatter put there: a path to a directory gives the   *)
(* names in it, a path to a file its bytes, either its clusters; fit and     *)
(* good tell disks of another kind and damaged ones apart.  The code looks   *)
(* at none of these.                                                         *)
(* A FAT entry has 4 high bits and a low part below CMod, which stands for   *)
(* 2^28.  Operators whose names begin with M and a capital are faulty        *)
(* variants of the definition that follows them: they test the properties.   *)
EXTENDS Integers, Sequences, SequencesExt, FiniteSets, FiniteSetsExt

CONSTANTS
    Disks,        \* the SD cards the pi may find
    Paths,        \* the paths typed at the shell, each a sequence of names
    SECTOR_SIZE,  \* items in a sector
    CMod          \* FAT entries are taken modulo this

ASSUME FatAssumption == SECTOR_SIZE \in Nat \ {0} /\ CMod \in Nat /\ CMod > 8
\* Splitting what was typed gives at least one name, perhaps an empty one.
ASSUME PathAssumption == \A p \in Paths : p \in Seq(Range(p)) /\ p # <<>>

VARIABLES
    disk,      \* the SD card
    pc,        \* where the kernel is
    fs,        \* the mounted file system
    cmd,       \* the command: [op, path]
    rest,      \* path_lookup: the names still to be resolved
    last_dir,  \* path_lookup: the directory they are looked up in
    scan,      \* count_clusters: [start, id, n], and what the count is for
    rd,        \* fat32_read_file: [entry, id, data, n_alloc]
    out        \* what the command has given: [kind, val]

vars == <<disk, pc, fs, cmd, rest, last_dir, scan, rd, out>>

Byte(n) == [kind |-> "byte", val |-> n]
NUL == Byte(0)
NoFs == [cluster_begin_lba |-> 0, spc |-> 0, root |-> 0, fat |-> <<>>]
NoScan == [start |-> 0, id |-> 0, n |-> 0, then |-> "list"]
NoFile == [entry |-> {}, id |-> 0, data |-> <<>>, n_alloc |-> 0]
Nothing == [kind |-> "none", val |-> <<>>]
-----------------------------------------------------------------------------
(* The card *)

DataLba == disk.lba + disk.boot.reserved + disk.boot.nfats * disk.boot.nsec_per_fat
Sector(lba) ==
    IF lba < DataLba THEN [i \in 1 .. SECTOR_SIZE |-> disk.junk]
    ELSE LET c == 2 + (lba - DataLba) \div disk.boot.spc
             k == (lba - DataLba) % disk.boot.spc
         IN  SubSeq(disk.data[c], k * SECTOR_SIZE + 1, (k + 1) * SECTOR_SIZE)
OnDisk(lba, n) == lba + n <= DataLba + Cardinality(DOMAIN disk.data) * disk.boot.spc

\* sd_readblock of n sectors (the call in SdCard that succeeds), and sec_read:
\* a count of 0 reads one sector, and the demand on the result fails.
Readable(lba, n) == n > 0 /\ OnDisk(lba, n)
sec_read(lba, n) == FlattenSeq([i \in 1 .. n |-> Sector(lba + i - 1)])
-----------------------------------------------------------------------------
(* fat32_init *)

is_fat32(t) == t \in {"fat32", "fat32lba"}
fat32_mbr_check == (\E i \in 1 .. 4 : is_fat32(disk.parts[i])) /\ disk.sig = "AA55"

Pow2 == {0, 1, 2, 4, 8, 16, 32, 64, 128}       \* is_pow2 holds of 0 too
Expected == [bytes_per_sec |-> 512, nfats |-> 2, sig |-> "AA55", max_files |-> 0,
             fs_nsec |-> 0, zero |-> 0, info_sec_num |-> 1, backup_boot_loc |-> 6,
             extended_sig |-> "29"]
fat32_volume_id_check ==
    /\ \A f \in DOMAIN Expected : disk.boot[f] = Expected[f]
    /\ disk.boot.spc \in Pow2 /\ disk.boot.nsec_in_fs # 0

\* memcmp(fat1, fat2, nsec_per_fat): that many bytes, four to an entry.
FatsMatch == \A i \in 0 .. (disk.boot.nsec_per_fat \div 4) - 1 :
                disk.fats[1][i] = disk.fats[2][i]

fat32_mk ==
    [cluster_begin_lba |-> disk.lba + disk.boot.reserved
                             + disk.boot.nfats * disk.boot.nsec_per_fat,
     spc |-> disk.boot.spc, root |-> disk.boot.first_cluster, fat |-> disk.fats[1]]

Stop(where) == pc' = where /\ UNCHANGED <<disk, fs, cmd, rest, last_dir, scan, rd>>

MAnyPartition == fat32_volume_id_check /\ disk.sig = "AA55" /\ FatsMatch
Mountable == /\ fat32_mbr_check
             /\ is_fat32(disk.parts[1]) /\ \A i \in 2 .. 4 : disk.parts[i] = "empty"
             /\ fat32_volume_id_check /\ FatsMatch

fat32_init ==
    /\ pc = "off"
    /\ \/ /\ Mountable
          /\ fs' = fat32_mk /\ pc' = "shell"
          /\ UNCHANGED <<disk, cmd, rest, last_dir, scan, rd, out>>
       \/ ~Mountable /\ Stop("panic") /\ UNCHANGED out
-----------------------------------------------------------------------------
(* Cluster chains *)

Type(x) == CASE x % CMod = 0 -> "FREE"
             [] x % CMod = 1 -> "RESERVED"
             [] x % CMod = CMod - 2 -> "BAD"
             [] x % CMod = CMod - 1 -> "LAST"
             [] x % CMod = CMod - 3 -> "PANIC"
             [] OTHER -> "USED"

\* count_clusters, called from cluster c, and one turn of its loop: the FAT is
\* read at the whole entry, and only the end is recognised without the high
\* bits.  A chain that leaves the FAT is garbage.
Count(c, what) == /\ pc' = "count"
                  /\ scan' = [start |-> c, id |-> c, n |-> 0, then |-> what]
CountStep == /\ pc = "count" /\ Type(scan.id) # "LAST"
             /\ \/ /\ scan.id \in DOMAIN fs.fat /\ Type(scan.id) # "PANIC"
                   /\ scan' = [scan EXCEPT !.id = fs.fat[@], !.n = @ + 1]
                   /\ UNCHANGED <<disk, pc, fs, cmd, rest, last_dir, rd, out>>
                \/ /\ scan.id \notin DOMAIN fs.fat \/ Type(scan.id) = "PANIC"
                   /\ Stop("panic") /\ UNCHANGED out
Counted(what) == pc = "count" /\ Type(scan.id) = "LAST" /\ scan.then = what

cluster_to_lba(c) == fs.cluster_begin_lba + (c - fs.root) * fs.spc
-----------------------------------------------------------------------------
(* Directories *)

IsLfn(s) == s.attr = {"lfn"}
\* fat32_dirent_free: a deleted slot, or one that was never used.
Free(s) == s.state = "deleted" \/ (~IsLfn(s) /\ s.state = "end")

\* to_utf8 for the 16-bit units of a long name, with the table's masks as
\* remainders and its leading bits as sums.
to_utf8(cp) ==
    LET len == IF cp <= 127 THEN 1 ELSE IF cp <= 2047 THEN 2 ELSE 3
        lead == CASE len = 1 -> 0 [] len = 2 -> 192 [] len = 3 -> 224
        mask == CASE len = 1 -> 128 [] len = 2 -> 32 [] len = 3 -> 16
    IN  [i \in 1 .. len |-> LET x == cp \div 2^(6 * (len - i))
                            IN  IF i = 1 THEN lead + (x % mask) ELSE 128 + (x % 64)]

\* The slots of a long name before slot j: fat32_to_dirent takes a run of them
\* from its first one that is not deleted.
Run(d, j) == {i \in 1 .. j - 1 : (\A k \in i .. j - 1 : IsLfn(d[k]))
                                 /\ \E k \in 1 .. i : ~Free(d[k])
                                       /\ \A m \in k .. j - 1 : IsLfn(d[m])}

\* lfn_get_name: the pieces back to front, up to each one's terminator.
lfn_get_name(d, r) == FlattenSeq([i \in 1 .. Cardinality(r) |->
                        FlattenSeq([u \in DOMAIN d[Max(r) - i + 1].name |->
                                      to_utf8(d[Max(r) - i + 1].name[u])])])

\* The slots that give a directory entry, and the asserts on the way.
Emitted(d) == {j \in DOMAIN d : ~IsLfn(d[j]) /\ (~Free(d[j]) \/ Run(d, j) # {})}
DirAsserts(d) ==
    /\ \A j \in Emitted(d) :
         d[j].attr \cap (IF Run(d, j) = {} THEN {"dir", "archive", "label"}
                         ELSE {"dir", "archive"}) # {}
    /\ Cardinality(Emitted(d)) = Cardinality({j \in DOMAIN d : ~IsLfn(d[j]) /\ ~Free(d[j])})
    /\ \A j \in DOMAIN d : IsLfn(d[j]) /\ ~Free(d[j]) => \E k \in j .. Len(d) : ~IsLfn(d[k])

\* A short name is 8 bytes, of which the spaces are dropped, and 3 bytes, of
\* which they are not, with a dot in between even if the 3 are blank; reserved0
\* can ask for small letters.
ShortName(s) ==
    LET c(i) == IF s.lower /\ s.name[i] \in 65 .. 90 THEN s.name[i] + 32 ELSE s.name[i]
    IN  SelectSeq([i \in 1 .. 8 |-> c(i)], LAMBDA x : x # 32)
          \o <<46>> \o [i \in 1 .. 3 |-> c(8 + i)]
fat32_dir_filename(d, j) == IF Run(d, j) = {} THEN ShortName(d[j])
                            ELSE lfn_get_name(d, Run(d, j))
Dirent(d, j) == [name |-> fat32_dir_filename(d, j), cluster_id |-> d[j].cluster,
                 is_dir_p |-> "dir" \in d[j].attr, nbytes |-> d[j].nbytes]
fat32_to_dirent(d) ==
    LET emitted == Emitted(d)
        upto[j \in 0 .. Len(d)] ==
            IF j = 0 THEN <<>>
            ELSE IF j \in emitted THEN Append(upto[j - 1], Dirent(d, j)) ELSE upto[j - 1]
    IN  upto[Len(d)]

\* fat32_read_dir, n clusters counted from cluster c: it reads n clusters one
\* after the other.  DirOK: nothing on the way asserts.
MDirItems(c, n) == sec_read(cluster_to_lba(c), fs.spc)
DirItems(c, n) == sec_read(cluster_to_lba(c), n * fs.spc)
DirOK(c, n) == /\ Readable(cluster_to_lba(c), n * fs.spc)
               /\ LET d == DirItems(c, n)
                  IN  (\A i \in DOMAIN d : d[i].kind = "slot") /\ DirAsserts(d)
fat32_read_dir(c, n) == LET d == DirItems(c, n) IN fat32_to_dirent(d)
-----------------------------------------------------------------------------
(* ls, cat and run.  A path is split at its slashes, so "/" is two empty     *)
(* names, and an absolute path begins with an empty one.                     *)

MAbsolute(p) == p # <<>>
Absolute(p) == Len(p) > 1 /\ p[1] = <<>>
IsRoot(p) == p = <<<<>>, <<>>>>

Give(kind, val) == pc' = "shell" /\ out' = [kind |-> kind, val |-> val]

dir_lookup(name) == {last_dir[i] : i \in {i \in DOMAIN last_dir : last_dir[i].name = name
                        /\ \A k \in 1 .. i - 1 : last_dir[k].name # name}}

\* The directory counted is read: do_ls prints its names, path_lookup goes on
\* in it.
ReadDir ==
    LET es == fat32_read_dir(scan.start, scan.n)
    IN  /\ \/ /\ Counted("list") /\ DirOK(scan.start, scan.n)
              /\ Give("list", [i \in DOMAIN es |-> es[i].name]) /\ UNCHANGED last_dir
           \/ /\ Counted("descend") /\ DirOK(scan.start, scan.n)
              /\ pc' = "lookup" /\ last_dir' = es /\ UNCHANGED out
           \/ /\ Counted("list") \/ Counted("descend")
              /\ ~DirOK(scan.start, scan.n)
              /\ pc' = "panic" /\ UNCHANGED <<last_dir, out>>
        /\ UNCHANGED <<disk, fs, cmd, rest, scan, rd>>

\* The command line is read: do_ls, do_read and do_run up to path_lookup.
Command(op, p) ==
    /\ pc = "shell" /\ cmd' = [op |-> op, path |-> p]
    /\ rd' = NoFile /\ rest' = Tail(p) /\ last_dir' = <<>> /\ UNCHANGED <<disk, fs>>
    /\ \/ ~Absolute(p) /\ Give("relative", <<>>) /\ scan' = NoScan
       \/ /\ Absolute(p) /\ ~IsRoot(p)
          /\ Count(fs.root, "descend") /\ UNCHANGED out
       \/ IsRoot(p) /\ op = "ls" /\ Count(fs.root, "list") /\ UNCHANGED out
       \/ IsRoot(p) /\ op # "ls" /\ Give("nothing", <<>>) /\ scan' = NoScan

\* One turn of path_lookup's loop: a name with a slash after it.
NotFound == IF cmd.op = "ls" THEN Give("missing", <<>>) ELSE Give("isdir", <<>>)
LookupDir ==
    LET es == dir_lookup(Head(rest))
    IN  /\ pc = "lookup" /\ Len(rest) > 1
        /\ \/ (\A e \in es : ~e.is_dir_p) /\ NotFound /\ UNCHANGED <<rest, scan>>
           \/ \E e \in es : /\ e.is_dir_p /\ Count(e.cluster_id, "descend")
                            /\ rest' = Tail(rest) /\ UNCHANGED out
        /\ UNCHANGED <<disk, fs, cmd, last_dir, rd>>

\* The last name, and what the command does with its entry.
LookupLast ==
    LET es == dir_lookup(Head(rest))
    IN  /\ pc = "lookup" /\ Len(rest) = 1
        /\ \/ es = {} /\ NotFound /\ UNCHANGED <<rd, scan>>
           \/ \E e \in es :
                \/ /\ cmd.op = "ls" /\ e.is_dir_p
                   /\ Count(e.cluster_id, "list") /\ UNCHANGED <<rd, out>>
                \/ /\ (cmd.op = "ls") # e.is_dir_p
                   /\ Give(IF e.is_dir_p THEN "isdir" ELSE "notdir", <<>>)
                   /\ UNCHANGED <<rd, scan>>
                \/ /\ cmd.op # "ls" /\ ~e.is_dir_p
                   /\ Count(e.cluster_id, "file")
                   /\ rd' = [NoFile EXCEPT !.entry = {e}] /\ UNCHANGED out
        /\ UNCHANGED <<disk, fs, cmd, rest, last_dir>>

\* fat32_read_file has counted the clusters and allocates for all of them.
MReadStart == /\ Counted("file") /\ pc' = "read"
              /\ rd' = [rd EXCEPT !.id = scan.start, !.n_alloc = scan.n * SECTOR_SIZE]
              /\ UNCHANGED <<disk, fs, cmd, rest, last_dir, scan, out>>
ReadStart == /\ Counted("file") /\ pc' = "read"
             /\ rd' = [rd EXCEPT !.id = scan.start,
                                 !.n_alloc = scan.n * fs.spc * SECTOR_SIZE]
             /\ UNCHANGED <<disk, fs, cmd, rest, last_dir, scan, out>>

\* One turn of fat32_read_file's loop, over the ids that count_clusters has
\* seen, and its return.
MReadCluster ==
    /\ pc = "read" /\ Type(rd.id) # "LAST"
    /\ \/ /\ Readable(cluster_to_lba(rd.id), fs.spc)
          /\ rd' = [rd EXCEPT !.data = sec_read(cluster_to_lba(rd.id), fs.spc),
                              !.id = fs.fat[@]]
          /\ UNCHANGED <<disk, pc, fs, cmd, rest, last_dir, scan, out>>
       \/ ~Readable(cluster_to_lba(rd.id), fs.spc) /\ Stop("panic") /\ UNCHANGED out
ReadCluster ==
    /\ pc = "read" /\ Type(rd.id) # "LAST"
    /\ \/ /\ Readable(cluster_to_lba(rd.id), fs.spc)
          /\ rd' = [rd EXCEPT !.data = @ \o sec_read(cluster_to_lba(rd.id), fs.spc),
                              !.id = fs.fat[@]]
          /\ UNCHANGED <<disk, pc, fs, cmd, rest, last_dir, scan, out>>
       \/ ~Readable(cluster_to_lba(rd.id), fs.spc) /\ Stop("panic") /\ UNCHANGED out

\* n_data is the entry's nbytes, whatever was read.
ReadDone == /\ pc = "read" /\ Type(rd.id) = "LAST"
            /\ Give("file", rd.data)
            /\ UNCHANGED <<disk, fs, cmd, rest, last_dir, scan, rd>>
-----------------------------------------------------------------------------
Init == /\ disk \in Disks /\ pc = "off" /\ fs = NoFs
        /\ cmd = [op |-> "none", path |-> <<>>] /\ rest = <<>> /\ last_dir = <<>>
        /\ scan = NoScan /\ rd = NoFile /\ out = Nothing

Panicked == pc = "panic" /\ UNCHANGED vars

Next == \/ fat32_init \/ CountStep \/ ReadDir \/ LookupDir \/ LookupLast
        \/ ReadStart \/ ReadCluster \/ ReadDone \/ Panicked
        \/ \E op \in {"ls", "cat", "run"}, p \in Paths : Command(op, p)

Spec == Init /\ [][Next]_vars
-----------------------------------------------------------------------------
(* Properties *)

\* Every variable keeps its type, and a lookup in progress has a name left to
\* look for (path_lookup's loop never runs off its path).
TypeOK == /\ disk \in Disks /\ pc \in {"off", "shell", "count", "lookup", "read", "panic"}
          /\ cmd.op \in {"none", "ls", "cat", "run"}
          /\ rd.n_alloc \in Nat /\ scan.id \in Nat
          /\ Len(rest) <= Len(cmd.path)
          /\ (pc = "lookup" \/ (pc = "count" /\ scan.then # "list")) => rest # <<>>

Answered(ops) == pc = "shell" /\ cmd.op \in ops /\ Absolute(cmd.path)
Node == Tail(cmd.path)
At(p) == IF IsRoot(cmd.path) THEN disk.tree[<<>>] ELSE disk.tree[p]
Exists(p) == IsRoot(cmd.path) \/ p \in DOMAIN disk.tree

\* ls answers with the names the directory has, in order and encoded in UTF-8
\* however their slots lie, and refuses what is no directory.
LsListsTree ==
    (disk.good /\ Answered({"ls"})) =>
        IF ~Exists(Node) THEN out.kind = "missing"
        ELSE IF At(Node).dir THEN out = [kind |-> "list", val |-> At(Node).val]
        ELSE out.kind = "notdir"

\* cat and run get exactly the file the path names: its bytes from every
\* cluster of its chain, in a buffer that holds them all; other paths give no
\* file.
FilesReadWhole ==
    (disk.good /\ Answered({"cat", "run"})) =>
        IF Exists(Node) /\ ~At(Node).dir
        THEN /\ out.kind = "file" /\ \E e \in rd.entry :
                  /\ e.nbytes = Len(At(Node).val) /\ e.nbytes <= Len(out.val)
                  /\ Len(out.val) = rd.n_alloc
                  /\ SubSeq(out.val, 1, e.nbytes) = At(Node).val
        ELSE out.kind \in {"isdir", "nothing"}

\* The kernel goes on with a disk only if its first partition is a FAT32 one
\* laid out the way the reader computes addresses (disk.fit), and no assert
\* or demand of the reader fails on one that is also undamaged.
MountsGoodDisks == /\ pc \in {"shell", "count", "lookup", "read"} => disk.fit
                   /\ pc = "panic" => ~disk.good

\* The loops over a chain end: none visits more clusters than the FAT has, and
\* the second walk of a chain never writes past the buffer that was allocated
\* from the first.
ChainsBounded == /\ scan.n <= Cardinality(DOMAIN disk.fats[1])
                 /\ Len(rd.data) <= rd.n_alloc

\* What cat prints: the bytes up to the first zero, as printk's %s does.  The
\* files are shorter than printk's buffer of 1024 characters, which cuts others.
Printed == LET zeros == {i \in DOMAIN out.val : out.val[i] = NUL}
           IN  IF zeros = {} THEN out.val ELSE SubSeq(out.val, 1, Min(zeros) - 1)

\* src/README.md:96 says of cat that it prints a file on disk: the bytes of
\* the file and no others.
CatPrintsFile ==
    (disk.good /\ Answered({"cat"}) /\ Exists(Node) /\ ~At(Node).dir) => Printed = At(Node).val
=============================================================================
