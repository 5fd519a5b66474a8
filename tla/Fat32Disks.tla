----------------------------- MODULE Fat32Disks -----------------------------
(* What the theorems about Fat32 ask of disks and paths: a disk the reader   *)
(* takes for FAT32, one whose clusters have the size it announces, and one   *)
(* that a formatter has left, with the tree that the disk is said to hold.   *)
EXTENDS Fat32

\* A disk of the kind that the reader is made for: FAT32 alone in the first
\* partition, the signatures, the fields of the boot sector, and two FATs that
\* agree where they are compared.
Fits(d) ==
    /\ is_fat32(d.parts[1]) /\ \A i \in 2 .. 4 : d.parts[i] = "empty"
    /\ d.sig = "AA55" /\ \A f \in DOMAIN Expected : d.boot[f] = Expected[f]
    /\ d.boot.spc \in Pow2 /\ d.boot.nsec_in_fs # 0
    /\ \A i \in 0 .. (d.boot.nsec_per_fat \div 4) - 1 : d.fats[1][i] = d.fats[2][i]

\* The clusters, numbered from 2, have the size announced; what the FAT and the
\* slots hold are numbers.
Shaped(d) ==
    /\ {d.lba, d.boot.reserved, d.boot.nfats, d.boot.nsec_per_fat, d.boot.spc,
        d.boot.first_cluster, Cardinality(DOMAIN d.data)} \subseteq Nat
    /\ IsFiniteSet(DOMAIN d.fats[1]) /\ DOMAIN d.fats[1] \subseteq Nat
    /\ \A c \in DOMAIN d.fats[1] : d.fats[1][c] \in Nat
    /\ DOMAIN d.data = 2 .. Cardinality(DOMAIN d.data) + 1 /\ d.junk.kind = "byte"
    /\ \A c \in DOMAIN d.data :
         /\ d.data[c] \in Seq(Range(d.data[c])) /\ Len(d.data[c]) = d.boot.spc * SECTOR_SIZE
         /\ \A i \in DOMAIN d.data[c] : d.data[c][i].kind = "slot" => d.data[c][i].cluster \in Nat

\* No chain comes back to one of its clusters.
NoLoops(d) == \A cs \in SUBSET DOMAIN d.fats[1] :
                cs # {} => \E c \in cs : d.fats[1][c] \notin cs

\* A chain: each cluster's entry is the next one, the last one's an end mark.
Linked(d, chain) ==
    /\ chain \in Seq(DOMAIN d.fats[1]) /\ chain # <<>>
    /\ \A i \in DOMAIN chain :
         /\ Type(chain[i]) \notin {"LAST", "PANIC"} /\ chain[i] < 2 + Cardinality(DOMAIN d.data)
         /\ i < Len(chain) => d.fats[1][chain[i]] = chain[i + 1]
         /\ i = Len(chain) => Type(d.fats[1][chain[i]]) = "LAST"

Contents(d, chain) == FlattenSeq([i \in DOMAIN chain |-> d.data[chain[i]]])

\* A directory entry for a file or a directory of the tree.
LeadsTo(e, t) == /\ e.is_dir_p = t.dir /\ e.cluster_id = t.chain[1]
                 /\ ~t.dir => e.nbytes = Len(t.val)

\* A directory lies in consecutive clusters and its slots give its names; those
\* that are paths of the tree lead to their clusters.  (The others are the
\* label, "." and "..".)
FormattedDir(d, p) ==
    LET t == d.tree[p]
        items == Contents(d, t.chain)
        es == fat32_to_dirent(items)
    IN  /\ t.chain[1] >= 2 /\ \A i \in DOMAIN t.chain : t.chain[i] = t.chain[1] + i - 1
        /\ (\A i \in DOMAIN items : items[i].kind = "slot") /\ DirAsserts(items)
        /\ t.val = [i \in DOMAIN es |-> es[i].name]
        /\ \A i \in DOMAIN es : Append(p, es[i].name) \in DOMAIN d.tree =>
             LeadsTo(es[i], d.tree[Append(p, es[i].name)])

\* A file's bytes are the first in its clusters; an empty one has none, and
\* its slot names cluster 0, whose entry is an end mark.
FormattedFile(d, p) ==
    LET t == d.tree[p]
    IN  /\ t.val \in Seq(Range(t.val))
        /\ t.val # <<>> => /\ \A i \in DOMAIN t.chain : t.chain[i] >= 2
                           /\ Len(t.val) <= Len(t.chain) * (d.boot.spc * SECTOR_SIZE)
                           /\ SubSeq(Contents(d, t.chain), 1, Len(t.val)) = t.val

Formatted(d) ==
    /\ Fits(d) /\ Shaped(d) /\ d.boot.spc # 0 /\ d.boot.first_cluster = 2
    /\ <<>> \in DOMAIN d.tree /\ d.tree[<<>>].dir /\ d.tree[<<>>].chain[1] = 2
    /\ \A p \in DOMAIN d.tree :
         /\ p \in Seq(Range(p)) /\ d.tree[p].dir \in BOOLEAN
         /\ Linked(d, d.tree[p].chain)
         /\ IF d.tree[p].dir THEN FormattedDir(d, p) ELSE FormattedFile(d, p)
         /\ p # <<>> => LET up == SubSeq(p, 1, Len(p) - 1)
                        IN  /\ up \in DOMAIN d.tree /\ d.tree[up].dir
                            /\ p[Len(p)] \in Range(d.tree[up].val)

\* The paths typed go through no label and no dot entry of a directory.
PathsInTree(ds, ps) ==
    \A d \in ds, p \in ps :
        d.good /\ Absolute(p) =>
            \A k \in 1 .. Len(p) - 1 :
                LET up == SubSeq(Tail(p), 1, k - 1)
                IN  (up \in DOMAIN d.tree /\ d.tree[up].dir /\ p[k + 1] \in Range(d.tree[up].val))
                      => SubSeq(Tail(p), 1, k) \in DOMAIN d.tree
=============================================================================
