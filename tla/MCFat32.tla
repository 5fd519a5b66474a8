------------------------------ MODULE MCFat32 ------------------------------
(* Formatted SD cards for Fat32, as another system leaves them: the same     *)
(* small tree, on disks that differ in the sectors of a cluster, in where    *)
(* the clusters of the files lie, in what the unused end of a cluster holds  *)
(* and in the high bits of the FAT's end marks; damaged ones, and disks of   *)
(* other kinds.                                                              *)
EXTENDS Fat32Disks

\* Names: bytes in a slot, and how the reader spells them.
Pad(s, n) == s \o [i \in 1 .. n - Len(s) |-> 32]
Raw(base, ext) == Pad(base, 8) \o Pad(ext, 3)
Spelt(base, ext) == base \o <<46>> \o Pad(ext, 3)
Long  == <<102, 195, 169, 226, 130, 172>>         \* "f", U+E9, U+20AC in UTF-8
Label == Spelt(<<76>>, <<>>)                      \* "L.   "
EName == <<101, 46, 116, 49, 32>>                 \* "e.t1 ": E.T1 in small letters
DName == Spelt(<<68>>, <<>>)
GName == Spelt(<<71, 49>>, <<66, 73, 78>>)        \* "G1.BIN"
Dot   == Spelt(<<46>>, <<>>)
DotDot == Spelt(<<46, 46>>, <<>>)

Slot(state, attr, name, lower, c, n) ==
    [kind |-> "slot", state |-> state, attr |-> attr, name |-> name, lower |-> lower,
     cluster |-> c, nbytes |-> n]
Piece(state, units) == Slot(state, {"lfn"}, units, FALSE, 0, 0)
Live(attr, base, ext, c, n) == Slot("live", attr, Raw(base, ext), FALSE, c, n)
End == Slot("end", {}, Raw(<<0>>, <<>>), FALSE, 0, 0)

FBytes == [i \in 1 .. 5 |-> Byte(i)]
GBytes == <<Byte(7), Byte(8)>>

\* The slots of the root and of the directory D: a deleted file with a long
\* name, a label, a file with a long name in two pieces, an empty file.
RootSlots(f, d) ==
    <<Live({"label"}, <<76>>, <<>>, 0, 0),
      Piece("deleted", <<120>>), Slot("deleted", {"archive"}, Raw(<<88>>, <<>>), FALSE, 9, 1),
      Piece("live", <<8364>>), Piece("live", <<102, 233>>),
      Live({"archive"}, <<70>>, <<>>, f, 5),
      Slot("live", {"archive"}, Raw(<<69>>, <<84, 49>>), TRUE, 0, 0),
      Live({"dir"}, <<68>>, <<>>, d, 0)>>
DSlots(d, g) == <<Live({"dir"}, <<46>>, <<>>, d, 0), Live({"dir"}, <<46, 46>>, <<>>, 0, 0),
                  Live({"archive"}, <<71, 49>>, <<66, 73, 78>>, g, 2)>>

Tree(root, dirD, f, g) ==
    [p \in {<<>>, <<Long>>, <<EName>>, <<DName>>, <<DName, GName>>} |->
       CASE p = <<>> -> [dir |-> TRUE, val |-> <<Label, Long, EName, DName>>, chain |-> root]
         [] p = <<Long>> -> [dir |-> FALSE, val |-> FBytes, chain |-> f]
         [] p = <<EName>> -> [dir |-> FALSE, val |-> <<>>, chain |-> <<0>>]
         [] p = <<DName>> -> [dir |-> TRUE, val |-> <<Dot, DotDot, GName>>, chain |-> dirD]
         [] p = <<DName, GName>> -> [dir |-> FALSE, val |-> GBytes, chain |-> g]]

Clusters == 2 .. 12
EndMark == CMod - 1
Size(spc) == SECTOR_SIZE * spc
Many(n, spc) == (n + Size(spc) - 1) \div Size(spc)
Chain(cs) == [c \in {cs[i] : i \in DOMAIN cs} |->
                LET i == CHOOSE i \in DOMAIN cs : cs[i] = c
                IN  IF i = Len(cs) THEN EndMark ELSE cs[i + 1]]
Fill(items, cs, spc, pad) ==
    [c \in {cs[i] : i \in DOMAIN cs} |->
       LET i == CHOOSE i \in DOMAIN cs : cs[i] = c
       IN  [k \in 1 .. Size(spc) |->
              IF (i - 1) * Size(spc) + k <= Len(items) THEN items[(i - 1) * Size(spc) + k]
              ELSE pad]]
Over(f, g) == [x \in DOMAIN f |-> IF x \in DOMAIN g THEN g[x] ELSE f[x]]

GoodBoot(spc) ==
    [bytes_per_sec |-> 512, nfats |-> 2, sig |-> "AA55", max_files |-> 0, fs_nsec |-> 0,
     zero |-> 0, info_sec_num |-> 1, backup_boot_loc |-> 6, extended_sig |-> "29",
     spc |-> spc, nsec_in_fs |-> 100, reserved |-> 1, nsec_per_fat |-> 4, first_cluster |-> 2]

\* Directories lie in consecutive clusters; a file's clusters come from free,
\* in that order.
Format(spc, free, slack, hi) ==
    LET nr == Many(9, spc)
        nd == Many(4, spc)
        root == [i \in 1 .. nr |-> 1 + i]
        dirD == [i \in 1 .. nd |-> 1 + nr + i]
        left == SelectSeq(free, LAMBDA c : c > 1 + nr + nd)
        nf == Many(5, spc)
        f == SubSeq(left, 1, nf)
        g == SubSeq(left, nf + 1, nf + Many(2, spc))
        chains == Over(Over(Over(Over([c \in 0 .. 13 |-> IF c < 2 THEN EndMark ELSE 0],
                    Chain(root)), Chain(dirD)), Chain(f)), Chain(g))
        fat == [c \in 0 .. 13 |-> IF chains[c] = EndMark THEN EndMark + hi * CMod ELSE chains[c]]
        empty == [c \in Clusters |-> [k \in 1 .. Size(spc) |-> Byte(slack)]]
    IN  [parts |-> <<"fat32", "empty", "empty", "empty">>, sig |-> "AA55", lba |-> 3,
         boot |-> GoodBoot(spc), fats |-> <<fat, fat>>, junk |-> Byte(9),
         data |-> Over(Over(Over(Over(empty,
                    Fill(RootSlots(f[1], dirD[1]), root, spc, End)),
                    Fill(DSlots(dirD[1], g[1]), dirD, spc, End)),
                    Fill(FBytes, f, spc, Byte(slack))), Fill(GBytes, g, spc, Byte(slack))),
         tree |-> Tree(root, dirD, f, g), fit |-> TRUE, good |-> TRUE]

Up   == [i \in 1 .. 11 |-> 1 + i]
Down == Reverse(Up)
Mixed == <<12, 8, 10, 9, 11, 7, 6, 5, 4, 3, 2>>
Good == {Format(spc, free, slack, hi) : spc \in {1, 2}, free \in {Up, Down, Mixed},
                                        slack \in {0, 6}, hi \in {0, 15}}

Model == Format(2, Up, 0, 0)
\* A FAT longer than the disk, with a chain that leaves it; a reserved value in
\* a chain; a slot that is neither file, directory nor label.
Damaged == {[d EXCEPT !.good = FALSE] : d \in
              {[Model EXCEPT !.fats[1][7] = 13, !.fats[1][13] = EndMark],
               [Model EXCEPT !.fats[1][7] = CMod - 3],
               [Model EXCEPT !.data[2][1].attr = {}]}}
Bad == {[d EXCEPT !.fit = FALSE, !.good = FALSE] : d \in
          {[Model EXCEPT !.parts[1] = "linux"], [Model EXCEPT !.parts[2] = "linux"],
           [Model EXCEPT !.sig = "0"], [Model EXCEPT !.boot.nfats = 1],
           [Model EXCEPT !.boot.extended_sig = "28"], [Model EXCEPT !.boot.spc = 3],
           [Model EXCEPT !.fats[2][0] = 0]}}
SomeDisks == Good \cup Damaged \cup Bad

SomePaths == {<<<<>>, <<>>>>, <<<<>>, Long>>, <<<<>>, EName>>, <<<<>>, DName>>,
              <<<<>>, DName, GName>>, <<<<>>, DName, <<>>>>, <<<<>>, EName, GName>>,
              <<<<>>, GName>>, <<Long>>}

\* The disks and paths meet the conditions of the theorems.
ASSUME SomeAssumption ==
    /\ \A d \in SomeDisks : /\ d.fit = Fits(d) /\ (d.fit => Shaped(d) /\ NoLoops(d))
                           /\ d.good => Formatted(d)
    /\ PathsInTree(SomeDisks, SomePaths)
=============================================================================
