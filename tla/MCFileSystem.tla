----------------------------- MODULE MCFileSystem -----------------------------
(* Two drives of every kind, and a tree with a directory of two blocks, one of *)
(* two extents, a file of two extents, and files without a flat extent tree.   *)
EXTENDS FileSystem

Part(type, lba) == [type |-> type, lba |-> lba]
Drive(mbr, gpt, entries) ==
  [mbr |-> mbr, gpt |-> gpt, entries |-> entries,
   super |-> [l \in 1..4 |-> CASE l = 1 -> "good" [] l = 2 -> "magic" [] l = 3 -> "features"
                              [] OTHER -> "good"]]

Tables ==
  {<<>>, <<Part("ext4", 1), Part("empty", 0), Part("ext4", 4)>>,
   <<Part("other", 1), Part("ext4", 2), Part("ext4", 1)>>, <<Part("ext4", 3), Part("ext4", 4)>>}

SomeDrives == {Drive(TRUE, TRUE, t) : t \in Tables}
                \cup {Drive(TRUE, FALSE, <<>>), Drive(FALSE, FALSE, <<>>)}
SomeMachines == {<<a, b>> : a \in SomeDrives, b \in SomeDrives} \cup {<<>>}

Flat(mode, extents, size) == [mode |-> mode, map |-> "flat", extents |-> extents, size |-> size]
At(b, len, start) == [block |-> b, len |-> len, start |-> start]

SomeInodes ==
  [n \in 2..8 |->
     CASE n = 2 -> Flat("directory", <<At(0, 2, 10)>>, 2)
       [] n = 3 -> Flat("directory", <<At(0, 1, 12)>>, 1)
       [] n = 4 -> Flat("file", <<At(0, 2, 20), At(2, 1, 25)>>, 3)
       [] n = 5 -> Flat("file", <<>>, 0)
       [] n = 6 -> [mode |-> "file", map |-> "deep", extents |-> <<>>, size |-> 1]
       [] n = 7 -> Flat("directory", <<At(0, 1, 12), At(1, 1, 14)>>, 2)
       [] n = 8 -> [mode |-> "directory", map |-> "none", extents |-> <<>>, size |-> 1]]

Entry(name, inode) == [name |-> name, inode |-> inode]
SomeContent ==
  [b \in 10..14 |->
     CASE b = 10 -> <<Entry("old", 0), Entry("dir", 3), Entry("split", 7)>>
       [] b = 11 -> <<Entry("main", 4), Entry("deep", 6), Entry("lost", 8)>>
       [] b = 12 -> <<Entry("main", 5)>>
       [] b = 13 -> <<Entry("dir", 3)>>
       [] b = 14 -> <<Entry("far", 4)>>]

SomePaths ==
  {<<>>, <<"main">>, <<"old">>, <<"dir", "main">>, <<"dir", "dir">>, <<"main", "main">>,
   <<"split", "far">>, <<"deep">>, <<"lost", "main">>}

===============================================================================
