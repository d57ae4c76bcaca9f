-------------------------------- MODULE TarFs --------------------------------
(***************************************************************************)
(* The tar file system of fs/tarfs/tarfs.c: the scan of an archive, one    *)
(* header at a time, and the lookup of names.  The device is a sequence of *)
(* blocks, a size counts blocks, and a path is a sequence of names.        *)
(***************************************************************************)
EXTENDS Integers, Sequences, FiniteSetsExt, TLC

CONSTANTS
  FileNames, \* the names of files and directories
  Archives   \* each a sequence of entries: path, type, and the blocks of a file

Entry == [path : Seq(FileNames) \ {<<>>}, type : STRING, data : Seq(STRING)]

\* dirname gives ".", and only a file has data
ASSUME TarAssumption ==
  /\ "." \in FileNames
  /\ \A a \in Archives : a \in Seq(Entry) /\ \A n \in DOMAIN a : a[n].type # "file" => a[n].data = <<>>

VARIABLES
  archive,   \* the archive on the device
  offset,    \* the next header to read, or the end
  scanning,  \* tarfs_scan has not come to its end
  tree,      \* fs->tree: the inode of a name in a directory
  vnodes,    \* fs->vnodes: what each inode is
  inext      \* fs->inext

tarVars == <<archive, offset, scanning, tree, vnodes, inext>>

\* The blocks of the device: what tarfs_validate takes them for, their text and, for a
\* header, its fields.  The archive ends with a block of zeroes.
Header(e) == <<"header", "h", [path |-> e.path, type |-> e.type, size |-> Len(e.data)]>>
EntryBlocks(e) == <<Header(e)>> \o [i \in DOMAIN e.data |-> <<"data", e.data[i]>>]
Blocks(a) ==
  LET upto[n \in 0..Len(a)] == IF n = 0 THEN <<>> ELSE upto[n - 1] \o EntryBlocks(a[n])
  IN  upto[Len(a)] \o << <<"zero", "zero">> >>
Device == Blocks(archive)

\* A map with one more entry
Extended(f, x, v) == [y \in DOMAIN f \cup {x} |-> IF y = x THEN v ELSE f[y]]

\* vnode_init for a directory; only its inode matters
Directory(inode) == [type |-> "directory", inode |-> inode, offset |-> 0, size |-> 0]

InitTar ==
  /\ archive \in Archives
  /\ offset = 0 /\ scanning = TRUE
  /\ tree = <<>> /\ inext = 2
  /\ vnodes = [i \in {1} |-> Directory(1)]

\* dirname and basename: a path without a directory is in "."
dirname(path) == IF Len(path) = 1 THEN <<".">> ELSE SubSeq(path, 1, Len(path) - 1)
basename(path) == path[Len(path)]

\* map_getpi(fs->tree, dirent)
Inode(t, dir, name) == IF <<dir, name>> \in DOMAIN t THEN t[<<dir, name>>] ELSE 0

\* One directory of a path: it is made when it is missing, and the search goes on in
\* the inode that was looked up, which is 0 then
Descend(fs, name) ==
  LET inode == Inode(fs.tree, fs.dnode, name)
  IN  IF inode # 0 THEN [fs EXCEPT !.dnode = inode]
      ELSE [tree   |-> Extended(fs.tree, <<fs.dnode, name>>, fs.inext),
            vnodes |-> Extended(fs.vnodes, fs.inext, Directory(fs.inext)),
            inext  |-> fs.inext + 1,
            dnode  |-> inode]

\* Faulty variant: a file that is there already gets another inode
FileInode_new(fs, path) == fs.inext

\* The inode of the new file: that of the file it replaces, if there is one
FileInode(fs, path) ==
  LET old == Inode(fs.tree, fs.dnode, basename(path)) IN IF old # 0 THEN old ELSE fs.inext

\* Faulty variant: the old file stays
Stored_once(fs, inode, node) == IF inode \in DOMAIN fs.vnodes THEN fs.vnodes ELSE Extended(fs.vnodes, inode, node)

Stored(fs, inode, node) == Extended(fs.vnodes, inode, node)

\* The loop over the directories of the path, from the root
Directories(path) ==
  LET dirs == dirname(path)
      after[n \in 0..Len(dirs)] ==
        IF n = 0 THEN [tree |-> tree, vnodes |-> vnodes, inext |-> inext, dnode |-> 1]
        ELSE Descend(after[n - 1], dirs[n])
  IN  after[Len(dirs)]

tarfs_add_node(path, node) ==
  LET fs    == Directories(path)
      inode == FileInode(fs, path)
  IN  /\ vnodes' = Stored(fs, inode, node)
      /\ IF inode # fs.inext THEN tree' = fs.tree /\ inext' = fs.inext
         ELSE tree' = Extended(fs.tree, <<fs.dnode, basename(path)>>, inode) /\ inext' = fs.inext + 1

tarfs_regularfile(h) ==
  tarfs_add_node(h.path, [type |-> "regular", inode |-> 0, offset |-> offset, size |-> h.size])

\* Directories, links and other entries are only reported
tarfs_directory == UNCHANGED <<tree, vnodes, inext>>

tarfs_nextheader(h) == offset + 1 + (IF h.type = "file" THEN h.size ELSE 0)

\* One turn of the loop of tarfs_scan.  A block that is no header ends it.
tarfs_scan ==
  LET block == Device[offset + 1]
      h     == block[3]
  IN  /\ scanning
      /\ \/ /\ block[1] # "header"
            /\ scanning' = FALSE
            /\ UNCHANGED <<offset, tree, vnodes, inext>>
         \/ /\ block[1] = "header"
            /\ offset' = tarfs_nextheader(h)
            /\ IF h.type = "file" THEN tarfs_regularfile(h) ELSE tarfs_directory
            /\ UNCHANGED scanning
      /\ UNCHANGED archive

\* tarfs_get_vnode for each name of a path in turn: an inode, or 0
Lookup(t, path) ==
  LET at[n \in 0..Len(path)] ==
        IF n = 0 THEN 1 ELSE LET dir == at[n - 1] IN IF dir = 0 THEN 0 ELSE Inode(t, dir, path[n])
  IN  at[Len(path)]
Names(path) == dirname(path) \o <<basename(path)>>
FileAt(t, path) == Lookup(t, Names(path))

\* The file system by itself
TarSpec == InitTar /\ [][tarfs_scan]_tarVars

-----------------------------------------------------------------------------
\* The files read so far, and the last of them under the names of a path
HeaderAt(n) ==
  LET at[k \in 1..n] == IF k = 1 THEN 0 ELSE at[k - 1] + 1 + Len(archive[k - 1].data) IN at[n]
Scanned == {n \in DOMAIN archive : archive[n].type = "file" /\ HeaderAt(n) < offset}
IsLast(n, path) ==
  /\ n \in Scanned /\ Names(archive[n].path) = Names(path)
  /\ \A m \in Scanned : Names(archive[m].path) = Names(path) => m <= n
LastOf(path) == CHOOSE n \in Scanned : IsLast(n, path)

\* No file of an archive is a directory on the path of another.
FilesApart(a) ==
  \A m, n \in DOMAIN a : a[m].type = "file" /\ a[n].type = "file" =>
    \A j \in DOMAIN dirname(a[n].path) : Names(a[m].path) # SubSeq(dirname(a[n].path), 1, j)

\* The scan goes from header to header and ends behind the last entry.
ScansAll ==
  /\ offset \in {HeaderAt(n) : n \in 1..Len(archive) + 1}
  /\ ~scanning => offset = HeaderAt(Len(archive) + 1)

\* The scan reads every header and nothing else, and a file that a lookup finds is the
\* last member of that path, with its place and size.
LookupSound ==
  /\ ScansAll
  /\ \A n \in Scanned :
       LET path == archive[n].path
           i    == FileAt(tree, path)
       IN  i # 0 => vnodes[i] = [type |-> "regular", inode |-> 0, offset |-> HeaderAt(LastOf(path)),
                                 size |-> Len(archive[LastOf(path)].data)]

\* A file stays where it is once it can be found, and a file whose directory can be
\* found when its header is read can be found afterwards.
MembersStay ==
  [][scanning => \A n \in DOMAIN archive :
       LET path == archive[n].path
       IN  archive[n].type = "file" =>
             \/ FileAt(tree, path) = 0 /\ (HeaderAt(n) # offset \/ Lookup(tree, dirname(path)) = 0)
             \/ FileAt(tree', path) # 0 /\ FileAt(tree, path) \in {0, FileAt(tree', path)}]_tarVars

\* "dnode is the directory, file is the new file name": a file that has been read can
\* be found under its path.
EveryMemberFound == \A n \in Scanned : FileAt(tree, archive[n].path) # 0
=============================================================================
