--------------------------------- MODULE Vfs ---------------------------------
(***************************************************************************)
(* The virtual file system (fs/file_op.c) on the two file systems the      *)
(* kernel has (fs/rootfs, fs/devfs): the directory tree, the mounts, the   *)
(* descriptor tables, and every operation on them as one action.           *)
(*                                                                         *)
(* A directory entry and its inode are created together and never freed:   *)
(* the k-th of each is number k.  Every inode is a directory, since no     *)
(* code creates another kind; names are compared and never looked into.    *)
(*                                                                         *)
(* Two kinds of inode exist.  The root of a mounted file system has its    *)
(* operation tables; a directory made by sys_mkdir has none (null f_op and *)
(* inode_op).  Where the code goes through a null or an uninitialised      *)
(* pointer, or past a table, the model stops: wild.                        *)
(*                                                                         *)
(* rootfs_lookup and devfs_lookup answer 0, success, and leave the result  *)
(* unset.  In the middle of a path that leaves mid_dir as the last lookup  *)
(* set it; at its end namei answers success with a null entry, which every *)
(* caller goes through.                                                    *)
(***************************************************************************)
EXTENDS Integers, Sequences, SequencesExt, FiniteSets

CONSTANTS
  NSlots,     \* PROC_FILES_MAX_COUNT
  NDesc,      \* FILE_DESC_TABLE_MAX_COUNT
  NInodes,    \* INODE_TABLE_MAX_COUNT
  MaxPos,     \* the largest int
  Paths,      \* path names: [abs |-> does it begin with /, comps |-> the rest]
  DevPaths,   \* path names a caller may give to sys_mount as the device
  FsNames,    \* file system names a caller may give to sys_mount
  Offsets     \* offsets a caller may give to sys_lseek

Entries == 1..NInodes
Slots   == 0..NSlots-1
Descs   == 1..NDesc

ASSUME VfsAssumption ==
  /\ NSlots \in Nat \ {0}
  /\ NDesc \in Nat
  /\ NInodes \in Nat \ {0}
  /\ MaxPos \in Nat
  /\ Offsets \subseteq -(MaxPos+1)..MaxPos
  /\ \A p \in Paths \cup DevPaths : p.abs \in BOOLEAN /\ p.comps \in Seq(STRING) /\ p.comps # <<>>

NULL == 0
WILD == -1    \* an uninitialised pointer, or a call through a null one
UNSET == -2   \* lookup answered 0 without a result

\* The operation tables of a file system leave open, lseek and readdir null;
\* its read and write answer nbyte and touch nothing.
NewRoot(e) == [name |-> "/", parent |-> e, sb |-> e, ops |-> TRUE,
               children |-> <<>>, mounted |-> NULL, used |-> 0]
NewDir(n, d, sb) == [name |-> n, parent |-> d, sb |-> sb, ops |-> FALSE,
                     children |-> <<>>, mounted |-> NULL, used |-> 0]

VARIABLES
  dirs,        \* dir_entry and inode, by number of creation; sb is named by its root
  f_desc_table,
  file_table,  \* of the current thread
  root, pwd,   \* of the current thread
  sb_table,    \* of each file_system_type: the superblock of its last mount
  result,      \* of the last call: "err" when it answered an error
  wild

tree == <<dirs, root, pwd, sb_table>>
files == <<f_desc_table, file_table>>
vars == <<tree, files, result, wild>>

Known == DOMAIN dirs    \* the entries created so far

-----------------------------------------------------------------------------
(* file_system_table, and the root file system as the mount of mount_root     *)
(* leaves it (commented out at this commit, file_op.c:274)                    *)

register_filesystem(table, fs) == Append(table, fs)

file_system_table ==
  register_filesystem(register_filesystem(<<>>, "rootfs"), "devfs")

Init ==
  /\ dirs = <<NewRoot(1)>>
  /\ f_desc_table = [d \in Descs |-> [inode |-> NULL, pos |-> 0, used_count |-> 0]]
  /\ file_table = [fd \in Slots |-> NULL]
  /\ root = 1 /\ pwd = 1
  /\ sb_table = [fs \in ToSet(file_system_table) |-> IF fs = "rootfs" THEN 1 ELSE NULL]
  /\ result = "ok"
  /\ wild = FALSE

-----------------------------------------------------------------------------
(* Path names                                                               *)

\* What covers an entry: its mounted_dir, and what covers that.
Top[e \in Known] == IF dirs[e].mounted # NULL THEN Top[dirs[e].mounted] ELSE e

find_children(d, n) == {i \in DOMAIN dirs[d].children : dirs[dirs[d].children[i]].name = n}

lookup(d, n) ==
  CASE n \in {".", ""} -> d
    [] n = ".." -> dirs[d].parent
    [] n \notin {".", "", ".."} /\ find_children(d, n) # {} ->
         LET first == CHOOSE i \in find_children(d, n) : \A j \in find_children(d, n) : i =< j
         IN  Top[dirs[d].children[first]]
    [] OTHER -> IF dirs[d].ops THEN UNSET ELSE WILD

\* dir and mid_dir after each component but the last of the path.
get_parent_dir_entry(p, base) ==
  LET walk[i \in 0..Len(p.comps)-1] ==
        IF i = 0 THEN [dir |-> IF p.abs THEN root ELSE base, mid |-> WILD]
        ELSE LET w == walk[i-1]
                 r == IF w.dir = WILD THEN WILD ELSE lookup(w.dir, p.comps[i])
             IN  IF r = UNSET THEN [dir |-> w.mid, mid |-> w.mid]
                              ELSE [dir |-> r, mid |-> r]
  IN  walk[Len(p.comps) - 1].dir

namei(p) ==
  LET d == get_parent_dir_entry(p, pwd)
      r == IF d = WILD THEN WILD ELSE lookup(d, Last(p.comps))
  IN  IF r = UNSET THEN WILD ELSE r

-----------------------------------------------------------------------------
GoWild == wild' = TRUE /\ UNCHANGED <<tree, files, result>>
Fail   == result' = "err" /\ UNCHANGED <<tree, files, wild>>
Done   == result' = "ok" /\ UNCHANGED wild

FreeSlots == {fd \in Slots : file_table[fd] = NULL}
\* sys_open looks at inode, and sys_close leaves it set.
FreeDescs == {d \in Descs : f_desc_table[d].inode = NULL}
First(S) == CHOOSE x \in S : \A y \in S : x =< y

\* The object a descriptor number stands for; numbers past the table have none.
Opened(fd) == fd \in Slots /\ file_table[fd] # NULL

\* Mutant of sys_open: the descriptor is taken before the table is searched.
sys_open_SlotFirst(p) ==
  \/ FreeSlots = {} /\ Fail
  \/ /\ FreeSlots # {} /\ FreeDescs = {}
     /\ file_table' = [file_table EXCEPT ![First(FreeSlots)] = NDesc]
     /\ result' = "err" /\ UNCHANGED <<tree, f_desc_table, wild>>
  \/ /\ FreeSlots # {} /\ FreeDescs # {} /\ namei(p) = 1
     /\ file_table' = [file_table EXCEPT ![First(FreeSlots)] = First(FreeDescs)]
     /\ f_desc_table' = [f_desc_table EXCEPT ![First(FreeDescs)] =
                           [inode |-> 1, pos |-> 0, used_count |-> 1]]
     /\ UNCHANGED tree /\ Done

sys_open(p) ==
  \/ (FreeSlots = {} \/ FreeDescs = {}) /\ Fail
  \/ /\ FreeSlots # {} /\ FreeDescs # {}
     /\ LET e == namei(p)
            d == First(FreeDescs)
        IN  IF e = WILD \/ ~dirs[e].ops THEN GoWild
            ELSE /\ file_table' = [file_table EXCEPT ![First(FreeSlots)] = d]
                 /\ f_desc_table' = [f_desc_table EXCEPT ![d] =
                                       [inode |-> e, pos |-> 0, used_count |-> 1]]
                 /\ dirs' = [dirs EXCEPT ![e].used = @ + 1]
                 /\ UNCHANGED <<root, pwd, sb_table>> /\ Done

\* Mutant of CountUses: the count of the inode is forgotten.
CountObjectUses(fd, k) ==
  /\ f_desc_table' = [f_desc_table EXCEPT ![file_table[fd]].used_count = @ + k]
  /\ UNCHANGED tree /\ Done

\* Add k to the counts of the object fd stands for, and of its inode.
CountUses(fd, k) ==
  LET d == file_table[fd]
  IN  /\ f_desc_table' = [f_desc_table EXCEPT ![d].used_count = @ + k]
      /\ dirs' = [dirs EXCEPT ![f_desc_table[d].inode].used = @ + k]
      /\ UNCHANGED <<root, pwd, sb_table>> /\ Done

\* Neither sys_close nor sys_dup looks whether the descriptor is open.
sys_close(fd) ==
  \/ file_table[fd] = NULL /\ GoWild
  \/ /\ file_table[fd] # NULL
     /\ CountUses(fd, -1)
     /\ file_table' = [file_table EXCEPT ![fd] = NULL]

sys_dup(oldfd) ==
  \/ FreeSlots = {} /\ Fail
  \/ FreeSlots # {} /\ file_table[oldfd] = NULL /\ GoWild
  \/ /\ FreeSlots # {} /\ file_table[oldfd] # NULL
     /\ CountUses(oldfd, 1)
     /\ file_table' = [file_table EXCEPT ![First(FreeSlots)] = file_table[oldfd]]

\* sys_read, sys_write, sys_getdents: no file system keeps data or a position.
Transfer(fd) ==
  \/ ~Opened(fd) /\ Fail
  \/ Opened(fd) /\ Done /\ UNCHANGED <<tree, files>>

\* An int holds -(MaxPos+1)..MaxPos.
Wrap(x) == ((x + MaxPos + 1) % (2*(MaxPos+1))) - (MaxPos+1)

\* off_t is unsigned (include/sys/types.h): the tests offset<0 and
\* pos+offset<0 are never true, only the sum kept in an int is tested
\* (whence 2; size is 0).  A position of -1 looks like an error to the caller.
sys_lseek(fd, offset, whence) ==
  \/ ~Opened(fd) /\ Fail
  \/ /\ Opened(fd)
     /\ LET d == file_table[fd]
            n == Wrap(IF whence = 1 THEN f_desc_table[d].pos + offset ELSE offset)
        IN  \/ (whence > 2 \/ (whence = 2 /\ n < 0)) /\ Fail
            \/ /\ whence =< 2 /\ (whence = 2 => n >= 0)
               /\ f_desc_table' = [f_desc_table EXCEPT ![d].pos = n]
               /\ result' = IF n = -1 THEN "err" ELSE "ok"
               /\ UNCHANGED <<tree, file_table, wild>>

\* get_inode takes the next inode and does not look whether there is one.
NextInode == Len(dirs) + 1

\* Mutant of sys_mkdir: the new entry goes to the end of the children.
sys_mkdir_AtEnd(p) ==
  LET d == get_parent_dir_entry(p, root)
      e == NextInode
  IN  /\ d # WILD /\ e =< NInodes
      /\ dirs' = Append([dirs EXCEPT ![d].children = @ \o <<e>>],
                        NewDir(Last(p.comps), d, dirs[d].sb))
      /\ UNCHANGED <<root, pwd, sb_table, files>> /\ Done

sys_mkdir(p) ==
  LET d == get_parent_dir_entry(p, root)
      e == NextInode
  IN  \/ (d = WILD \/ e > NInodes) /\ GoWild
      \/ /\ d # WILD /\ e =< NInodes
         /\ dirs' = Append([dirs EXCEPT ![d].children = <<e>> \o @],   \* list_add
                           NewDir(Last(p.comps), d, dirs[d].sb))
         /\ UNCHANGED <<root, pwd, sb_table, files>> /\ Done

sys_mount(dev, p, fs) ==
  LET d == namei(p)
      e == NextInode
      known == fs \in ToSet(file_system_table)
  IN  \/ ~known /\ Fail
      \/ known /\ (namei(dev) = WILD \/ d = WILD) /\ GoWild
      \/ /\ known /\ namei(dev) # WILD /\ d # WILD
         /\ \/ dirs[d].mounted # NULL /\ Fail
            \/ dirs[d].mounted = NULL /\ e > NInodes /\ GoWild
            \/ /\ dirs[d].mounted = NULL /\ e =< NInodes
               /\ dirs' = Append([dirs EXCEPT ![Top[d]].mounted = e], NewRoot(e))
               /\ sb_table' = [sb_table EXCEPT ![fs] = e]
               /\ UNCHANGED <<root, pwd, files>> /\ Done

sys_stat(p) ==
  \/ namei(p) = WILD /\ GoWild
  \/ namei(p) # WILD /\ Done /\ UNCHANGED <<tree, files>>

sys_chroot(p) ==
  \/ namei(p) = WILD /\ GoWild
  \/ namei(p) # WILD /\ root' = namei(p) /\ UNCHANGED <<dirs, pwd, sb_table, files>> /\ Done

sys_chdir(p) ==
  \/ namei(p) = WILD /\ GoWild
  \/ namei(p) # WILD /\ pwd' = namei(p) /\ UNCHANGED <<dirs, root, sb_table, files>> /\ Done

-----------------------------------------------------------------------------
PathCall(p) == sys_open(p) \/ sys_mkdir(p) \/ sys_stat(p) \/ sys_chroot(p) \/ sys_chdir(p)

Next ==
  /\ ~wild
  /\ \/ \E p \in Paths : PathCall(p)
     \/ \E dev \in DevPaths, p \in Paths, fs \in FsNames : sys_mount(dev, p, fs)
     \/ \E fd \in Slots : sys_close(fd) \/ sys_dup(fd)
     \/ \E fd \in Slots \cup {NSlots} : Transfer(fd)
     \/ \E fd \in Slots \cup {NSlots}, off \in Offsets, whence \in 0..3 :
          sys_lseek(fd, off, whence)

Spec == Init /\ [][Next]_vars

-----------------------------------------------------------------------------
(* Properties                                                               *)

\* The names an entry can have: "/" for a root, or one that somebody gave.
Names == {"/"} \cup UNION {ToSet(p.comps) : p \in Paths}

\* Every variable keeps its kind of value (a part of RefCounts); a position is
\* an int, although sys_lseek adds in a wider type (file_op.c:211).
TypeOK ==
  /\ dirs \in Seq([name : Names, parent : Entries, sb : Entries, ops : BOOLEAN,
                    children : Seq(Entries), mounted : Entries \cup {NULL}, used : Nat])
  /\ Len(dirs) \in Entries
  /\ f_desc_table \in [Descs -> [inode : Known \cup {NULL}, pos : -(MaxPos+1)..MaxPos, used_count : Nat]]
  /\ file_table \in [Slots -> Descs \cup {NULL}]
  /\ root \in Known /\ pwd \in Known
  /\ sb_table \in [ToSet(file_system_table) -> Known \cup {NULL}]
  /\ result \in {"ok", "err"}
  /\ wild \in BOOLEAN

\* However opens, dups and closes follow one another, the two counts kept by
\* sys_open, sys_dup and sys_close are the numbers of descriptors that are
\* open on an object and on an inode: nothing is closed under another user.
RefCounts ==
  /\ TypeOK
  /\ \A d \in Descs :
       f_desc_table[d].used_count = Cardinality({fd \in Slots : file_table[fd] = d})
  /\ \A e \in Known :
       dirs[e].used = Cardinality({fd \in Slots :
                        file_table[fd] # NULL /\ f_desc_table[file_table[fd]].inode = e})
  /\ \A fd \in Slots : file_table[fd] # NULL => f_desc_table[file_table[fd]].inode # NULL

\* The tree stays a tree under every order of mkdir and mount: an entry is in
\* the children of its parent or is the root of its file system, parents are
\* older (.. always ends), newer children come first (the newest of two with
\* one name is the one found), all of a tree has one superblock, and every
\* root but the first covers exactly one older directory (the walk over
\* mounted_dir ends).
TreeSound ==
  \A e \in Known :
    LET in == {d \in Known : e \in ToSet(dirs[d].children)}
        covered == {d \in Known : dirs[d].mounted = e}
    IN  /\ \/ dirs[e].ops /\ dirs[e].parent = e /\ dirs[e].sb = e /\ in = {}
           \/ ~dirs[e].ops /\ in = {dirs[e].parent} /\ dirs[e].parent < e
              /\ dirs[e].sb = dirs[dirs[e].parent].sb
        /\ \A i, j \in DOMAIN dirs[e].children :
             i < j => dirs[e].children[i] > dirs[e].children[j]
        /\ IF dirs[e].ops /\ e # 1
             THEN Cardinality(covered) = 1 /\ \A d \in covered : d < e
             ELSE covered = {}

\* A call that answers -1 has changed nothing: neither a descriptor nor an
\* entry nor a superblock is left behind by a half-done open or mount.  The
\* one exception is a seek to position -1, which sys_lseek does not refuse.
FailureLeavesNoTrace ==
  [][result' = "err" =>
       /\ UNCHANGED <<tree, file_table>>
       /\ \A d \in Descs : f_desc_table'[d] \in {f_desc_table[d], [f_desc_table[d] EXCEPT !.pos = -1]}]_vars

=============================================================================
