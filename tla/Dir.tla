---------------------------------- MODULE Dir ----------------------------------
(***************************************************************************)
(* dir.c: one directory. Names are records in the inode or in blocks; an   *)
(* indexed directory also has a root with a list of the blocks that have   *)
(* holes and an index by hash, in the root or in leaves, a cluster of them *)
(* for each range of hashes. Who changes the directory has it locked EX, a *)
(* reader has it PR for one call. A step is a transaction.                 *)
(***************************************************************************)
EXTENDS Integers, Sequences, FiniteSets, SequencesExt, TLC

CONSTANTS
  Dirent,      \* Dirent[nm]: size, major and minor hash of a name
  BlockSize,   \* room for records in a block; a record takes 1 or more
  InlineSize,  \* ... in the inode
  Trailer,     \* sizeof(struct ocfs2_dir_block_trailer)
  RootMax, LeafMax,  \* ocfs2_dx_entries_per_root(), _per_leaf()
  Leaves,      \* leaves of a cluster
  Buffer,      \* names a call of readdir() has space for
  DirStories   \* indexed; inline: directories start in the inode; room: clusters that are free;
               \* ops: operations; names: names used; writers: nodes that write;
               \* kinds: of operations, "fail" when they may; reads: node 1 opens it with so many operations to come

\* An inode holds no more records than a leaf has entries for, and one is left; nor does a root have more entries
ASSUME DirAssumption == InlineSize < LeafMax /\ RootMax <= LeafMax /\ InlineSize < BlockSize /\ Trailer > 0

VARIABLES
  dstory,
  dir,    \* form: "inline" or "el"; blk[b][offset]; dx: indexed, inl: its root holds the entries, root,
          \* ext[cpos][leaf], num: dr_num_entries, head: dr_free_blk, tr[b]: db_free_rec_len and db_free_next
  op,     \* the operation and its ocfs2_dir_lookup_result
  room,   \* clusters that are free
  opsLeft,
  names,  \* names that are there
  rd      \* the open directory of node 1: pos, fresh: f_version is i_version; what it returned

dirvars == <<dstory, dir, op, room, opsLeft, names, rd>>

Dots == {".", ".."}
SizeOf(nm) == Dirent[nm].size
Junk == [len |-> 0, name |-> "", size |-> 0, ino |-> FALSE]   \* no record starts there
Record(nm, len) == [len |-> len, name |-> nm, size |-> SizeOf(nm), ino |-> TRUE]
HeadOf(S) == CHOOSE x \in S : \A y \in S : x <= y
LastOf(S) == CHOOSE x \in S : \A y \in S : y <= x

----------------------------------------------------------------------------
(* The records of a block.                                                 *)

RECURSIVE WalkFrom(_, _)
WalkFrom(c, o) == IF o >= Cardinality(DOMAIN c) THEN {} ELSE {o} \cup WalkFrom(c, o + c[o].len)
Starts(c) == WalkFrom(c, 0)
Holding(c, nm) == {o \in Starts(c) : c[o].ino /\ c[o].name = nm}
\* ocfs2_dirent_would_fit()
WouldFit(de, need) == (~de.ino /\ de.len >= need) \/ de.len >= de.size + need
RecordsFor(c, need) == {o \in Starts(c) : WouldFit(c[o], need)}
\* ocfs2_figure_dirent_hole(), ocfs2_find_max_rec_len()
DirHole(de) == IF de.ino THEN de.len - de.size ELSE de.len
LargestHole(c) == LastOf({DirHole(c[o]) : o \in Starts(c)})

\* __ocfs2_add_entry(): the record goes behind the one it fits in; its name overwrites what was there
PutRecord(c, nm) ==
  LET o == HeadOf(RecordsFor(c, SizeOf(nm)))
      q == IF c[o].ino THEN o + c[o].size ELSE o
  IN [x \in DOMAIN c |->
        CASE x = q -> Record(nm, c[o].len - (q - o))
          [] x \in q + 1 .. q + SizeOf(nm) - 1 -> Junk
          [] x = o /\ q # o -> [c[o] EXCEPT !.len = c[o].size]
          [] OTHER -> c[x]]
\* __ocfs2_delete_entry(): the record before takes it in; what it said stays readable
CutRecord(c, nm) ==
  LET o == HeadOf(Holding(c, nm))
      before == {p \in Starts(c) : p < o}
      c1 == [c EXCEPT ![o].ino = FALSE]
  IN IF before = {} THEN c1 ELSE [c1 EXCEPT ![LastOf(before)].len = @ + c[o].len]

\* ocfs2_fill_initial_dirents()
InitialDirents(bytes) ==
  [x \in 0 .. bytes - 1 |-> CASE x = 0 -> Record(".", 1) [] x = 1 -> Record("..", bytes - 1) [] OTHER -> Junk]
EmptyBlock == [x \in 0 .. BlockSize - 1 |-> IF x = 0 THEN [Junk EXCEPT !.len = BlockSize] ELSE Junk]
\* ocfs2_expand_last_dirent()
ExpandLastDirent(c) ==
  LET wide == [x \in 0 .. BlockSize - 1 |-> IF x < InlineSize THEN c[x] ELSE Junk]
  IN [wide EXCEPT ![LastOf(Starts(c))].len = @ + BlockSize - InlineSize]

----------------------------------------------------------------------------
(* The index.                                                              *)

Entry(nm, b) == [major |-> Dirent[nm].major, minor |-> Dirent[nm].minor, blk |-> b]
NamesOf(c) == {c[o].name : o \in {o \in Starts(c) : c[o].ino}}
InOrder(c) == SetToSortSeq({o \in Starts(c) : c[o].ino}, <)
\* ocfs2_dx_dir_index_root_block(), ocfs2_dx_dir_index_block(): the entries for the records of block b
EntriesOf(c, b) == LET s == InOrder(c) IN [i \in 1 .. Len(s) |-> Entry(c[s[i]].name, b)]
\* entries go to the leaf of their minor hash
HashIdx(minor) == minor % Leaves
Spread(list) == [i \in 0 .. Leaves - 1 |-> SelectSeq(list, LAMBDA e : HashIdx(e.minor) = i)]

\* ocfs2_dx_dir_lookup(): the cluster with the last cpos that is not above the hash; <<>> is the root
CposOf(d, major) == LastOf({c \in DOMAIN d.ext : c <= major})
PlaceOf(d, nm) ==
  IF d.inl THEN <<>> ELSE <<CposOf(d, Dirent[nm].major), HashIdx(Dirent[nm].minor)>>
ListAt(d, p) == IF p = <<>> THEN d.root ELSE d.ext[p[1]][p[2]]
WithList(d, p, l) == IF p = <<>> THEN [d EXCEPT !.root = l] ELSE [d EXCEPT !.ext[p[1]][p[2]] = l]
\* ocfs2_dx_dir_search(): entries with the hash of the name whose block has it
Matches(d, nm) ==
  LET l == ListAt(d, PlaceOf(d, nm))
  IN {i \in 1 .. Len(l) : /\ l[i].major = Dirent[nm].major /\ l[i].minor = Dirent[nm].minor
                          /\ Holding(d.blk[l[i].blk], nm) # {}}

\* ocfs2_find_entry()
FindBlk(d, nm) ==
  IF d.dx THEN {ListAt(d, PlaceOf(d, nm))[i].blk : i \in Matches(d, nm)}
    ELSE {b \in 1 .. Len(d.blk) : Holding(d.blk[b], nm) # {}}
\* ocfs2_empty_dir()
EmptyDir(d) ==
  /\ d.dx => d.num = 2
  /\ d.blk[1][0].name = "." /\ d.blk[1][1].name = ".."
  /\ ~d.dx => \A b \in 1 .. Len(d.blk) : NamesOf(d.blk[b]) \subseteq Dots

----------------------------------------------------------------------------
(* The list of blocks with holes.                                          *)

RECURSIVE FreeFrom(_, _, _)
FreeFrom(d, b, n) == IF b = 0 \/ n = 0 THEN <<>> ELSE <<b>> \o FreeFrom(d, d.tr[b].next, n - 1)
FreeList(d) == FreeFrom(d, d.head, Len(d.blk) + 1)
LinkTrailer(d, b, len) == [d EXCEPT !.tr[b] = [len |-> len, next |-> d.head], !.head = b]
\* ocfs2_recalc_free_list(), ocfs2_remove_block_from_free_list()
RecalcFreeList(d, b, prev) ==
  LET len == LargestHole(d.blk[b]) IN
  IF len > 0 THEN [d EXCEPT !.tr[b].len = len]
    ELSE IF prev = 0 THEN [d EXCEPT !.head = d.tr[b].next, !.tr[b] = [len |-> 0, next |-> 0]]
    ELSE [d EXCEPT !.tr[prev].next = d.tr[b].next, !.tr[b] = [len |-> 0, next |-> 0]]

\* ocfs2_delete_entry(), ocfs2_delete_entry_dx(): nm, in block b
DeleteEntry(d, nm) ==
  LET b == HeadOf(FindBlk(d, nm))
      d1 == [d EXCEPT !.blk[b] = CutRecord(@, nm)]
      len == LargestHole(d1.blk[b])
      d2 == IF d.tr[b].len = 0 THEN LinkTrailer(d1, b, len) ELSE [d1 EXCEPT !.tr[b].len = len]
      p == PlaceOf(d, nm)
      i == HeadOf(Matches(d, nm))
  IN IF ~d.dx THEN d1 ELSE [WithList(d2, p, RemoveAt(ListAt(d2, p), i)) EXCEPT !.num = @ - 1]
\* __ocfs2_add_entry() of nm in block b, ocfs2_dx_dir_insert() in the list at p
AddEntry(d, nm, b, prev, p) ==
  LET d1 == [d EXCEPT !.blk[b] = PutRecord(@, nm)]
      d2 == [WithList(d1, p, Append(ListAt(d1, p), Entry(nm, b))) EXCEPT !.num = @ + 1]
  IN IF d.dx THEN RecalcFreeList(d2, b, prev) ELSE d1

----------------------------------------------------------------------------
(* A new directory: ocfs2_fill_new_dir().                                  *)

NoIndex == [dx |-> FALSE, inl |-> TRUE, root |-> <<>>, ext |-> <<>>, num |-> 0, head |-> 0]
NewDirId == [form |-> "inline", blk |-> <<InitialDirents(InlineSize)>>, tr |-> <<[len |-> 0, next |-> 0]>>] @@ NoIndex
NewDirEl == [NewDirId EXCEPT !.form = "el", !.blk = <<InitialDirents(BlockSize)>>]
\* ocfs2_dx_dir_attach_index()
AttachIndex(d, len, inl, num) ==
  [d EXCEPT !.dx = TRUE, !.inl = inl, !.num = num, !.head = IF len > 0 THEN 1 ELSE 0, !.tr[1].len = len]
\* ocfs2_fill_new_dir_dx(); the hole is taken smaller than it is
NewDirDx ==
  LET d == AttachIndex(NewDirEl, BlockSize - 2 - Trailer, TRUE, 2)
  IN [d EXCEPT !.root = EntriesOf(d.blk[1], 1)]

NoOp == [pc |-> "idle", kind |-> "none", node |-> 0, name |-> "", from |-> "", blk |-> 0, prev |-> 0,
         place |-> <<>>, rebalanced |-> FALSE]
NoReader == [pc |-> "none", pos |-> 0, fresh |-> FALSE, seen |-> {}, stay |-> {}, twice |-> FALSE, lost |-> FALSE]
Used(d) ==
  (IF d.form = "el" THEN Len(d.blk) ELSE 0) + Cardinality(DOMAIN d.ext) + (IF d.dx THEN 1 ELSE 0)

DirInit ==
  /\ dstory \in DirStories
  /\ dir = IF dstory.inline THEN NewDirId ELSE IF dstory.indexed THEN NewDirDx ELSE NewDirEl
  /\ room = dstory.room - Used(dir)
  /\ op = NoOp /\ opsLeft = dstory.ops /\ names = {} /\ rd = NoReader

----------------------------------------------------------------------------
(* Making room: ocfs2_prepare_dir_for_insert().                            *)

DirAt(pc) == op.pc = pc
StartOp(k, n, nm, from, pc) ==
  /\ op' = [NoOp EXCEPT !.pc = pc, !.kind = k, !.node = n, !.name = nm, !.from = from]
  /\ opsLeft' = opsLeft - 1
MayStart == DirAt("idle") /\ opsLeft > 0 /\ dir.blk # <<>>

\* ocfs2_mknod(), ocfs2_link(): ocfs2_check_dir_for_entry() did not find it
Create(n, nm) ==
  /\ MayStart /\ FindBlk(dir, nm) = {}
  /\ StartOp("create", n, nm, nm, IF dir.dx THEN "index" ELSE "space")
  /\ UNCHANGED <<dstory, dir, room, names, rd>>
\* ocfs2_rename() in the directory
DirRename(n, nm, from) ==
  /\ MayStart /\ FindBlk(dir, from) # {} /\ nm # from
  /\ StartOp("rename", n, nm, from,
             IF FindBlk(dir, nm) # {} THEN "update" ELSE IF dir.dx THEN "index" ELSE "space")
  /\ UNCHANGED <<dstory, dir, room, names, rd>>

\* The operation fails, or its node dies, before its last transaction
Abandon ==
  /\ ~DirAt("idle") /\ ~DirAt("wipe") /\ "fail" \in dstory.kinds
  /\ op' = NoOp
  /\ UNCHANGED <<dstory, dir, room, opsLeft, names, rd>>

\* ocfs2_prepare_dx_dir_for_insert(): a root with space, or ocfs2_expand_inline_dx_root()
RootHasSpace ==
  /\ DirAt("index") /\ dir.inl /\ Len(dir.root) < RootMax
  /\ op' = [op EXCEPT !.pc = "space"]
  /\ UNCHANGED <<dstory, dir, room, opsLeft, names, rd>>
ExpandRoot ==
  /\ DirAt("index") /\ dir.inl /\ Len(dir.root) >= RootMax /\ room > 0
  /\ dir' = [dir EXCEPT !.inl = FALSE, !.root = <<>>, !.ext = 0 :> Spread(dir.root)]
  /\ room' = room - 1
  /\ UNCHANGED <<dstory, op, opsLeft, names, rd>>

\* ocfs2_find_dir_space_dx()
InsertPlace == PlaceOf(dir, op.name)
LeafHasSpace ==
  /\ DirAt("index") /\ ~dir.inl /\ Len(ListAt(dir, InsertPlace)) < LeafMax
  /\ op' = [op EXCEPT !.pc = "space", !.place = InsertPlace]
  /\ UNCHANGED <<dstory, dir, room, opsLeft, names, rd>>

\* ocfs2_dx_dir_find_leaf_split(): where to split the sorted list l, or -1
SplitOf(l, cpos, insert) ==
  LET val == l[1].major
      after == {i \in Len(l) \div 2 + 1 .. Len(l) : l[i].major > cpos}
  IN IF \A i \in 1 .. Len(l) : l[i].major = val
       THEN IF val = insert THEN -1
              ELSE IF val = cpos THEN cpos + 1
              ELSE IF val > insert THEN val ELSE insert
       ELSE l[HeadOf(after)].major
Sooner(e, f) == e.major < f.major \/ (e.major = f.major /\ e.minor < f.minor)
\* Mutant: only the leaf that is full gives
TransferLeavesOne(old, split) ==
  LET full(i) == Len(old[i]) >= LeafMax
  IN <<[i \in 0 .. Leaves - 1 |-> SelectSeq(old[i], LAMBDA e : e.major < split \/ ~full(i))],
       [i \in 0 .. Leaves - 1 |-> SelectSeq(old[i], LAMBDA e : e.major >= split /\ full(i))]>>
\* ocfs2_dx_dir_transfer_leaf(): every leaf of the cluster gives what is from split on
TransferLeaves(old, split) ==
  <<[i \in 0 .. Leaves - 1 |-> SelectSeq(old[i], LAMBDA e : e.major < split)],
    [i \in 0 .. Leaves - 1 |-> SelectSeq(old[i], LAMBDA e : e.major >= split)]>>
\* ocfs2_dx_dir_rebalance()
Rebalance ==
  /\ DirAt("index") /\ ~dir.inl /\ ~op.rebalanced /\ room > 0
  /\ Len(ListAt(dir, InsertPlace)) >= LeafMax
  /\ LET p == InsertPlace
         sorted == SortSeq(ListAt(dir, p), Sooner)
         d1 == WithList(dir, p, sorted)
         split == SplitOf(sorted, p[1], Dirent[op.name].major)
         t == TransferLeaves(d1.ext[p[1]], split)
     IN IF split = -1
          THEN dir' = d1 /\ op' = NoOp /\ room' = room
          ELSE /\ dir' = [d1 EXCEPT !.ext = (p[1] :> t[1]) @@ (split :> t[2]) @@ @]
               /\ room' = room - 1
               /\ op' = [op EXCEPT !.rebalanced = TRUE]
  /\ UNCHANGED <<dstory, opsLeft, names, rd>>

\* ocfs2_search_dx_free_list(): the first that says it has room
FreePlaces ==
  LET l == FreeList(dir) IN {i \in 1 .. Len(l) : dir.tr[l[i]].len >= SizeOf(op.name)}
FreeBlock ==
  /\ DirAt("space") /\ dir.dx /\ FreePlaces # {}
  /\ LET l == FreeList(dir)
         i == HeadOf(FreePlaces)
     IN op' = [op EXCEPT !.pc = "add", !.blk = l[i], !.prev = IF i = 1 THEN 0 ELSE l[i - 1]]
  /\ UNCHANGED <<dstory, dir, room, opsLeft, names, rd>>
\* ocfs2_find_dir_space_id(), ocfs2_find_dir_space_el()
BlocksThatFit == {b \in 1 .. Len(dir.blk) : RecordsFor(dir.blk[b], SizeOf(op.name)) # {}}
FindSpace ==
  /\ DirAt("space") /\ ~dir.dx /\ BlocksThatFit # {}
  /\ op' = [op EXCEPT !.pc = "add", !.blk = HeadOf(BlocksThatFit)]
  /\ UNCHANGED <<dstory, dir, room, opsLeft, names, rd>>
NoSpace == DirAt("space") /\ IF dir.dx THEN FreePlaces = {} ELSE BlocksThatFit = {}

\* ocfs2_find_dir_space_id(): blocks_wanted
BlocksWanted ==
  LET last == dir.blk[1][LastOf(Starts(dir.blk[1]))]
  IN IF last.len + BlockSize - InlineSize < SizeOf(op.name) + last.size THEN 2 ELSE 1
\* ocfs2_new_dx_should_be_inline()
NewDxInline(c) == Cardinality({o \in Starts(c) : c[o].ino}) < RootMax
\* The records go to a block and the index is made, in the root or in leaves
ExpandedDir(d0, indexed) ==
  LET c == ExpandLastDirent(d0.blk[1])
      d == [d0 EXCEPT !.form = "el", !.blk = <<c>>]
      inl == NewDxInline(d0.blk[1])
      entries == EntriesOf(c, 1)
      d1 == AttachIndex(d, LargestHole(c), inl, Len(entries))
  IN IF ~indexed THEN d
       ELSE IF inl THEN [d1 EXCEPT !.root = entries]
       ELSE [d1 EXCEPT !.ext = 0 :> Spread(entries)]
\* ocfs2_expand_inline_dir()
ExpandInlineDir ==
  /\ NoSpace /\ dir.form = "inline"
  /\ LET d == ExpandedDir(dir, dstory.indexed)
     IN /\ room >= Used(d)
        /\ dir' = d /\ room' = room - Used(d)
        /\ op' = [op EXCEPT !.pc = IF BlocksWanted = 1 THEN "add" ELSE "extend", !.blk = 1, !.prev = 0,
                            !.place = IF d.dx THEN PlaceOf(d, op.name) ELSE <<>>]
  /\ UNCHANGED <<dstory, opsLeft, names, rd>>
\* ocfs2_extend_dir(), ocfs2_do_extend_dir(), ocfs2_dx_dir_link_trailer()
ExtendDir ==
  /\ (NoSpace /\ dir.form = "el") \/ DirAt("extend")
  /\ room > 0
  /\ LET b == Len(dir.blk) + 1
         d == [dir EXCEPT !.blk = Append(@, EmptyBlock), !.tr = Append(@, [len |-> 0, next |-> 0])]
     IN /\ dir' = IF dir.dx THEN LinkTrailer(d, b, BlockSize) ELSE d
        /\ op' = [op EXCEPT !.pc = "add", !.blk = b, !.prev = 0]
  /\ room' = room - 1
  /\ UNCHANGED <<dstory, opsLeft, names, rd>>

----------------------------------------------------------------------------
(* The last transaction.                                                   *)

\* Mutant: no new version
BumpedNot(r, n) == r
\* inode_inc_iversion(): this node's reader finds another version
Bumped(r, n) == IF n = 1 THEN [r EXCEPT !.fresh = FALSE] ELSE r
Without(r, nm) == [r EXCEPT !.stay = @ \ {nm}]

\* The block has no room for the record, or the list none for the entry
Overrun ==
  \/ RecordsFor(dir.blk[op.blk], SizeOf(op.name)) = {}
  \/ dir.dx /\ Len(ListAt(dir, op.place)) >= (IF op.place = <<>> THEN RootMax ELSE LeafMax)
Add ==
  /\ DirAt("add") /\ ~Overrun
  /\ LET d == AddEntry(dir, op.name, op.blk, op.prev, op.place)
     IN IF op.kind = "create"
          THEN dir' = d /\ names' = names \cup {op.name} /\ rd' = Bumped(rd, op.node)
          ELSE /\ dir' = DeleteEntry(d, op.from)
               /\ names' = (names \cup {op.name}) \ {op.from}
               /\ rd' = Bumped(Without(rd, op.from), op.node)
  /\ op' = NoOp
  /\ UNCHANGED <<dstory, room, opsLeft>>
\* ocfs2_update_entry(): the name is there and gets another inode
UpdateEntry ==
  /\ DirAt("update")
  /\ dir' = DeleteEntry(dir, op.from)
  /\ names' = names \ {op.from} /\ rd' = Bumped(Without(rd, op.from), op.node)
  /\ op' = NoOp
  /\ UNCHANGED <<dstory, room, opsLeft>>
\* ocfs2_unlink()
DirUnlink(n, nm) ==
  /\ MayStart /\ FindBlk(dir, nm) # {}
  /\ dir' = DeleteEntry(dir, nm)
  /\ names' = names \ {nm} /\ rd' = Bumped(Without(rd, nm), n)
  /\ opsLeft' = opsLeft - 1
  /\ UNCHANGED <<dstory, op, room>>

\* The directory is removed; ocfs2_dx_dir_truncate() takes the clusters of the index from the last on
RemoveDir(n) ==
  /\ MayStart /\ EmptyDir(dir) /\ rd.pc # "open"
  /\ StartOp("rmdir", n, "", "", "wipe")
  /\ UNCHANGED <<dstory, dir, room, names, rd>>
RemoveIndexRange ==
  /\ DirAt("wipe") /\ dir.dx /\ ~dir.inl /\ DOMAIN dir.ext # {}
  /\ LET c == LastOf(DOMAIN dir.ext)
     IN dir' = [dir EXCEPT !.ext = [x \in DOMAIN dir.ext \ {c} |-> dir.ext[x]]]
  /\ room' = room + 1
  /\ UNCHANGED <<dstory, op, opsLeft, names, rd>>
RemoveIndex ==
  /\ DirAt("wipe") /\ dir.dx /\ (dir.inl \/ DOMAIN dir.ext = {})
  /\ dir' = [dir EXCEPT !.dx = FALSE, !.inl = TRUE, !.root = <<>>, !.num = 0, !.head = 0]
  /\ room' = room + 1
  /\ UNCHANGED <<dstory, op, opsLeft, names, rd>>
WipeBlocks ==
  /\ DirAt("wipe") /\ ~dir.dx
  /\ room' = room + Used(dir)
  /\ dir' = [dir EXCEPT !.form = "inline", !.blk = <<>>, !.tr = <<>>]
  /\ op' = NoOp
  /\ UNCHANGED <<dstory, opsLeft, names, rd>>

----------------------------------------------------------------------------
(* Reading: ocfs2_readdir().                                               *)

OpenDir ==
  /\ DirAt("idle") /\ opsLeft \in dstory.reads /\ rd.pc = "none" /\ dir.blk # <<>>
  /\ rd' = [NoReader EXCEPT !.pc = "open", !.stay = names]
  /\ UNCHANGED <<dstory, dir, op, room, opsLeft, names>>

ISize(d) == IF d.form = "inline" THEN InlineSize ELSE BlockSize * Len(d.blk)
\* The first record at or after the offset
Rescan(c, off) == HeadOf({o \in Starts(c) \cup {Cardinality(DOMAIN c)} : o >= off})
Emit(r, nm) ==
  IF nm \in Dots THEN r ELSE [r EXCEPT !.twice = @ \/ nm \in r.seen \cap r.stay, !.seen = @ \cup {nm}]
\* What the loop does from r.pos on, with space for m names; stored: names from this block
RECURSIVE ForEach(_, _, _)
ForEach(r, m, stored) ==
  LET b == r.pos \div BlockSize + 1
      off == r.pos % BlockSize
      c == dir.blk[b]
      o == IF r.fresh THEN off ELSE Rescan(c, off)
      at == r.pos - off + o
      de == c[o]
      behind == {c[x].name : x \in {x \in Starts(c) : x > o /\ c[x].ino}}
      gaveUp == o \in DOMAIN c /\ de.len = 0 /\ behind \cap (r.stay \ r.seen) # {}
      r1 == [r EXCEPT !.fresh = TRUE, !.pos = at, !.lost = @ \/ gaveUp]
      Go(rr, pos, s) ==
        IF pos % BlockSize = 0 /\ s > 0 THEN [rr EXCEPT !.pos = pos]
          ELSE ForEach([rr EXCEPT !.pos = pos], m, IF pos % BlockSize = 0 THEN 0 ELSE s)
  IN IF r.pos >= ISize(dir) THEN r
       ELSE IF o \notin DOMAIN c THEN Go(r1, at, stored)
       ELSE IF de.len = 0 THEN Go(r1, IF dir.form = "inline" THEN InlineSize ELSE BlockSize * b, stored)
       ELSE IF ~de.ino THEN Go(r1, at + de.len, stored)
       ELSE IF stored = m THEN r1
       ELSE Go(Emit(r1, de.name), at + de.len, stored + 1)
ReadDir(m) ==
  /\ DirAt("idle") /\ rd.pc = "open" /\ dir.blk # <<>>
  /\ LET r == ForEach(rd, m, 0)
     IN rd' = [r EXCEPT !.pc = IF rd.pos >= ISize(dir) THEN "done" ELSE "open"]
  /\ UNCHANGED <<dstory, dir, op, room, opsLeft, names>>

----------------------------------------------------------------------------
DirNext ==
  \/ \E n \in dstory.writers, nm \in dstory.names :
       \/ Create(n, nm)
       \/ "unlink" \in dstory.kinds /\ DirUnlink(n, nm)
       \/ "rmdir" \in dstory.kinds /\ RemoveDir(n)
       \/ "rename" \in dstory.kinds /\ \E from \in dstory.names : DirRename(n, nm, from)
  \/ Abandon \/ RootHasSpace \/ ExpandRoot \/ LeafHasSpace \/ Rebalance
  \/ FreeBlock \/ FindSpace \/ ExpandInlineDir \/ ExtendDir \/ Add \/ UpdateEntry
  \/ RemoveIndexRange \/ RemoveIndex \/ WipeBlocks
  \/ OpenDir \/ ReadDir(Buffer)

DirSpec == DirInit /\ [][DirNext]_dirvars

----------------------------------------------------------------------------
(* Properties.                                                             *)

\* The list of blocks with holes has each block that has one, once, with no more room than is there.
FreeListed ==
  dir.dx /\ ~DirAt("wipe") =>
    LET l == FreeList(dir) IN
    /\ ToSet(l) = {b \in 1 .. Len(dir.blk) : LargestHole(dir.blk[b]) > 0}
    /\ Len(l) = Cardinality(ToSet(l))
    /\ \A i \in 1 .. Len(l) : dir.tr[l[i]].len \in 1 .. LargestHole(dir.blk[l[i]])

\* Who may insert a name finds room for the record in the block it was given and for the entry in the list,
\* and that is where a lookup will look.
RoomKept == DirAt("add") => ~Overrun /\ (dir.dx => op.place = InsertPlace)

\* The directory is the set of its names, in every form and between the transactions of an operation: a name
\* that was made and not removed is found, in one block, and no other; the count that says it is empty is right,
\* and so are the clusters it has, its list of blocks with holes and the room an insert was promised.
DirFound ==
  /\ FreeListed /\ RoomKept
  /\ dir.blk # <<>> /\ ~DirAt("wipe") =>
       /\ \A nm \in dstory.names : Cardinality(FindBlk(dir, nm)) = IF nm \in names THEN 1 ELSE 0
       /\ EmptyDir(dir) <=> names = {}
       /\ UNION {NamesOf(dir.blk[b]) : b \in 1 .. Len(dir.blk)} = names \cup Dots
  /\ room + Used(dir) = dstory.room

\* A name that is there from opendir() to the end is returned, and once, whatever is removed and made in between.
ReadOnce == rd.pc = "done" => rd.stay \subseteq rd.seen /\ ~rd.twice

\* dir.c:1842: "If the dir block has changed since the last call to readdir(2), then we might be pointing to an
\* invalid dirent right now. Scan from the start of the block to make sure." No call takes the inside of a record
\* for one and so gives up names that were there all the time.
ReadValid == ~rd.lost
=============================================================================
