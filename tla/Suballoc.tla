--------------------------------- MODULE Suballoc ---------------------------------
(***************************************************************************)
(* suballoc.c: the chain allocators that inodes and metadata blocks come   *)
(* from. A slot has one of each type. An allocator is a few chains of      *)
(* block groups, with counts of what is used; a group is clusters of the   *)
(* bitmap, contiguous or in pieces, and its first block describes it.      *)
(* And the lists of alloc.c in which blocks cut from a tree wait to be     *)
(* freed. A cluster is one block here; a step is a transaction.            *)
(***************************************************************************)
EXTENDS Integers, Sequences, FiniteSets, FiniteSetsExt

CONSTANTS
  Nodes,       \* 1 .. n: node n has slot n
  Volume,      \* clusters
  Cpg,         \* cl_cpg: clusters of a group
  PieceMax,    \* l_count: pieces of a discontiguous group
  MaxToSteal,  \* OCFS2_MAX_TO_STEAL
  SubStories   \* chains: cl_count; busy: clusters that are taken; reqs[n]: n's requests; cuts[n]: blocks n
               \* cuts off trees; reuses[n]: blocks n then wants, reusing[n]: it has begun;
               \* dies: nodes that die

VARIABLES
  bstory,
  taken,       \* clusters that are set in the bitmap
  al,          \* al[a]: head, cfree and ctotal of each chain, inUse chains, used, total
  grp,         \* grp[g], g its first block: al, chain, next, ext, bits, map, free
  alBy,        \* who has EX of allocator a, or 0
  ctx,         \* ctx[n]: the ocfs2_alloc_context
  stealSlot, stolen,  \* osb->s_inode_steal_slot ..., s_num_inodes_stolen ..., by type
  dirGroup,    \* ip_last_used_group and ip_last_used_slot of n's directory
  given,       \* blocks in use
  cached,      \* cached[n]: an ocfs2_cached_dealloc_ctxt, the first list first
  leaked,      \* blocks that no one knows of
  refused, oops  \* a claim found nothing; a null pointer was followed

subvars == <<bstory, taken, al, grp, alBy, ctx, stealSlot, stolen, dirGroup, given, cached, leaked, refused, oops>>

Types == {"inode", "extent"}
Allocs == Types \X Nodes
Chains == 1 .. bstory.chains
NoCtx == [pc |-> "idle", kind |-> "none", want |-> 0, given |-> 0, al |-> <<"none", 0>>, last |-> 0, left |-> 0,
          noRelink |-> FALSE, loc |-> <<>>]
EmptyAl(k) == [head |-> [c \in 1 .. k |-> 0], cfree |-> [c \in 1 .. k |-> 0], ctotal |-> [c \in 1 .. k |-> 0],
               inUse |-> 0, used |-> 0, total |-> 0]
NoDir == [group |-> 0, slot |-> 0]

SubInit ==
  /\ bstory \in SubStories
  /\ taken = bstory.busy
  /\ al = [a \in Allocs |-> EmptyAl(bstory.chains)] /\ grp = <<>>
  /\ alBy = [a \in Allocs |-> 0] /\ ctx = [n \in Nodes |-> NoCtx]
  /\ stealSlot = [t \in Types |-> [n \in Nodes |-> 0]] /\ stolen = [t \in Types |-> [n \in Nodes |-> 0]]
  /\ dirGroup = [n \in Nodes |-> NoDir]
  /\ given = {} /\ cached = [n \in Nodes |-> <<>>] /\ leaked = {}
  /\ refused = FALSE /\ oops = FALSE

TypeOf(kind) == IF kind = "meta" THEN "extent" ELSE "inode"
Is(n, pc) == ctx[n].pc = pc
FreeOf(a) == al[a].total - al[a].used
ClearBits(g) == (0 .. grp[g].bits - 1) \ grp[g].map

\* ocfs2_block_group_find_clear_bits(): <<first, how many>>; the first of the longest runs
Longest(S, wanted) == Max({k \in 1 .. wanted : \E b \in S : b .. b + k - 1 \subseteq S})
ClearRun(S, wanted) ==
  LET k == Longest(S, wanted) IN <<Min({b \in S : b .. b + k - 1 \subseteq S}), k>>

----------------------------------------------------------------------------
(* A new group.                                                            *)

Clear == (1 .. Volume) \ taken
\* Pieces <<first cluster, how many>> that come to Cpg, or fewer when that fails
RECURSIVE Pieces(_, _, _)
Pieces(S, needed, n) ==
  IF needed = 0 \/ S = {} \/ n = 0 THEN <<>>
    ELSE LET r == ClearRun(S, needed)
         IN <<r>> \o Pieces(S \ (r[1] .. r[1] + r[2] - 1), needed - r[2], n - 1)
PieceSet(p) == UNION {p[i][1] .. p[i][1] + p[i][2] - 1 : i \in 1 .. Len(p)}
\* ocfs2_find_smallest_chain()
SmallestChain(a) ==
  Min({c \in Chains : \A d \in Chains : al[a].ctotal[c] <= al[a].ctotal[d]})
Fits(p) == Cardinality(PieceSet(p)) = Cpg

\* ocfs2_block_group_alloc(): the counts of allocator a, and the group. A group in one
\* piece has no list of its pieces.
WithGroup(a, p) ==
  LET c == SmallestChain(a) IN
  [al EXCEPT ![a].cfree[c] = @ + Cpg - 1, ![a].ctotal[c] = @ + Cpg, ![a].head[c] = p[1][1],
             ![a].inUse = IF @ < bstory.chains THEN @ + 1 ELSE @, ![a].used = @ + 1, ![a].total = @ + Cpg]
NewGroup(a, p) ==
  [al |-> a, chain |-> SmallestChain(a), next |-> al[a].head[SmallestChain(a)], bits |-> Cpg,
   ext |-> IF Len(p) = 1 THEN <<>> ELSE p, map |-> {0}, free |-> Cpg - 1]

----------------------------------------------------------------------------
(* Reservation.                                                            *)

\* Mutant: the allocator is not kept locked
OpenUnlocked(n, a) == ctx' = [ctx EXCEPT ![n].pc = "open", ![n].al = a] /\ UNCHANGED alBy

\* The allocator stays locked until the context is freed.
Open(n, a) == ctx' = [ctx EXCEPT ![n].pc = "open", ![n].al = a] /\ alBy' = [alBy EXCEPT ![a] = n]

\* ocfs2_reserve_new_metadata_blocks(), ocfs2_reserve_new_inode(): as long as stealing
\* has gone well, the own allocator is not asked.
Steals(n, t) == stealSlot[t][n] # 0 /\ stolen[t][n] < MaxToSteal
ReserveStart(n) ==
  /\ Is(n, "idle") /\ cached[n] = <<>> /\ bstory.reqs[n] # <<>>
  /\ LET r == Head(bstory.reqs[n])
         t == TypeOf(r.kind)
     IN /\ ctx' = [ctx EXCEPT ![n] = [NoCtx EXCEPT !.pc = IF Steals(n, t) THEN "steal" ELSE "own", !.kind = r.kind,
                                                   !.want = r.want, !.left = Cardinality(Nodes),
                                                   !.al = <<t, IF stealSlot[t][n] # 0 THEN stealSlot[t][n] ELSE n + 1>>]]
        /\ stolen' = IF Steals(n, t) THEN stolen ELSE [stolen EXCEPT ![t][n] = 0]
  /\ bstory' = [bstory EXCEPT !.reqs[n] = Tail(@)]
  /\ UNCHANGED <<taken, al, grp, alBy, stealSlot, dirGroup, given, cached, leaked, refused, oops>>

\* ocfs2_reserve_suballoc_bits() of the own slot, with ALLOC_NEW_GROUP
ReserveOwn(n) ==
  LET t == TypeOf(ctx[n].kind)
      a == <<t, n>>
      p == Pieces(Clear, Cpg, PieceMax)
  IN
  /\ Is(n, "own") /\ alBy[a] = 0
  /\ CASE ctx[n].want <= FreeOf(a) ->
            Open(n, a) /\ stealSlot' = [stealSlot EXCEPT ![t][n] = 0] /\ UNCHANGED <<taken, al, grp>>
       [] ctx[n].want > FreeOf(a) /\ Fits(p) ->
            /\ Open(n, a)
            /\ taken' = taken \union PieceSet(p)
            /\ al' = WithGroup(a, p)
            /\ grp' = [g \in DOMAIN grp \union {p[1][1]} |-> IF g = p[1][1] THEN NewGroup(a, p) ELSE grp[g]]
            /\ stealSlot' = [stealSlot EXCEPT ![t][n] = 0]
       [] OTHER -> ctx' = [ctx EXCEPT ![n].pc = "steal"] /\ UNCHANGED <<alBy, taken, al, grp, stealSlot>>
  /\ UNCHANGED <<bstory, stolen, dirGroup, given, cached, leaked, refused, oops>>

\* ocfs2_steal_resource(): slot after slot, without new groups
StealNext(n) ==
  LET t == ctx[n].al[1]
      s == IF ctx[n].al[2] > Cardinality(Nodes) THEN 1 ELSE ctx[n].al[2]
      a == <<t, s>>
      pass == ctx' = [ctx EXCEPT ![n].al = <<t, s + 1>>, ![n].left = @ - 1] /\ UNCHANGED <<alBy, stealSlot, stolen>>
  IN
  /\ Is(n, "steal")
  /\ CASE ctx[n].left = 0 ->
            /\ ctx' = [ctx EXCEPT ![n] = NoCtx]
            /\ stolen' = [stolen EXCEPT ![t][n] = @ + 1]
            /\ UNCHANGED <<alBy, stealSlot>>
       [] ctx[n].left > 0 /\ s = n -> pass
       [] OTHER ->
            /\ alBy[a] = 0
            /\ IF ctx[n].want > FreeOf(a) THEN pass
                 ELSE /\ Open(n, a)
                      /\ stealSlot' = [stealSlot EXCEPT ![t][n] = s]
                      /\ stolen' = [stolen EXCEPT ![t][n] = @ + 1]
  /\ UNCHANGED <<bstory, taken, al, grp, dirGroup, given, cached, leaked, refused, oops>>

\* ocfs2_init_steal_slots(), by the flush of the truncate log or a recovery
InitSteal(n) ==
  /\ \E t \in Types : stealSlot[t][n] # 0
  /\ stealSlot' = [t \in Types |-> [stealSlot[t] EXCEPT ![n] = 0]]
  /\ stolen' = [t \in Types |-> [stolen[t] EXCEPT ![n] = 0]]
  /\ UNCHANGED <<bstory, taken, al, grp, alBy, ctx, dirGroup, given, cached, leaked, refused, oops>>

----------------------------------------------------------------------------
(* Claiming.                                                               *)

\* The groups of a chain, as their pointers lead
RECURSIVE Walk(_, _)
Walk(g, k) == IF g = 0 \/ k = 0 THEN <<>> ELSE <<g>> \o Walk(grp[g].next, k - 1)
Chain(a, c) == Walk(al[a].head[c], Cardinality(DOMAIN grp) + 1)

\* ocfs2_find_victim_chain()
Victim(a) == Min({c \in 1 .. al[a].inUse : \A d \in 1 .. al[a].inUse : al[a].cfree[c] >= al[a].cfree[d]})

\* The chains ocfs2_claim_suballoc_bits() searches when the victim has nothing
OtherChains(a) == {c \in 1 .. al[a].inUse : c # Victim(a) /\ al[a].cfree[c] # 0}

\* ocfs2_search_chain(): the place in the chain, or 0
FirstWith(a, c) ==
  LET w == Chain(a, c)
      has == {i \in 1 .. Len(w) : ClearBits(w[i]) # {}}
  IN IF has = {} THEN 0 ELSE Min(has)

\* Mutant: the pieces of a group are not looked at
AddressedFlat(g, r) == [group |-> g, bit |-> r[1], bits |-> r[2], blk |-> g + r[1], loc |-> 0]

\* ocfs2_bg_discontig_fix_result(): the block of bit r[1]; the run ends with its piece
Addressed(g, r) ==
  LET e == grp[g].ext
      start(i) == Cardinality(PieceSet(SubSeq(e, 1, i - 1)))
      i == CHOOSE j \in 1 .. Len(e) : start(j) <= r[1] /\ r[1] < start(j) + e[j][2]
  IN IF e = <<>> THEN [group |-> g, bit |-> r[1], bits |-> r[2], blk |-> g + r[1], loc |-> 0]
       ELSE [group |-> g, bit |-> r[1], bits |-> Min({r[2], start(i) + e[i][2] - r[1]}),
             blk |-> e[i][1] + r[1] - start(i), loc |-> g]

\* The group where hint, victim or another chain has a clear bit: <<chain, place>>,
\* <<0, 0>> for the hint, or <<>>
Place(n, hint) ==
  LET a == ctx[n].al
      good == {c \in {Victim(a)} \union OtherChains(a) : FirstWith(a, c) # 0}
  IN CASE hint # 0 /\ ClearBits(hint) # {} -> <<0, 0>>
       [] good = {} -> <<>>
       [] Victim(a) \in good -> <<Victim(a), FirstWith(a, Victim(a))>>
       [] OTHER -> <<Min(good), FirstWith(a, Min(good))>>

\* Mutant: the group before it keeps its pointer
NextOfNone(w, i) == grp[w[i - 1]].next

\* What the group before place i points to when that is taken out
NextOf(w, i) == grp[w[i]].next

\* ocfs2_relink_block_group(): a group with room to spare becomes the first of the
\* victim chain
Relinks(n, at, found) ==
  at[1] = Victim(ctx[n].al) /\ at[2] > 1 /\ ~ctx[n].noRelink /\ grp[found.group].free > found.bits
Relinked(n, at, found) ==
  LET a == ctx[n].al
      w == Chain(a, at[1])
  IN IF Relinks(n, at, found)
       THEN /\ grp' = [grp EXCEPT ![w[at[2] - 1]].next = NextOf(w, at[2]), ![found.group].next = al[a].head[at[1]]]
            /\ al' = [al EXCEPT ![a].head[at[1]] = found.group]
       ELSE UNCHANGED <<grp, al>>

Found(n, hint, wanted) ==
  LET at == Place(n, hint)
      g == IF at = <<0, 0>> THEN hint ELSE Chain(ctx[n].al, at[1])[at[2]]
  IN Addressed(g, ClearRun(ClearBits(g), wanted))
\* ocfs2_group_from_res()
GroupFrom(blk, loc, bit) == IF loc # 0 THEN loc ELSE blk - bit
GroupOf(b) == GroupFrom(b.blk, b.loc, b.bit)

Blocks(n, f) ==
  {[al |-> ctx[n].al, blk |-> f.blk + i, loc |-> f.loc, bit |-> f.bit + i] : i \in 0 .. f.bits - 1}

\* ocfs2_alloc_dinode_update_counts() and ocfs2_block_group_set_bits(), on top of relinking
Taken(n, f) ==
  LET a == ctx[n].al
      c == grp[f.group].chain
  IN /\ al' = [al EXCEPT ![a].used = @ + f.bits, ![a].cfree[c] = @ - f.bits]
     /\ grp' = [grp EXCEPT ![f.group].map = @ \union f.bit .. f.bit + f.bits - 1, ![f.group].free = @ - f.bits]
     /\ given' = given \union Blocks(n, f)

\* ocfs2_init_inode_ac_group(): by the group used last in the directory, or its own
HintsOf(n) ==
  CASE ctx[n].kind = "meta" -> {ctx[n].last}
    [] dirGroup[n].group # 0 /\ <<"inode", dirGroup[n].slot>> = ctx[n].al -> {dirGroup[n].group}
    [] OTHER -> {0} \union {GroupOf(b) : b \in {d \in given : d.al = ctx[n].al}}

HintAfter(f, left) == IF left = 0 THEN 0 ELSE GroupFrom(f.blk, f.loc, f.bit)

\* ocfs2_claim_metadata(), ocfs2_claim_new_inode(); ocfs2_find_new_inode_loc(), which
\* only looks. The relinking is a step before the claim when there is one to do.
ClaimRelink(n) ==
  /\ Is(n, "open") /\ ctx[n].given < ctx[n].want
  /\ \E h \in HintsOf(n) :
       /\ Place(n, h) # <<>>
       /\ LET f == Found(n, h, ctx[n].want - ctx[n].given) IN
            /\ Relinks(n, Place(n, h), f)
            /\ Relinked(n, Place(n, h), f)
            /\ ctx' = [ctx EXCEPT ![n].pc = IF ctx[n].kind = "reflink" THEN "found" ELSE "claim", ![n].loc = f]
  /\ UNCHANGED <<bstory, taken, alBy, stealSlot, stolen, dirGroup, given, cached, leaked, refused, oops>>
ClaimFind(n) ==
  /\ Is(n, "open") /\ ctx[n].given < ctx[n].want
  /\ \E h \in HintsOf(n) :
       IF Place(n, h) = <<>>
         THEN ctx' = [ctx EXCEPT ![n].pc = "close"] /\ refused' = TRUE
         ELSE LET f == Found(n, h, ctx[n].want - ctx[n].given) IN
              /\ ~Relinks(n, Place(n, h), f)
              /\ ctx' = [ctx EXCEPT ![n].pc = IF ctx[n].kind = "reflink" THEN "found" ELSE "claim", ![n].loc = f,
                                    ![n].noRelink = @ \/ Place(n, h)[1] \notin {0, Victim(ctx[n].al)}]
              /\ UNCHANGED refused
  /\ UNCHANGED <<bstory, taken, al, grp, alBy, stealSlot, stolen, dirGroup, given, cached, leaked, oops>>

\* The second half, and ocfs2_claim_new_inode_at_loc(), in a transaction of its own
ClaimSet(n, ok) ==
  LET f == ctx[n].loc
      left == grp[f.group].free - (IF Is(n, "found") THEN 0 ELSE f.bits)
      last == HintAfter(f, left)
  IN
  /\ Is(n, "claim") \/ Is(n, "found")
  /\ IF ok
       THEN /\ Taken(n, f)
            /\ ctx' = [ctx EXCEPT ![n].pc = IF ctx[n].given + f.bits < ctx[n].want THEN "open" ELSE "close",
                                  ![n].given = @ + f.bits, ![n].last = last]
            /\ dirGroup' = IF ctx[n].kind = "meta" THEN dirGroup
                             ELSE [dirGroup EXCEPT ![n] = [group |-> last, slot |-> ctx[n].al[2]]]
       ELSE ctx' = [ctx EXCEPT ![n].pc = "close"] /\ UNCHANGED <<al, grp, given, dirGroup>>
  /\ UNCHANGED <<bstory, taken, alBy, stealSlot, stolen, cached, leaked, refused, oops>>

\* ocfs2_free_alloc_context()
Close(n) ==
  /\ Is(n, "close")
  /\ alBy' = [alBy EXCEPT ![ctx[n].al] = 0]
  /\ ctx' = [ctx EXCEPT ![n] = NoCtx]
  /\ UNCHANGED <<bstory, taken, al, grp, stealSlot, stolen, dirGroup, given, cached, leaked, refused, oops>>

----------------------------------------------------------------------------
(* Freeing.                                                                *)

\* _ocfs2_free_suballoc_bits()
Freed(b) ==
  LET g == GroupOf(b) IN
  /\ grp' = [grp EXCEPT ![g].map = @ \ {b.bit}, ![g].free = @ + 1]
  /\ al' = [al EXCEPT ![b.al].cfree[grp[g].chain] = @ + 1, ![b.al].used = @ - 1]

\* ocfs2_free_dinode()
FreeInode(n) ==
  /\ Is(n, "idle") /\ bstory.cuts[n] > 0
  /\ \E b \in given :
       /\ b.al[1] = "inode" /\ alBy[b.al] = 0
       /\ Freed(b)
       /\ given' = given \ {b}
  /\ bstory' = [bstory EXCEPT !.cuts[n] = @ - 1]
  /\ UNCHANGED <<taken, alBy, ctx, stealSlot, stolen, dirGroup, cached, leaked, refused, oops>>

\* ocfs2_cache_block_dealloc(): into the list of its slot, a new list before the others
Listed(lists, b) ==
  IF \E i \in 1 .. Len(lists) : lists[i].al = b.al
    THEN LET i == CHOOSE j \in 1 .. Len(lists) : lists[j].al = b.al
         IN [lists EXCEPT ![i].items = <<b>> \o @]
    ELSE <<[al |-> b.al, items |-> <<b>>]>> \o lists
Cut(n) ==
  /\ Is(n, "idle") /\ bstory.cuts[n] > 0
  /\ \E b \in given :
       /\ b.al[1] = "extent"
       /\ cached' = [cached EXCEPT ![n] = Listed(@, b)]
       /\ given' = given \ {b}
  /\ bstory' = [bstory EXCEPT !.cuts[n] = @ - 1]
  /\ UNCHANGED <<taken, al, grp, alBy, ctx, stealSlot, stolen, dirGroup, leaked, refused, oops>>

Items(lists) == UNION {{lists[i].items[j] : j \in 1 .. Len(lists[i].items)} : i \in 1 .. Len(lists)}
\* ocfs2_find_preferred_free_list()
Preferred(n) ==
  LET own == {i \in 1 .. Len(cached[n]) : cached[n][i].al = <<"extent", n>>} IN IF own = {} THEN 1 ELSE Min(own)
\* ocfs2_reuse_blk_from_dealloc(), a block of those wanted. An emptied list goes, and
\* those before it; without any list a null pointer is followed.
Reuse(n) ==
  /\ Is(n, "idle") /\ bstory.reuses[n] > 0
  /\ \/ cached[n] # <<>>
     \/ bstory.reusing[n]
  /\ IF cached[n] = <<>> THEN /\ oops' = TRUE
            /\ ctx' = [ctx EXCEPT ![n].pc = "oops"]
            /\ UNCHANGED <<cached, given, leaked, bstory>>
       ELSE LET i == Preferred(n)
                l == cached[n][i]
                rest == IF Len(l.items) > 1 THEN [cached[n] EXCEPT ![i].items = Tail(@)]
                          ELSE SubSeq(cached[n], i + 1, Len(cached[n]))
            IN /\ cached' = [cached EXCEPT ![n] = rest]
               /\ given' = given \union {Head(l.items)}
               /\ leaked' = leaked \union (Items(cached[n]) \ (Items(rest) \union {Head(l.items)}))
               /\ bstory' = [bstory EXCEPT !.reuses[n] = @ - 1, !.reusing[n] = bstory.reuses[n] > 1]
               /\ UNCHANGED <<ctx, oops>>
  /\ UNCHANGED <<taken, al, grp, alBy, stealSlot, stolen, dirGroup, refused>>

\* ocfs2_run_deallocs(), ocfs2_free_cached_blocks(): list after list
FreeLock(n) ==
  /\ Is(n, "idle") /\ cached[n] # <<>> /\ ~bstory.reusing[n] /\ alBy[cached[n][1].al] = 0
  /\ alBy' = [alBy EXCEPT ![cached[n][1].al] = n]
  /\ ctx' = [ctx EXCEPT ![n].pc = "freeing"]
  /\ UNCHANGED <<bstory, taken, al, grp, stealSlot, stolen, dirGroup, given, cached, leaked, refused, oops>>
FreeItem(n) ==
  LET l == cached[n][1] IN
  /\ Is(n, "freeing")
  /\ Freed(Head(l.items))
  /\ IF Len(l.items) > 1
       THEN cached' = [cached EXCEPT ![n][1].items = Tail(@)] /\ UNCHANGED <<alBy, ctx>>
       ELSE /\ cached' = [cached EXCEPT ![n] = Tail(@)]
            /\ alBy' = [alBy EXCEPT ![l.al] = 0]
            /\ ctx' = [ctx EXCEPT ![n].pc = "idle"]
  /\ UNCHANGED <<bstory, taken, stealSlot, stolen, dirGroup, given, leaked, refused, oops>>

\* A node dies; what waits in its memory is forgotten.
SubDies(n) ==
  /\ n \in bstory.dies
  /\ bstory' = [bstory EXCEPT !.dies = @ \ {n}, !.reqs[n] = <<>>, !.cuts[n] = 0, !.reuses[n] = 0, !.reusing[n] = FALSE]
  /\ leaked' = leaked \union Items(cached[n])
  /\ cached' = [cached EXCEPT ![n] = <<>>]
  /\ alBy' = [a \in Allocs |-> IF alBy[a] = n THEN 0 ELSE alBy[a]]
  /\ ctx' = [ctx EXCEPT ![n] = NoCtx]
  /\ UNCHANGED <<taken, al, grp, stealSlot, stolen, dirGroup, given, refused, oops>>

----------------------------------------------------------------------------
SubNext ==
  \E n \in Nodes :
    \/ ReserveStart(n) \/ ReserveOwn(n) \/ StealNext(n) \/ InitSteal(n)
    \/ ClaimRelink(n) \/ ClaimFind(n) \/ Close(n)
    \/ \E ok \in BOOLEAN : ClaimSet(n, ok)
    \/ FreeInode(n) \/ Cut(n) \/ Reuse(n) \/ FreeLock(n) \/ FreeItem(n) \/ SubDies(n)
SubSpec == SubInit /\ [][SubNext]_subvars

----------------------------------------------------------------------------
GroupsOf(a, c) == {g \in DOMAIN grp : grp[g].al = a /\ grp[g].chain = c}
Sum(f(_), S) == FoldSet(LAMBDA g, s : f(g) + s, 0, S)

\* The counts of an allocator are those of its groups, the counts of a group those of
\* its bitmap, and every group is in its chain, once: whatever was relinked, refused,
\* stolen or freed.
SubCounted ==
  /\ \A g \in DOMAIN grp : grp[g].free = grp[g].bits - Cardinality(grp[g].map)
  /\ \A a \in Allocs :
       /\ al[a].used = Sum(LAMBDA g : grp[g].bits - grp[g].free, UNION {GroupsOf(a, c) : c \in Chains})
       /\ al[a].total = Sum(LAMBDA g : grp[g].bits, UNION {GroupsOf(a, c) : c \in Chains})
       /\ \A c \in Chains :
            LET w == Chain(a, c) IN
            /\ {w[i] : i \in 1 .. Len(w)} = GroupsOf(a, c) /\ Len(w) = Cardinality(GroupsOf(a, c))
            /\ al[a].cfree[c] = Sum(LAMBDA g : grp[g].free, GroupsOf(a, c))
            /\ al[a].ctotal[c] = Sum(LAMBDA g : grp[g].bits, GroupsOf(a, c))
            /\ GroupsOf(a, c) # {} <=> c <= al[a].inUse

\* Who has reserved gets what he reserved.
SubPromise == ~refused

\* A block belongs to one user, or waits in one list; where its slot, its group and its
\* bit say, it is marked; and it lies in clusters that are taken for its group. All is
\* counted, and who reserves is not refused.
SubKnown == given \union UNION {Items(cached[n]) : n \in Nodes} \union leaked
SubOwned ==
  /\ SubCounted /\ SubPromise
  /\ \A b, d \in SubKnown : b # d => b.blk # d.blk
  /\ \A b \in SubKnown : GroupOf(b) \in DOMAIN grp /\ grp[GroupOf(b)].al = b.al
  /\ \A g \in DOMAIN grp :
       /\ grp[g].map = {0} \union {b.bit : b \in {d \in SubKnown : GroupOf(d) = g}}
       /\ \A b \in SubKnown : GroupOf(b) = g =>
            b.blk \in IF grp[g].ext = <<>> THEN g + 1 .. g + Cpg - 1 ELSE PieceSet(grp[g].ext) \ {g}
  /\ taken \subseteq 1 .. Volume
===============================================================================
