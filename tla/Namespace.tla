----------------------------- MODULE Namespace ------------------------------
(***************************************************************************)
(* The directory tree (libltfs/fs.c), the operations on it                 *)
(* (libltfs/ltfs_fsops.c), the incremental journal they feed, the          *)
(* incremental index written from it and the recovery that replays that    *)
(* index (xml_writer_libltfs.c, xml_reader_libltfs.c, ltfs_internal.c).    *)
(*                                                                         *)
(* An operation is two steps, the change of the tree and the calls of the  *)
(* journal: the first runs under the locks of the dentries, the second     *)
(* under the dirty_lock, except that ltfs_set_dentry_dirty is also called  *)
(* without it, and each uses the path as it was at the first.  doing holds *)
(* the operations between the two, with the locks they keep; an index is   *)
(* written under the write lock of the volume, when there is none.         *)
(* What an index says of an object apart from its place and its WORM flags *)
(* (times, extents, attributes) is left out: the set stale holds the       *)
(* objects of which the tape does not have the present state.              *)
(***************************************************************************)
EXTENDS IncJournal, Integers, FiniteSets, FiniteSetsExt

CONSTANTS
  Names,       \* names of directory entries, numbers in the order of strcmp
  MaxUid,      \* bound on the UIDs given out
  MaxHandles,  \* bound on the references to a dentry
  Volumes      \* the trees that are mounted at the start, with the callers and a bound on their operations

ASSUME NamespaceAssumption ==
  /\ Names \subseteq Nat /\ \A v \in Volumes : v.threads \in Nat \ {0} /\ v.ops \in Nat
  /\ {MaxUid, MaxHandles} \subseteq Nat

VARIABLES
  dentry,      \* the dentries in memory, by UID
  uid_number,  \* the highest UID given out
  journal,     \* vol->journal and vol->created_dirs
  tape,        \* what the mount recovers: the last full index with all later incremental ones
  stale,       \* history: UIDs whose present state is not on the tape
  linking,     \* symlinks whose target is not set yet
  bare,        \* history: symlinks that an index holds as an empty file
  dropped,     \* history: incj_rmdir dropped a deletion that the tape needs
  doing,       \* what a thread has changed in the tree and not yet told the journal
  crossed,     \* history: an operation was overtaken by one that moved or removed its path
  ops          \* operations still to come

vars == <<dentry, uid_number, journal, tape, stale, linking, bare, dropped, doing, crossed, ops>>

NULL == 0
Root == 1
Uids == 1 .. MaxUid
Worm == {"immutable", "appendonly"}

NoDentry == [live |-> FALSE, isdir |-> FALSE, parent |-> NULL, name |-> NULL, handles |-> 0,
             opens |-> 0, dirty |-> FALSE, worm |-> {}]

-----------------------------------------------------------------------------
(* The tree.                                                               *)

InTree(D, u) == D[u].live /\ (u = Root \/ D[u].parent # NULL)

Children(D, u) == {c \in Uids : D[c].live /\ D[c].parent = u}

(* ltfs_build_fullpath *)
RECURSIVE PathOf(_, _)
PathOf(D, u) == IF u = Root THEN << >> ELSE Append(PathOf(D, D[u].parent), D[u].name)

(* fs_is_predecessor, or the dentry itself. *)
RECURSIVE SameOrAbove(_, _, _)
SameOrAbove(D, a, d) == a = d \/ (d # Root /\ SameOrAbove(D, a, D[d].parent))

(* fs_directory_lookup: the child of that name, NULL for none. *)
Lookup(D, dir, name) ==
  LET found == {c \in Children(D, dir) : D[c].name = name}
  IN  IF found = {} THEN NULL ELSE CHOOSE c \in found : TRUE

Directories(D) == {u \in Uids : InTree(D, u) /\ D[u].isdir}

(* The tree as an index describes it. *)
Object(D, u) == [uid |-> u, isdir |-> D[u].isdir, worm |-> D[u].worm]
TreeOf(D) ==
  LET in == {u \in Uids : InTree(D, u)}
      at == [u \in in |-> PathOf(D, u)]
  IN  [p \in {at[u] : u \in in} |-> Object(D, CHOOSE u \in in : at[u] = p)]

(* fs_release_dentry: the last reference frees the dentry. *)
Release(D, u) ==
  [D EXCEPT ![u] = IF @.handles = 1 THEN NoDentry ELSE [@ EXCEPT !.handles = @ - 1]]

(* ltfs_set_dentry_dirty: the root and an unlinked file are not in the journal. *)
ToJournal(D, u) == ~D[u].dirty /\ D[u].parent # NULL
Marked(D, J, u) ==
  [D |-> [D EXCEPT ![u].dirty = TRUE],
   J |-> IF ToJournal(D, u) THEN IncjModify(J, PathOf(D, u), u) ELSE J]

(* A call of the journal with the path that its caller has. *)
Call(fn, path, u) == [fn |-> fn, path |-> path, uid |-> u]

Called(D, J, c) ==
  CASE c.fn = "create" -> IncjCreate(J, c.path, c.uid, D[c.uid].isdir)
    [] c.fn = "modify" -> IncjModify(J, c.path, c.uid)
    [] c.fn = "remove" /\ D[c.uid].isdir -> IncjRmdir(J, c.path, c.uid)
    [] OTHER -> IncjRmfile(J, c.path, c.uid)

Drops(D, J, c) == c.fn = "remove" /\ D[c.uid].isdir /\ DropsDeletion(J, c.path, c.uid)

-----------------------------------------------------------------------------
(* The incremental index: a sequence of elements.  fields is FALSE for a   *)
(* directory that is only the way to its children.                         *)

Element(D, u, path, fields) ==
  [kind |-> IF D[u].isdir THEN "dir" ELSE "file", path |-> path, uid |-> u,
   worm |-> D[u].worm, fields |-> fields]
DeleteElement(e) ==
  [kind |-> e.reason, path |-> e.path, uid |-> e.uid, worm |-> {}, fields |-> FALSE]

(* The dentries on the way to path, root first; a missing one ends the sequence. *)
RECURSIVE Walk(_, _, _)
Walk(D, from, path) ==
  IF path = << >> THEN <<from>>
  ELSE LET next == Lookup(D, from, Head(path))
       IN  IF next = NULL THEN <<from>> ELSE <<from>> \o Walk(D, next, Tail(path))

(* _xml_write_dirtree: everything below a directory, fields and all. *)
RECURSIVE Subtree(_, _)
Subtree(D, u) == {u} \cup UNION {Subtree(D, c) : c \in Children(D, u)}
ByDepth(a, b) == Len(a.path) < Len(b.path)
WriteDirtree(D, u) ==
  SortSeq(SetToSeq({Element(D, d, PathOf(D, d), TRUE) : d \in Subtree(D, u)}), ByDepth)

(***************************************************************************)
(* One entry of the journal.  w = [D, out, failed]: the dentries with the  *)
(* dirty flags that are left, the elements, and whether an entry failed,   *)
(* after which the rest of the journal is thrown away in silence.          *)
(***************************************************************************)
CleanAll(D, S) == [u \in Uids |-> IF u \in S THEN [D[u] EXCEPT !.dirty = FALSE] ELSE D[u]]

WriteEntry(w, e) ==
  LET D       == w.D
      way     == Walk(D, Root, Front(e.path))
      parents == [i \in DOMAIN way |-> Element(D, way[i], SubSeq(e.path, 1, i - 1), D[way[i]].dirty)]
      below   == CASE IsDeletion(e) -> <<DeleteElement(e)>>
                   [] e.reason = "CREATE" /\ D[e.uid].isdir -> WriteDirtree(D, e.uid)
                   [] OTHER -> <<Element(D, e.uid, e.path, ~D[e.uid].isdir \/ D[e.uid].dirty)>>
      written == ToSet(way) \cup IF IsDeletion(e) THEN {} ELSE {below[i].uid : i \in DOMAIN below}
  IN  CASE w.failed -> w
        [] ~w.failed /\ Len(way) < Len(e.path) -> [w EXCEPT !.failed = TRUE]
        [] OTHER -> [D |-> CleanAll(D, written), out |-> w.out \o parents \o below, failed |-> FALSE]

(* _xml_write_inc_journal *)
WriteIncJournal(D, J) ==
  FoldLeft(WriteEntry,
           [D |-> CleanAll(D, {Root}), out |-> <<Element(D, Root, << >>, D[Root].dirty)>>, failed |-> FALSE],
           IncjSort(J.entries))

-----------------------------------------------------------------------------
(* Replay of an incremental index.  t = [tree, stale, valid].              *)

Without(tree, path) == [p \in {q \in DOMAIN tree : ~IsSameOrUnder(q, path)} |-> tree[p]]
UidsIn(tree) == {tree[p].uid : p \in DOMAIN tree}

Refuse(t) == [t EXCEPT !.valid = FALSE]

ApplyDelete(t, e) ==
  CASE e.path \notin DOMAIN t.tree -> t
    [] e.path \in DOMAIN t.tree /\ e.kind = "DELETE_FILE" /\ t.tree[e.path].isdir -> Refuse(t)
    [] OTHER -> [t EXCEPT !.tree = Without(t.tree, e.path),
                          !.stale = @ \cup (UidsIn(t.tree) \ UidsIn(Without(t.tree, e.path)))]

Put(t, e, isdir, worm) ==
  [t EXCEPT !.tree = (e.path :> [uid |-> e.uid, isdir |-> isdir, worm |-> worm]) @@ @,
            !.stale = IF e.fields THEN @ \ {e.uid} ELSE @]

(* _xml_apply_incindex_file: the new dentry replaces the one of the same object. *)
ApplyFile(t, e) ==
  LET known == e.path \in DOMAIN t.tree
  IN  IF known /\ (t.tree[e.path].isdir \/ t.tree[e.path].uid # e.uid) THEN Refuse(t)
      ELSE Put(t, e, FALSE, e.worm)

(***************************************************************************)
(* _xml_apply_incindex_dir and _root_field: find or create; the fields are *)
(* optional.  The list of attributes is replaced, but the WORM flags of a  *)
(* directory that is there are only ever set from it.                      *)
(***************************************************************************)
ApplyDir(t, e) ==
  LET known == e.path \in DOMAIN t.tree
      worm  == (IF known THEN t.tree[e.path].worm ELSE {}) \cup (IF e.fields THEN e.worm ELSE {})
  IN  IF known /\ (~t.tree[e.path].isdir \/ t.tree[e.path].uid # e.uid) THEN Refuse(t)
      ELSE Put(t, e, TRUE, worm)

(* _xml_apply_incindex_contents *)
Apply(t, e) ==
  CASE ~t.valid -> t
    [] t.valid /\ e.kind = "file" -> ApplyFile(t, e)
    [] t.valid /\ e.kind = "dir" -> ApplyDir(t, e)
    [] OTHER -> ApplyDelete(t, e)

Replay(t, out) == FoldLeft(Apply, t, out)

(* _ltfs_validate_recovered_tree *)
UidsUnique(tree) == \A p, q \in DOMAIN tree : tree[p].uid = tree[q].uid => p = q

-----------------------------------------------------------------------------
Idle == [op |-> "none", uid |-> NULL, path |-> << >>, from |-> << >>, calls |-> << >>, dirs |-> << >>,
         meta |-> {}, contents |-> {}, gone |-> {}]

Created(o) == o.op \in {"mkdir", "mknod", "symlink"}

Threads == DOMAIN doing
Busy == {t \in Threads : doing[t] # Idle}
Quiet == Busy = {}

(* The meta_lock and the contents_lock of which dentries are held for writing. *)
MetaHeld == UNION {doing[t].meta : t \in Busy}
ContentsHeld == UNION {doing[t].contents : t \in Busy}

(* fs_path_lookup takes the contents_lock of every directory on the way. *)
Reachable(dir) == \A a \in ContentsHeld : ~SameOrAbove(dentry, a, dir)

(* An object that ltfs_fsops_create has put into its directory and not handed out. *)
Unborn(u) == \E t \in Busy : Created(doing[t]) /\ doing[t].uid = u

(***************************************************************************)
(* What an operation is about to tell the journal is overtaken: a rename   *)
(* moves a directory above it, or has moved one and not told it yet, or    *)
(* the object itself goes, which no lock prevents while the removal of an  *)
(* attribute is marked.                                                    *)
(***************************************************************************)
Overtakes(r, o) ==
  /\ o.calls # << >>
  /\ \/ r.op = "rename" /\ o.path # r.from /\ IsSameOrUnder(o.path, r.from)
     \/ r.op \in {"rename", "unlink"} /\ o.meta \cup o.contents = {} /\ o.path \in {r.from, r.path}
Follows(o, r) == r.op = "rename" /\ o.calls # << >> /\ IsSameOrUnder(o.path, r.path)

Step == ops > 0 /\ ops' = ops - 1

(* The first step of an operation, by a thread that is idle. *)
Start(o) ==
  /\ Step /\ Busy # Threads
  /\ doing' = [doing EXCEPT ![Min(Threads \ Busy)] = o]
  /\ crossed' = (crossed \/ \E t \in Busy : Overtakes(o, doing[t]) \/ Follows(o, doing[t]))

(* fs_allocate_dentry for an object that an index has at path: only the tree refers to it. *)
Allocated(tree, p) ==
  [NoDentry EXCEPT !.live = TRUE, !.isdir = tree[p].isdir, !.worm = tree[p].worm,
                   !.parent = IF p = << >> THEN NULL ELSE tree[Front(p)].uid,
                   !.name = IF p = << >> THEN NULL ELSE Last(p), !.handles = 1]

(* _xml_parse_dirtree *)
Mounted(tree) ==
  [u \in Uids |-> IF u \in UidsIn(tree) THEN Allocated(tree, CHOOSE p \in DOMAIN tree : tree[p].uid = u)
                  ELSE NoDentry]

Init ==
  /\ \E v \in Volumes : \E t \in {v.tree} :
       /\ ops = v.ops /\ doing = [i \in 1 .. v.threads |-> Idle]
       /\ dentry = Mounted(t)
       /\ uid_number = Max({t[p].uid : p \in DOMAIN t})
       /\ tape = [tree |-> t, next |-> Max({t[p].uid : p \in DOMAIN t}), valid |-> TRUE]
  /\ journal = EmptyJournal
  /\ stale = {} /\ linking = {} /\ bare = {} /\ dropped = FALSE
  /\ crossed = FALSE

(* A call that changes the tree, and only the handles of a dentry. *)
Untold == UNCHANGED <<uid_number, journal, tape, bare, dropped, linking>>
OnlyHandles == Untold /\ UNCHANGED <<stale, doing, crossed>>

(***************************************************************************)
(* ltfs_fsops_create up to the dirty_lock: the object has the reference of *)
(* the tree and the caller's.  A file is left open by the caller, a        *)
(* directory is closed at once.  A refusal (the overwrite of an entry of   *)
(* an append-only directory among them) changes nothing.                   *)
(***************************************************************************)
NewObject(op, dir, name) ==
  [NoDentry EXCEPT !.live = TRUE, !.isdir = (op = "mkdir"), !.parent = dir, !.name = name,
                   !.handles = IF op = "mkdir" THEN 1 ELSE 2, !.opens = IF op = "mkdir" THEN 0 ELSE 1]

(* Mutation: the directory is unlocked before the journal is told. *)
CreateKeeps_Nothing(dir) == {}

CreateKeeps(dir) == {dir}

Create(op, dir, name) ==
  /\ uid_number < MaxUid
  /\ Reachable(dir) /\ dir \notin MetaHeld
  /\ "immutable" \notin dentry[dir].worm
  /\ Lookup(dentry, dir, name) = NULL
  /\ uid_number' = uid_number + 1
  /\ dentry' = [dentry EXCEPT ![uid_number'] = NewObject(op, dir, name)]
  /\ \E path \in {Append(PathOf(dentry, dir), name)} :
       Start([Idle EXCEPT !.op = op, !.uid = uid_number', !.path = path, !.dirs = <<dir>>,
                          !.calls = <<Call("create", path, uid_number')>>, !.contents = CreateKeeps(dir)])
  /\ stale' = stale \cup {uid_number', dir}
  /\ UNCHANGED <<journal, tape, linking, bare, dropped>>

(* ltfs_fsops_symlink_path, the target: nothing is marked dirty. *)
SetTarget(u) ==
  /\ u \in linking
  /\ linking' = linking \ {u}
  /\ dentry' = Release([dentry EXCEPT ![u].opens = @ - 1], u)
  /\ stale' = stale \cup {u}
  /\ UNCHANGED <<uid_number, journal, tape, bare, dropped, doing, crossed, ops>>

(* Mutation: the entry itself is not looked at. *)
CanUnlink_ParentOnly(u) ==
  /\ InTree(dentry, u) /\ u # Root
  /\ dentry[dentry[u].parent].worm = {}
  /\ Children(dentry, u) = {}

CanUnlink(u) ==
  /\ InTree(dentry, u) /\ u # Root
  /\ dentry[dentry[u].parent].worm = {} /\ dentry[u].worm = {}
  /\ Children(dentry, u) = {}

UnlinkCalls(u) == <<Call("remove", PathOf(dentry, u), u)>>

(* ltfs_fsops_unlink up to the dirty_lock; the reference of the tree goes with the operation's own. *)
Unlink(u) ==
  /\ CanUnlink(u)
  /\ LET dir == dentry[u].parent
     IN  /\ Reachable(dir) /\ {dir, u} \cap MetaHeld = {} /\ u \notin ContentsHeld
         /\ dentry' = [dentry EXCEPT ![u].parent = NULL]
         /\ Start([Idle EXCEPT !.op = "unlink", !.uid = u, !.path = PathOf(dentry, u), !.from = PathOf(dentry, u),
                               !.calls = UnlinkCalls(u), !.dirs = <<dir>>, !.meta = {dir}, !.contents = {dir}, !.gone = {u}])
         /\ stale' = (stale \ {u}) \cup {dir}
  /\ Untold

(* ltfs_fsops_rename up to the WORM flags of the entries; names to looked-up dentries. *)
CanRename(fromdir, from, todir, to) ==
  /\ Reachable(fromdir) /\ Reachable(todir)
  /\ dentry[fromdir].worm = {} /\ dentry[todir].worm = {}
  /\ ~SameOrAbove(dentry, from, todir)
  /\ to # NULL => ~SameOrAbove(dentry, to, fromdir)

RenameCalls(from, path, to) ==
  (IF to = NULL THEN << >> ELSE <<Call("remove", path, to)>>)
  \o <<Call("remove", PathOf(dentry, from), from), Call("create", path, from)>>

(***************************************************************************)
(* ltfs_fsops_rename up to its last use of the dirty_lock, which it has    *)
(* taken before for the entry that is replaced: that entry is empty, and   *)
(* its directory is locked, so the two are told to the journal together.   *)
(* The rename_lock lets in one rename at a time.                           *)
(***************************************************************************)
Rename(fromdir, from, todir, name) ==
  \E found \in {Lookup(dentry, todir, name)} :
    LET to   == IF found = from THEN NULL ELSE found
        gone == {to} \ {NULL}
        path == Append(PathOf(dentry, todir), name)
        dirs == IF todir = fromdir THEN <<fromdir>> ELSE <<fromdir, todir>>
    IN  /\ CanRename(fromdir, from, todir, found)
        /\ \A t \in Busy : doing[t].op # "rename"
        /\ ({fromdir, todir, from} \cup gone) \cap MetaHeld = {} /\ gone \cap ContentsHeld = {}
        /\ dentry[from].worm = {}
        /\ \A u \in gone : dentry[u].worm = {} /\ Children(dentry, u) = {}
        /\ dentry' = [u \in Uids |-> CASE u \in gone -> [dentry[u] EXCEPT !.parent = NULL]
                                      [] u = from -> [dentry[u] EXCEPT !.parent = todir, !.name = name, !.dirty = TRUE]
                                      [] OTHER -> dentry[u]]
        /\ Start([Idle EXCEPT !.op = "rename", !.uid = from, !.path = path, !.from = PathOf(dentry, from),
                              !.calls = RenameCalls(from, path, to), !.dirs = dirs,
                              !.meta = {fromdir, todir, from}, !.contents = {fromdir, todir}, !.gone = gone])
        /\ stale' = (stale \ gone) \cup {from, fromdir, todir}
        /\ Untold

(* The refused rename of a WORM entry keeps its reference to the target. *)
RenameRefused(fromdir, from, todir, name) ==
  \E to \in {Lookup(dentry, todir, name)} :
    /\ Step /\ CanRename(fromdir, from, todir, to)
    /\ to # NULL /\ dentry[to].handles < MaxHandles
    /\ dentry[from].worm # {}
    /\ dentry' = [dentry EXCEPT ![to].handles = @ + 1]
    /\ OnlyHandles

(* ltfs_fsops_set_readonly_path on a WORM entry: refused without closing it. *)
ChmodRefused(u) ==
  /\ Step /\ InTree(dentry, u) /\ ~Unborn(u) /\ dentry[u].worm # {} /\ dentry[u].handles < MaxHandles
  /\ dentry' = [dentry EXCEPT ![u].handles = @ + 1]
  /\ OnlyHandles

(***************************************************************************)
(* The metadata of u changes, with the WORM flags it is left with, up to   *)
(* the call of incj_modify in ltfs_set_dentry_dirty: no dirty_lock is      *)
(* taken, the meta_lock of u (or nothing) is kept.  The caller has a       *)
(* reference for the time of the call.                                     *)
(***************************************************************************)
Change(u, worm, kept) ==
  /\ u \notin MetaHeld /\ ~Unborn(u)
  /\ dentry' = [dentry EXCEPT ![u].worm = worm, ![u].handles = @ + 1]
  /\ \E path \in {IF ToJournal(dentry, u) THEN PathOf(dentry, u) ELSE << >>} :
       Start([Idle EXCEPT !.op = "change", !.uid = u, !.path = path, !.meta = kept, !.gone = {u},
                          !.calls = IF path = << >> THEN << >> ELSE <<Call("modify", path, u)>>])
  /\ stale' = IF InTree(dentry, u) THEN stale \cup {u} ELSE stale
  /\ Untold

(* ltfs_fsops_write through a handle, also of a file that is unlinked by now. *)
Write(u) ==
  /\ dentry[u].opens > 0 /\ ~dentry[u].isdir /\ "immutable" \notin dentry[u].worm
  /\ Change(u, dentry[u].worm, {u})

Truncate(u) ==
  /\ InTree(dentry, u) \/ dentry[u].opens > 0
  /\ ~dentry[u].isdir /\ dentry[u].worm = {}
  /\ Change(u, {}, {u})

(* ltfs_fsops_utimens asks nothing of the WORM flags. *)
Utimens(u) == InTree(dentry, u) /\ Change(u, dentry[u].worm, {u})

SetReadonly(u) == InTree(dentry, u) /\ dentry[u].worm = {} /\ Change(u, {}, {u})

(* xattr_set and xattr_remove of an ordinary attribute; the latter has no lock when it marks u. *)
SetXattr(u) == InTree(dentry, u) /\ dentry[u].worm = {} /\ Change(u, {}, {u})
RemoveXattr(u) == InTree(dentry, u) /\ dentry[u].worm = {} /\ Change(u, {}, {})

(* The WORM attributes themselves, on a cartridge that is not WORM. *)
SetWorm(u, worm) == InTree(dentry, u) /\ worm # dentry[u].worm /\ Change(u, worm, {u})
RemoveWorm(u, flag) == InTree(dentry, u) /\ flag \in dentry[u].worm /\ Change(u, dentry[u].worm \ {flag}, {})

Open(u) ==
  /\ Step /\ InTree(dentry, u) /\ ~Unborn(u) /\ dentry[u].handles < MaxHandles
  /\ dentry' = [dentry EXCEPT ![u].handles = @ + 1, ![u].opens = @ + 1]
  /\ OnlyHandles

Close(u) ==
  /\ dentry[u].opens > (IF u \in linking \/ Unborn(u) THEN 1 ELSE 0)
  /\ dentry' = Release([dentry EXCEPT ![u].opens = @ - 1], u)
  /\ OnlyHandles /\ UNCHANGED ops

-----------------------------------------------------------------------------
(***************************************************************************)
(* The second step of an operation: its calls of the journal, the dirty    *)
(* flags, the directories it marks with the paths they have now, and the   *)
(* references it gives back.  An entry of an append-only directory becomes *)
(* append-only at the end of ltfs_fsops_create.                            *)
(***************************************************************************)
Dirtied(D, o) ==
  [D EXCEPT ![o.uid] = IF o.op = "unlink" THEN @
                       ELSE [@ EXCEPT !.dirty = TRUE,
                                      !.worm = IF Created(o) THEN D[o.dirs[1]].worm \cap {"appendonly"} ELSE @]]

(* Mutation: the reference of the caller is dropped with the one of the tree. *)
Released_Twice(D, gone) ==
  [u \in Uids |-> IF u \notin gone THEN D[u]
                  ELSE IF D[u].handles > 1 THEN Release(Release(D, u), u)[u] ELSE Release(D, u)[u]]

Released(D, gone) == [u \in Uids |-> IF u \in gone THEN Release(D, u)[u] ELSE D[u]]

Journal(t) ==
  LET o       == doing[t]
      Tell(w, c) == [J |-> Called(dentry, w.J, c), lost |-> w.lost \/ Drops(dentry, w.J, c)]
      MarkDir(m, dir) == Marked(m.D, m.J, dir)
  IN  /\ t \in Busy
      /\ \E w \in {FoldLeft(Tell, [J |-> journal, lost |-> dropped], o.calls)} :
         \E m \in {FoldLeft(MarkDir, [D |-> Dirtied(dentry, o), J |-> w.J], o.dirs)} :
           /\ dentry' = Released(m.D, o.gone)
           /\ journal' = m.J
           /\ dropped' = w.lost
      /\ linking' = IF o.op = "symlink" THEN linking \cup {o.uid} ELSE linking
      /\ doing' = [doing EXCEPT ![t] = Idle]
      /\ UNCHANGED <<uid_number, tape, stale, bare, crossed, ops>>

-----------------------------------------------------------------------------
(* The index.                                                              *)

InTreeUids(D) == {u \in Uids : InTree(D, u)}

(* A full index is written: ltfs_write_index, _xml_write_schema, incj_clear. *)
SyncFull ==
  /\ Step /\ Quiet
  /\ tape' = [tree |-> TreeOf(dentry), next |-> uid_number, valid |-> TRUE]
  /\ dentry' = CleanAll(dentry, InTreeUids(dentry))
  /\ journal' = EmptyJournal
  /\ stale' = {}
  /\ bare' = linking \cap InTreeUids(dentry)
  /\ dropped' = FALSE /\ crossed' = FALSE
  /\ UNCHANGED <<uid_number, linking, doing>>

Replayed(out) == Replay([tree |-> tape.tree, stale |-> stale, valid |-> tape.valid], out)

(***************************************************************************)
(* An incremental index is written; an empty journal would make it a full  *)
(* one.  The writer follows ent->dentry: what it does with one that was    *)
(* freed is undefined, and the model has no step for it.                   *)
(***************************************************************************)
SyncIncremental ==
  /\ Step /\ Quiet /\ journal.entries # << >>
  /\ \A e \in ToSet(journal.entries) : ~IsDeletion(e) => dentry[e.uid].live
  /\ \E w \in {WriteIncJournal(dentry, journal)} : \E r \in {Replayed(w.out)} :
       /\ dentry' = w.D
       /\ stale' = r.stale
       /\ tape' = [tree |-> r.tree, next |-> uid_number, valid |-> r.valid]
       /\ bare' = bare \cup (linking \ r.stale)
  /\ journal' = EmptyJournal
  /\ UNCHANGED <<uid_number, linking, dropped, doing, crossed>>

(* A crash or an unmount without an index, and the mount that recovers: all or nothing. *)
Recover ==
  /\ Step /\ tape.valid /\ UidsUnique(tape.tree)
  /\ dentry' = Mounted(tape.tree)
  /\ uid_number' = tape.next
  /\ journal' = EmptyJournal
  /\ stale' = {} /\ linking' = {} /\ bare' = {} /\ dropped' = FALSE
  /\ doing' = [t \in Threads |-> Idle] /\ crossed' = FALSE
  /\ UNCHANGED tape

Next ==
  \/ \E dir \in Directories(dentry), name \in Names, op \in {"mknod", "mkdir", "symlink"} : Create(op, dir, name)
  \/ \E fromdir, todir \in Directories(dentry), name \in Names : \E from \in Children(dentry, fromdir) :
       \/ Rename(fromdir, from, todir, name)
       \/ RenameRefused(fromdir, from, todir, name)
  \/ \E u \in Uids :
       \/ SetTarget(u) \/ Unlink(u) \/ ChmodRefused(u) \/ Open(u) \/ Close(u)
       \/ Write(u) \/ Truncate(u) \/ Utimens(u) \/ SetReadonly(u) \/ SetXattr(u) \/ RemoveXattr(u)
       \/ \E flag \in Worm : SetWorm(u, dentry[u].worm \cup {flag}) \/ RemoveWorm(u, flag)
  \/ \E t \in Threads : Journal(t)
  \/ SyncFull \/ SyncIncremental \/ Recover

Spec == Init /\ [][Next]_vars

-----------------------------------------------------------------------------
(* An object that came back, with its WORM flags: one that a directory has on the tape may stick. *)
CameBack(was, is) ==
  /\ was.uid = is.uid /\ was.isdir = is.isdir /\ was.worm \subseteq is.worm
  /\ is.worm # was.worm => \E p \in DOMAIN tape.tree :
       was.isdir /\ tape.tree[p].uid = was.uid /\ is.worm \subseteq was.worm \cup tape.tree[p].worm

(* The tape after the incremental index that could be written now. *)
AfterIncrement == Replayed(WriteIncJournal(dentry, journal).out)

(* Refuted: the incremental index that could be written now takes the tape to the tree in memory.   *)
(* A directory of the tape that is renamed away, back and then removed loses its deletion record    *)
(* together with its creation record: incj_rmdir only keeps the deletion of another UID.            *)
IncrementReplays ==
  Quiet /\ ~crossed =>
    \E r \in {AfterIncrement}, tree \in {TreeOf(dentry)} :
      /\ r.valid
      /\ DOMAIN r.tree = DOMAIN tree /\ \A p \in DOMAIN tree : CameBack(tree[p], r.tree[p])
      /\ r.stale \cap InTreeUids(dentry) \subseteq bare

(* The incremental index that could be written now takes the tape to the tree in memory: every     *)
(* creation, deletion, rename and change since the last index is in the journal, in an order that   *)
(* _xml_apply_incindex_contents accepts, also when the calls of two operations interleave.  Apart   *)
(* from an index that an incj_rmdir robbed of a deletion, from an operation that was overtaken by a *)
(* rename or removal of its path, and from the WORM flags that stick to a directory of the tape.    *)
ReplayExact == dropped \/ IncrementReplays

(* What the journal points to exists: an object that was created or modified is in the tree at its  *)
(* path, a created directory has the record that owns its path, and nothing below one is recorded.  *)
(* The writer of the incremental index follows ent->dentry and jd->path without a check.            *)
JournalExact ==
  /\ \A i \in DOMAIN journal.entries :
       LET e == journal.entries[i]
       IN  /\ ~IsDeletion(e) => InTree(dentry, e.uid) /\ PathOf(dentry, e.uid) = e.path
           /\ \A c \in ToSet(journal.created) : IsSameOrUnder(e.path, c) => e.path = c
  /\ \A c \in ToSet(journal.created) :
       \E i \in DOMAIN journal.entries :
         /\ journal.entries[i].path = c /\ journal.entries[i].reason = "CREATE"
         /\ dentry[journal.entries[i].uid].isdir

(* JournalExact between operations, whatever operations overlapped before, unless one moved or      *)
(* removed what another was about to tell the journal: the meta_lock and the contents_lock keep the *)
(* object of an operation in its place, but not the directories above it, nor an object whose       *)
(* attribute is removed.                                                                            *)
JournalSound == Quiet /\ ~crossed => JournalExact

(* Refuted: JournalExact whenever no operation is under way.  ltfs_set_dentry_dirty builds the path *)
(* and calls incj_modify without the dirty_lock, and a rename of a directory above comes between.   *)
JournalAlwaysExact == Quiet => JournalExact

(* Refuted: the WORM flags of a directory come back as they are.  The list of attributes in an      *)
(* incremental index replaces the one on tape, but the flags that go with it are not taken back.    *)
WormComesBack ==
  Quiet /\ ~crossed /\ ~dropped =>
    \E r \in {AfterIncrement}, tree \in {TreeOf(dentry)} : \A p \in DOMAIN tree : r.tree[p].worm = tree[p].worm

(* No dentry is freed while it is in the tree or open (fs_release_dentry), whatever is unlinked or *)
(* renamed over it meanwhile, and the parent of an entry is a directory that is still there.        *)
HandlesCover ==
  \A u \in Uids :
    /\ dentry[u].handles >= dentry[u].opens + (IF InTree(dentry, u) THEN 1 ELSE 0)
    /\ dentry[u].parent # NULL => dentry[dentry[u].parent].live /\ dentry[dentry[u].parent].isdir

(* A WORM entry, and every entry of a WORM directory, keeps its place in a mounted volume: no       *)
(* unlink and no rename, of it or onto it, moves or removes it (ltfs_fsops_unlink, _rename).        *)
WormKept ==
  [][ \/ \A u \in Uids :
           InTree(dentry, u) /\ u # Root /\ (dentry[u].worm # {} \/ dentry[dentry[u].parent].worm # {})
             => dentry'[u].parent = dentry[u].parent /\ dentry'[u].name = dentry[u].name
      \/ Recover ]_vars

=============================================================================
