----------------------------- MODULE IncJournal -----------------------------
(***************************************************************************)
(* The journal of the incremental index (libltfs/inc_journal.c): what      *)
(* happened to the directory tree since the last index, one record for     *)
(* each object and path.  A path is the sequence of names from the root.   *)
(* The records of one path and UID are found newest first, as uthash does. *)
(***************************************************************************)
EXTENDS Naturals, Sequences, SequencesExt

Reasons == {"CREATE", "MODIFY", "DELETE_FILE", "DELETE_DIRECTORY"}

(* entries: vol->journal in the order of insertion, created: vol->created_dirs. *)
EmptyJournal == [entries |-> << >>, created |-> << >>]

Jentry(path, uid, reason) == [path |-> path, uid |-> uid, reason |-> reason]

IsDeletion(e) == e.reason \in {"DELETE_FILE", "DELETE_DIRECTORY"}

(* _is_same_or_under: path is dir or one of its descendants. *)
IsSameOrUnder(path, dir) == Len(dir) <= Len(path) /\ SubSeq(path, 1, Len(dir)) = dir

(* An ancestor, or the object itself, was created in this session. *)
CreatedAbove(j, path) == \E i \in DOMAIN j.created : IsSameOrUnder(path, j.created[i])

(* _find_jentry: the index of the newest record, 0 for none. *)
FindJentry(j, path, uid) ==
  LET match == {i \in DOMAIN j.entries : j.entries[i].path = path /\ j.entries[i].uid = uid}
  IN  IF match = {} THEN 0 ELSE CHOOSE i \in match : \A k \in match : k <= i

Record(j, path, uid, reason) == [j EXCEPT !.entries = Append(@, Jentry(path, uid, reason))]

IncjCreate(j, path, uid, isdir) ==
  IF CreatedAbove(j, Front(path)) THEN j
  ELSE [Record(j, path, uid, "CREATE") EXCEPT
          !.created = IF isdir THEN Append(@, path) ELSE @]

IncjModify(j, path, uid) ==
  IF FindJentry(j, path, uid) # 0 \/ CreatedAbove(j, path) THEN j
  ELSE Record(j, path, uid, "MODIFY")

IncjRmfile(j, path, uid) ==
  LET i      == FindJentry(j, path, uid)
      reason == IF i = 0 THEN "none" ELSE j.entries[i].reason
  IN  CASE reason = "CREATE" -> [j EXCEPT !.entries = RemoveAt(@, i)]
        [] reason = "MODIFY" -> [j EXCEPT !.entries[i].reason = "DELETE_FILE"]
        [] OTHER -> IF CreatedAbove(j, path) THEN j ELSE Record(j, path, uid, "DELETE_FILE")

(***************************************************************************)
(* incj_rmdir: the walk over created_dirs drops the directory and those    *)
(* below it, and ends the call at the first ancestor it meets.  The        *)
(* records below the directory go, except that another object of this      *)
(* name is to be deleted.                                                  *)
(***************************************************************************)
IncjRmdir(j, path, uid) ==
  LET above   == {i \in DOMAIN j.created : j.created[i] # path /\ IsSameOrUnder(path, j.created[i])}
      stop    == IF above = {} THEN Len(j.created) + 1 ELSE CHOOSE i \in above : \A k \in above : i <= k
      Stays(c) == ~IsSameOrUnder(c, path)
      j1      == [j EXCEPT !.created = SelectSeq(SubSeq(@, 1, stop - 1), Stays)
                                       \o SubSeq(@, stop, Len(@))]
      Kept(e) == ~IsSameOrUnder(e.path, path) \/ (e.uid # uid /\ e.path = path /\ IsDeletion(e))
      j2      == [j1 EXCEPT !.entries = SelectSeq(@, Kept)]
  IN  CASE above # {} -> j1
        [] above = {} /\ Contains(j.created, path) -> j2
        [] OTHER -> Record(j2, path, uid, "DELETE_DIRECTORY")

(* The deletion on tape that this call of incj_rmdir drops from the journal. *)
DropsDeletion(j, path, uid) ==
  /\ \E i \in DOMAIN j.entries : j.entries[i] = Jentry(path, uid, "DELETE_DIRECTORY")
  /\ Contains(j.created, path)

(* strcmp of two paths: names are numbers in the order of strcmp. *)
PathBefore(p, q) ==
  \/ Len(p) < Len(q) /\ SubSeq(q, 1, Len(p)) = p
  \/ \E i \in DOMAIN p \cap DOMAIN q : p[i] < q[i] /\ SubSeq(p, 1, i - 1) = SubSeq(q, 1, i - 1)

(* Mutation: of two records of one path the one of the lower UID is first. *)
ByPath_Uid(a, b) ==
  \/ PathBefore(a.path, b.path)
  \/ a.path = b.path /\ a.uid < b.uid

(* _by_path: a deletion goes before the object that took the name. *)
ByPath(a, b) ==
  \/ PathBefore(a.path, b.path)
  \/ /\ a.path = b.path
     /\ \/ IsDeletion(a) /\ ~IsDeletion(b)
        \/ IsDeletion(a) = IsDeletion(b) /\ a.uid <= b.uid

(* incj_sort *)
IncjSort(entries) == SortSeq(entries, ByPath)

=============================================================================
