-------------------------- MODULE CommitOperations --------------------------
(***************************************************************************)
(* Commits as lists of operations on files and directories, on one branch: *)
(* create_commit(), of which delete_file(), delete_folder() and            *)
(* upload_file() are special cases, and upload_folder(), which compares    *)
(* the branch with a local folder before it takes the lock and commits     *)
(* afterwards.  A commit is one step here, which is what RepoStore is      *)
(* about; merges are History's.                                            *)
(*                                                                         *)
(* A revision other than the branch's own name is a tag here, or stands    *)
(* for the identifier of a commit: a second version, which copies may be   *)
(* taken from, the branch may be reset to, and parent_commit may name.     *)
(***************************************************************************)
EXTENDS Trees

CONSTANTS
    Files,          \* file objects
    AddPaths,       \* paths that are added or deleted
    Folders,        \* directories that are deleted or copied
    CopyPaths,      \* paths that are copied to
    Uploads,        \* folder uploads that may be asked for
    Commits,        \* identifiers of commits
    NoPlan, NoTag,
    MaxOps,         \* bound: operations of one commit
    MaxFiles,       \* bound: files of a version
    MaxTagged       \* bound: files of the version that a tag names

(* A member of Uploads is a record: base, the target directory; adds, what *)
(* the folder holds; doomed, what the delete patterns select below the     *)
(* target; parent, what kind of revision parent_commit is, if any.         *)

ASSUME OperationsAssumption ==
    /\ AddPaths \union Folders \union CopyPaths \subseteq Seq(Names) \ {<< >>}
    /\ \A u \in Uploads :
          /\ u.base \in Seq(Names)
          /\ u.adds \in Seq([path : Seq(Names) \ {<< >>}, file : Files])
          /\ IsInjective([i \in DOMAIN u.adds |-> u.adds[i].path])
          /\ u.parent \in {"none", "branch", "tag", "commit"}
    /\ {Missing, Failed, NoPlan} \intersect Files = {} /\ Missing \notin Seq(Names)
    /\ \A b, c, d \in Commits : Commits \ {b, c, d} # {}
    /\ Commits # {}
    /\ MaxOps \in Nat /\ MaxFiles \in Nat /\ MaxTagged \in Nat

VARIABLES
    head,   \* the tree of the branch head
    id,     \* the commit that the branch head is
    tag,    \* the commit that a tag names, and its tree
    plan,   \* the folder upload between its look at the branch and its commit
    sent    \* (history) the folder upload that made the head, what it was to
            \* delete, the tree it found, and whether it was bound: its
            \* parent_commit was the identifier of the head it looked at

vars == <<head, id, tag, plan, sent>>

(* The operations; upload_file(), delete_file() and delete_folder() make a *)
(* commit of one of the first three.                                       *)
Adds == [kind : {"add"}, path : AddPaths, file : Files]
Deletes == [kind : {"delete"}, path : AddPaths]
FolderDeletes == [kind : {"delete folder"}, path : Folders]
Copies == [kind : {"copy"}, src : AddPaths \union Folders, path : CopyPaths,
           src_revision : {"none", "tag"}]

Operations == Adds \union Deletes \union FolderDeletes \union Copies

OpLists == UNION {[1 .. n -> Operations] : n \in 1 .. MaxOps}

-----------------------------------------------------------------------------
(* _apply_delete(): of a folder everything below it, and not a file of     *)
(* that name.                                                              *)
Deleted(s, op) ==
    LET gone(e) == IF op.kind = "delete" THEN e.path = op.path
                   ELSE IsStrictPrefix(op.path, e.path)
        left == Only(s, {e \in ToSet(s) : ~gone(e)})
    IN  IF left = s THEN Failed ELSE left

(* The files in from, put below directory d. *)
AssignBelow(s, d, from) ==
    LET after[n \in 0 .. Len(from)] ==
            IF n = 0 THEN s ELSE Assign(after[n - 1], d \o from[n].path, from[n].file)
    IN  after[Len(from)]

\* mutant of Copied: the source is looked up among the staged files.
CopiedFromStaged(s, source, op) ==
    IF op.src \in Keys(s) THEN Assign(s, op.path, Get(s, op.src))
    ELSE IF Below(s, op.src) = << >> THEN Failed
    ELSE AssignBelow(s, op.path, Below(s, op.src))

(* _apply_copy(): a file, or everything below a directory, from a version  *)
(* as it was before the commit, whatever the operations before it did.     *)
Copied(s, source, op) ==
    IF op.src \in Keys(source) THEN Assign(s, op.path, Get(source, op.src))
    ELSE IF Below(source, op.src) = << >> THEN Failed
    ELSE AssignBelow(s, op.path, Below(source, op.src))

Applied(s, source, op) ==
    IF s = Failed THEN Failed
    ELSE CASE op.kind = "add" -> Assign(s, op.path, op.file)
           [] op.kind \in {"delete", "delete folder"} -> Deleted(s, op)
           [] op.kind = "copy" -> Copied(s, source, op)

(* source_snapshots: the version the commit builds on, which the branch's  *)
(* own name resolves to as well, and that of the tag.  A tag that is not   *)
(* there is an error, as is a copy from a version without files.           *)
SourceSnapshots(t) ==
    [none |-> SnapshotOf(t), tag |-> IF tag = NoTag THEN << >> ELSE SnapshotOf(tag.tree)]

SourceOf(sources, op) == IF op.kind = "copy" THEN sources[op.src_revision] ELSE sources.none

(* The operations on a copy of the files, one after the other. *)
AllApplied(sources, ops) ==
    LET after[n \in 0 .. Len(ops)] ==
            IF n = 0 THEN sources.none
            ELSE Applied(after[n - 1], SourceOf(sources, ops[n]), ops[n])
    IN  after[Len(ops)]

(* The files after the operations, or Failed: then nothing is committed. *)
Staged(t, ops) ==
    LET s == AllApplied(SourceSnapshots(t), ops)
    IN  IF s = Failed THEN Failed ELSE IF IsLegal(s) THEN s ELSE Failed

Small(s) == Len(s) <= MaxFiles /\ \A p \in Keys(s) : Len(p) <= MaxDepth

(* Identifiers that nothing names any more may come again. *)
InUse ==
    {id} \union (IF tag = NoTag THEN {} ELSE {tag.id})
         \union (IF plan = NoPlan THEN {} ELSE {plan.given})

(* The branch gets a new commit with these files. *)
Publish(s) ==
    /\ Small(s)
    /\ head' = StageTree(s)
    /\ id' \in Commits \ InUse
    /\ UNCHANGED tag

CreateCommit(ops) ==
    LET s == Staged(head, ops) IN
    /\ s # Failed
    /\ Publish(s)
    /\ sent' = NoPlan
    /\ UNCHANGED plan

-----------------------------------------------------------------------------
(* Other revisions *)

CreateTag ==
    /\ tag = NoTag
    /\ Len(SnapshotOf(head)) <= MaxTagged
    /\ tag' = [id |-> id, tree |-> head]
    /\ sent' = NoPlan
    /\ UNCHANGED <<head, id, plan>>

DeleteTag ==
    /\ tag # NoTag
    /\ tag' = NoTag
    /\ sent' = NoPlan
    /\ UNCHANGED <<head, id, plan>>

(* reset_ref() of the branch: no new commit. *)
ResetRef ==
    /\ tag # NoTag
    /\ head' = tag.tree
    /\ id' = tag.id
    /\ sent' = NoPlan
    /\ UNCHANGED <<tag, plan>>

-----------------------------------------------------------------------------
(* upload_folder() *)

InFolder(u) == {u.base \o u.adds[i].path : i \in DOMAIN u.adds}

AddOps(u) ==
    [i \in DOMAIN u.adds |->
        [kind |-> "add", path |-> u.base \o u.adds[i].path, file |-> u.adds[i].file]]

(* What is deleted: the files of the branch that the patterns select and   *)
(* that the folder does not have.                                          *)
Doomed(u, s) ==
    {p \in Keys(s) : \E q \in u.doomed : p = u.base \o q} \ InFolder(u)

DeleteOps(u, s) ==
    LET doomed == Only(s, {e \in ToSet(s) : e.path \in Doomed(u, s)})
    IN  [i \in DOMAIN doomed |-> [kind |-> "delete", path |-> doomed[i].path]]

(* Without the lock.  A commit that the caller gives as parent_commit is   *)
(* not looked at here: it may be the head, or one that was it before.      *)
PlanFolder(u) ==
    \E c \in {id} \union (IF tag = NoTag THEN {} ELSE {tag.id}) :
        /\ plan = NoPlan
        /\ u.parent # "commit" => c = id
        /\ plan' = [upload |-> u, deletes |-> DeleteOps(u, SnapshotOf(head)),
                    given |-> c, bound |-> u.parent = "commit" /\ c = id]
        /\ sent' = NoPlan
        /\ UNCHANGED <<head, id, tag>>

\* mutant of SameParent: without the comparison in create_commit().
AnyParent(p) == TRUE

(* parent_commit, if given, resolves to the head when the commit is made,  *)
(* as the branch's name always does.                                       *)
SameParent(p) ==
    \/ p.upload.parent \in {"none", "branch"}
    \/ p.upload.parent = "tag" /\ tag # NoTag /\ tag.id = id
    \/ p.upload.parent = "commit" /\ p.given = id

(* create_commit() with the planned operations.  An empty list, another    *)
(* head than parent_commit or a file that somebody else has deleted        *)
(* meanwhile is an exception.                                              *)
SendFolder ==
    LET ops == plan.deletes \o AddOps(plan.upload)
        s == Staged(head, ops)
    IN
    /\ plan # NoPlan
    /\ plan' = NoPlan
    /\ IF ops # << >> /\ SameParent(plan) /\ s # Failed
       THEN /\ Publish(s)
            /\ sent' = [upload |-> plan.upload, met |-> head, bound |-> plan.bound,
                        doomed |-> {plan.deletes[i].path : i \in DOMAIN plan.deletes}]
       ELSE UNCHANGED <<head, id, tag, sent>>

Init ==
    /\ head = EmptyTree
    /\ id \in Commits
    /\ tag = NoTag
    /\ plan = NoPlan
    /\ sent = NoPlan

Next ==
    \/ \E ops \in OpLists : CreateCommit(ops)
    \/ CreateTag \/ DeleteTag \/ ResetRef
    \/ \E u \in Uploads : PlanFolder(u)
    \/ SendFolder

Spec == Init /\ [][Next]_vars

-----------------------------------------------------------------------------
(* Properties *)

HeadFiles == SnapshotOf(head)
Directories == UNION {{SubSeq(p, 1, n) : n \in 1 .. Len(p) - 1} : p \in Keys(HeadFiles)}
Paths == UNION {[1 .. n -> Names] : n \in 1 .. MaxDepth}

(* The five ways to look at a version agree: one path looked up tree by    *)
(* tree, the metadata of a path decided on the flat snapshot, the listing  *)
(* of a directory, the recursive listing and the comparison of path        *)
(* states; each file and directory is there exactly once.  Two versions of *)
(* a path count as the same state exactly if their trees are the same      *)
(* objects (_file_object_id_for_tree, get_paths_info, list_repo_tree,      *)
(* _path_state_from_snapshot).                                             *)
ViewsAgree ==
    plan = NoPlan =>
    LET all == ListRepoTree(head, << >>, TRUE)
    IN
    /\ IsInjective([i \in DOMAIN all |-> all[i].path])
    /\ {e.path : e \in ToSet(all)} = Keys(HeadFiles) \union Directories
    /\ \A p \in Paths :
          /\ FileAt(head, p) = Get(HeadFiles, p)
          /\ PathInfo(head, p) = (IF p \in Keys(HeadFiles) \union Directories
                                  THEN CHOOSE e \in ToSet(all) : e.path = p ELSE Missing)
          /\ ListRepoTree(head, p, FALSE) =
                IF p \in Directories
                THEN Only(all, {e \in ToSet(all) : Len(e.path) = Len(p) + 1
                                                   /\ IsPrefix(p, e.path)})
                ELSE IF \E q \in Keys(HeadFiles) : IsPrefix(q, p) THEN Failed ELSE Missing
          /\ sent # NoPlan /\ Found(sent.met, p).kind = "tree"
                /\ p \in Directories =>
             (PathState(HeadFiles, p) = PathState(SnapshotOf(sent.met), p)
                 <=> Found(head, p) = Found(sent.met, p))

(* A version has one tree, with one Git identifier, whatever the order in  *)
(* which operations have put its files into the dictionary; read back, it  *)
(* has exactly those files (_stage_tree_objects, _snapshot_for_tree,       *)
(* _git_tree_oid).                                                         *)
SameFilesSameTree ==
    /\ \A order \in SetToSeqs(ToSet(HeadFiles)) : StageTree(order) = head
    /\ IsLegal(HeadFiles)
    /\ head.git = PublicOid(head)

(* What a list of operations is meant to do to one path: the last          *)
(* operation that says anything about the path decides, and copies take    *)
(* what their source version had before the commit.                        *)
CopySource(source, op, p) ==
    IF op.src \in Keys(source) THEN IF p = op.path THEN op.src ELSE Missing
    ELSE IF IsStrictPrefix(op.path, p)
              /\ op.src \o SubSeq(p, Len(op.path) + 1, Len(p)) \in Keys(source)
         THEN op.src \o SubSeq(p, Len(op.path) + 1, Len(p)) ELSE Missing

Speaks(source, op, p) ==
    CASE op.kind \in {"add", "delete"} -> op.path = p
      [] op.kind = "delete folder" -> IsStrictPrefix(op.path, p)
      [] op.kind = "copy" -> CopySource(source, op, p) # Missing

Meaning(sources, ops, p) ==
    LET spoken == {i \in DOMAIN ops : Speaks(SourceOf(sources, ops[i]), ops[i], p)}
        op == ops[Max(spoken)]
        source == SourceOf(sources, op)
    IN  IF spoken = {} THEN Get(sources.none, p)
        ELSE CASE op.kind = "add" -> op.file
               [] op.kind \in {"delete", "delete folder"} -> Missing
               [] op.kind = "copy" -> Get(source, CopySource(source, op, p))

(* Every list of operations that create_commit() accepts does this, to all *)
(* paths at once, whichever version each copy is from; and the changes     *)
(* shown for the commit are the paths that differ (create_commit,          *)
(* _apply_delete, _apply_copy, _commit_detail_info).                       *)
CommitsMeanTheirOperations ==
    plan = NoPlan /\ sent = NoPlan => \A ops \in OpLists :
        LET s == Staged(head, ops)
            meant(p) == Meaning(SourceSnapshots(head), ops, p)
        IN
        s # Failed =>
            /\ \A p \in Keys(s) \union Keys(HeadFiles) : Get(s, p) = meant(p)
            /\ {c.path : c \in Changes(HeadFiles, s)} =
                  {p \in Keys(s) \union Keys(HeadFiles) : meant(p) # Get(HeadFiles, p)}

(* A folder upload that succeeds has put every file of the folder in       *)
(* place and deleted what the patterns selected when it looked; everything *)
(* else is as the commit found it, including what others wrote meanwhile.  *)
(* If parent_commit is the identifier of the head that it looked at,       *)
(* nothing selected is left at all, even if the branch has been moved and  *)
(* reset meanwhile.  The name of a branch or a tag, or another commit,     *)
(* promises no such thing (upload_folder, create_commit).                  *)
FolderUploadsMirror ==
    sent # NoPlan =>
        LET u == sent.upload
            met == SnapshotOf(sent.met)
            made == HeadFiles
        IN
        /\ \A i \in DOMAIN u.adds : Get(made, u.base \o u.adds[i].path) = u.adds[i].file
        /\ \A p \in sent.doomed : Get(made, p) = Missing
        /\ \A p \in Keys(met) \union Keys(made) :
              p \notin sent.doomed \union InFolder(u) => Get(made, p) = Get(met, p)
        /\ sent.bound => Doomed(u, made) = {}
=============================================================================
