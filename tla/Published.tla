------------------------------ MODULE Published ------------------------------
(***************************************************************************)
(* What a repository publishes to those who download from it: revisions    *)
(* (branches and tags) that name commits, and the tree of files of every   *)
(* commit.  Commits never change; only the commit a revision names moves.  *)
(* A file is a member of Contents, which stands at once for its bytes, its *)
(* SHA-256, its oid and its etag.                                          *)
(***************************************************************************)
CONSTANTS
    Paths,      \* repo-relative file paths
    Below,      \* Below[p]: the paths that have p as a parent directory
    Contents,   \* what a file of a commit can hold
    Absent,     \* no file at this path
    Commits,
    TreeOf,     \* TreeOf[c][p]: the file of commit c at path p, or Absent
    Revisions   \* branch and tag names

ASSUME PublishedAssumption ==
    /\ Absent \notin Contents
    /\ TreeOf \in [Commits -> [Paths -> Contents \union {Absent}]]
    /\ Below \in [Paths -> SUBSET Paths]

VARIABLE heads    \* heads[r]: the commit revision r resolves to

Files(c) == {p \in Paths : TreeOf[c][p] # Absent}

(* _resolve_revision inside one lock scope *)
Resolve(rev) == heads[rev]

(* A commit, merge, reset or tag update, seen from a download: atomic,     *)
(* because it happens under the exclusive lock.                            *)
MoveRevision(rev, c) ==
    /\ heads[rev] # c
    /\ heads' = [heads EXCEPT ![rev] = c]
=============================================================================
