---------------------------- MODULE MCOperations ----------------------------
(***************************************************************************)
(* Three names: data, Data and data.txt.  A directory data sorts before    *)
(* data.txt here and after it in Git.                                      *)
(***************************************************************************)
EXTENDS CommitOperations, TLC

CONSTANTS data, Data, datatxt, f, g

MCSorted == <<Data, data, datatxt>>
Entry(n, k) == [name |-> n, kind |-> k]
MCGitSorted ==
    << Entry(Data, "file"), Entry(Data, "tree"), Entry(data, "file"),
       Entry(datatxt, "file"), Entry(data, "tree"), Entry(datatxt, "tree") >>
MCFoldOf == Data :> data @@ data :> data @@ datatxt :> datatxt

MCAddPaths == { <<data>>, <<Data>>, <<datatxt>>, <<data, datatxt>> }
MCFolders == { <<data>>, <<data, data>> }
MCCopyPaths == { <<data>>, <<data, datatxt>> }
Upload(base, parent) ==
    [base |-> base, adds |-> <<[path |-> <<datatxt>>, file |-> f]>>,
     doomed |-> {<<datatxt>>, <<Data>>, <<data>>}, parent |-> parent]
MCUploads ==
    { Upload(<< >>, "commit"), Upload(<< >>, "tag"),
      Upload(<<data>>, "commit"), Upload(<<data>>, "branch") }

(* Identifiers of commits are only compared. *)
Symmetry == Permutations(Commits)
=============================================================================
