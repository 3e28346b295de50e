---------------------------- MODULE HistoryWalks ----------------------------
(***************************************************************************)
(* The walks over a history, loop by loop: distances for the merge base,   *)
(* the listing of list_repo_commits(), the search for the commit that a    *)
(* listing of files shows beside each of them, and the search for the refs *)
(* that keep the history of a squashed branch alive.                       *)
(***************************************************************************)
EXTENDS History, SequencesExt

None == 0

FirstParent(c) == IF log[c].parents = << >> THEN None ELSE Head(log[c].parents)

(***************************************************************************)
(* A loop: a step of it, which does nothing once the loop has ended, again *)
(* and again.  Every walk looks behind a commit once, and no commit has    *)
(* more than two parents, so that it ends within this many rounds.         *)
(***************************************************************************)
Rounds == 2 * Len(log) + 1

Loop(Step(_), start) ==
    LET after[n \in 0..Rounds] == IF n = 0 THEN start ELSE Step(after[n - 1])
    IN  after[Rounds]

-----------------------------------------------------------------------------
(***************************************************************************)
(* _ancestor_distances_unlocked(): a queue of commits with their distance. *)
(***************************************************************************)
Further(c, d) == [i \in DOMAIN log[c].parents |-> <<log[c].parents[i], d + 1>>]

Noted(found, c, d) == [b \in DOMAIN found \union {c} |-> IF b = c THEN d ELSE found[b]]

\* mutant of Measure: a stack, and the first visit counts.
MeasureInDepth(w) ==
    IF w.pending = << >> THEN w
    ELSE LET c == Last(w.pending)[1]
             d == Last(w.pending)[2]
             rest == Front(w.pending)
         IN  IF c \in DOMAIN w.found THEN [w EXCEPT !.pending = rest]
             ELSE [pending |-> rest \o Further(c, d), found |-> Noted(w.found, c, d)]

Measure(w) ==
    IF w.pending = << >> THEN w
    ELSE LET c == Head(w.pending)[1]
             d == Head(w.pending)[2]
             rest == Tail(w.pending)
         IN  IF c \in DOMAIN w.found /\ w.found[c] <= d THEN [w EXCEPT !.pending = rest]
             ELSE [pending |-> rest \o Further(c, d), found |-> Noted(w.found, c, d)]

Distances(c) == Loop(Measure, [pending |-> <<<<c, 0>>>>, found |-> << >>]).found

(***************************************************************************)
(* _reachable_commit_order_unlocked(): the top of the stack is its end.    *)
(***************************************************************************)
\* mutant of Visit: the walk follows first parents only.
VisitLine(w) ==
    IF w.stack = << >> THEN w
    ELSE LET c == Last(w.stack)
         IN  [stack |-> IF FirstParent(c) = None THEN << >> ELSE <<FirstParent(c)>>,
              ordered |-> Append(w.ordered, c)]

Visit(w) ==
    IF w.stack = << >> THEN w
    ELSE LET c == Last(w.stack)
             rest == Front(w.stack)
         IN  IF c \in ToSet(w.ordered) THEN [w EXCEPT !.stack = rest]
             ELSE [stack |-> rest \o Reverse(log[c].parents), ordered |-> Append(w.ordered, c)]

Listing(head) == Loop(Visit, [stack |-> <<head>>, ordered |-> << >>]).ordered

(***************************************************************************)
(* _last_commit_info_by_path_unlocked() for one path and the version that  *)
(* the head has of it.                                                     *)
(***************************************************************************)
\* mutant of Introduces: a merge is only compared with its first parent.
DiffersFromFirst(c, p) ==
    log[c].parents # << >> => Files(log[c].parents[1])[p] # Files(c)[p]

Introduces(c, p) == \A parent \in Parents(c) : Files(parent)[p] # Files(c)[p]

Search(w, p, version) ==
    IF w.pending = << >> \/ w.last # None THEN w
    ELSE LET c == Head(w.pending)
             rest == Tail(w.pending)
         IN  IF c \in w.visited THEN [w EXCEPT !.pending = rest]
             ELSE [pending |-> rest \o log[c].parents,
                   visited |-> w.visited \union {c},
                   last |-> IF Files(c)[p] = version /\ Introduces(c, p) THEN c ELSE None]

LastCommit(head, p) ==
    Loop(LAMBDA w : Search(w, p, Files(head)[p]),
         [pending |-> <<head>>, visited |-> {}, last |-> None]).last

(***************************************************************************)
(* _commit_lineage_unlocked(): first parents only.                         *)
(***************************************************************************)
GoBack(w) ==
    IF w.at = None \/ w.at \in w.seen THEN w
    ELSE [at |-> FirstParent(w.at), seen |-> w.seen \union {w.at}]

Lineage(c) == Loop(GoBack, [at |-> c, seen |-> {}]).seen

(***************************************************************************)
(* _blocking_refs_for_lineage_unlocked() for one ref, from its head on.    *)
(***************************************************************************)
\* mutant of Blocks: only heads that lie on the lineage count.
BlocksAsHead(head, lineage) == head \in lineage

Seek(w, lineage) == IF w.at \in lineage THEN w ELSE GoBack(w)

Blocks(head, lineage) ==
    Loop(LAMBDA w : Seek(w, lineage), [at |-> head, seen |-> {}]).at \in lineage

-----------------------------------------------------------------------------
(***************************************************************************)
(* The walk finds each ancestor, with the least number of steps to it,     *)
(* along whichever parents and in whichever order it meets it.             *)
(***************************************************************************)
DistancesAreShortest ==
    \A c \in CommitsMade :
        Distances(c) = Distance[c]

(***************************************************************************)
(* The listing has each commit of the history once, the head first, and    *)
(* every other one after a child of it; without merges, newest first.      *)
(***************************************************************************)
ListingCoversHistory ==
    \A head \in CommitsMade :
        LET listing == Listing(head)
        IN  /\ ToSet(listing) = Ancestors[head]
            /\ IsInjective(listing)
            /\ listing[1] = head
            /\ \A i \in 2..Len(listing) :
                  \E j \in 1..(i - 1) : listing[i] \in Parents(listing[j])
            /\ HasMerges(head) \/ \A i \in 2..Len(listing) : listing[i] < listing[i - 1]

(***************************************************************************)
(* Each file that a listing shows has a commit beside it, which is in the  *)
(* history and brought this very version; without merges it is the last    *)
(* commit that touched the file.                                           *)
(***************************************************************************)
FilesAreAttributed ==
    \A head \in CommitsMade : \A p \in Present(Files(head)) :
        LET c == LastCommit(head, p)
        IN  /\ c \in Ancestors[head]
            /\ Files(c)[p] = Files(head)[p]
            /\ \A parent \in Parents(c) : Files(parent)[p] # Files(c)[p]
            /\ \/ HasMerges(head)
               \/ \A d \in Ancestors[head] : d > c => Files(d)[p] = Files(c)[p]

(***************************************************************************)
(* SquashReport.blocking_refs names exactly the refs that keep some of the *)
(* old history of the squashed branch alive, along whichever parents they  *)
(* reach it, although the lineage and the walk follow first parents only.  *)
(* It is so because a history has one root: histories without a common     *)
(* ancestor cannot be merged, and a squash drops the second parents.       *)
(***************************************************************************)
BlockersAreComplete ==
    \A squashed, head \in CommitsMade :
        Blocks(head, Lineage(squashed)) <=> Common(squashed, head) # {}
=============================================================================
