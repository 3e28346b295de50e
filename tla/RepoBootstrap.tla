----------------------------- MODULE RepoBootstrap -----------------------------
(***************************************************************************)
(* How a directory becomes a repository, and how a call finds out that it  *)
(* is one (hubvault/repo/backend.py).                                      *)
(*                                                                         *)
(* create_repo() works under the exclusive lock but not in one             *)
(* transaction: the layout, the FORMAT marker, the schema, the             *)
(* configuration and the first commit become durable one after the other,  *)
(* and nothing undoes them when it stops.  All other operations first call *)
(* _ensure_repo(), without the lock and over a read-only connection, and   *)
(* take the lock afterwards.                                               *)
(*                                                                         *)
(* SQLite is external.  With a rollback journal a commit is in effect when *)
(* the journal is removed; a process that dies in a commit leaves a hot    *)
(* journal, `journal' here.  The next connection that may write plays it   *)
(* back, and one that may not cannot read the database.                    *)
(***************************************************************************)
EXTENDS Integers

CONSTANTS
    Clients,    \* processes, each with a backend object of its own
    Nobody,
    MaxUpdates  \* bound: changes of the default branch

ASSUME ClientsAssumption == Nobody \notin Clients

ASSUME MaxUpdatesAssumption == MaxUpdates \in Nat /\ MaxUpdates > 0

VARIABLES
    contents,   \* what the directory holds besides locks/ and the database
    database,   \* the durable content of metadata.sqlite3
    updates,    \* changes of the default branch, 0 before its first commit
    journal,    \* metadata.sqlite3-journal, once its writer is gone
    writer,     \* holder of the exclusive lock
    step,       \* what the writer has done last
    checked,    \* clients that passed _ensure_repo() and wait for the lock
    reading     \* clients under the shared lock

vars == <<contents, database, updates, journal, writer, step, checked, reading>>

Steps == {"idle", "locked", "directories", "marked", "file", "tables",
          "configured", "rooted", "write"}

(* Steps whose next change of the database is a commit. *)
BeforeCommit == {"file", "tables", "configured", "write"}

TypeOK ==
    /\ contents \in {"nothing", "foreign", "layout", "FORMAT"}
    /\ database \in {"absent", "empty", "tables", "config"}
    /\ updates \in 0..MaxUpdates
    /\ journal \in {"none", "hot"}
    /\ writer \in Clients \union {Nobody}
    /\ step \in Steps
    /\ checked \subseteq Clients
    /\ reading \subseteq Clients
    /\ writer = Nobody <=> step = "idle"

-----------------------------------------------------------------------------
(***************************************************************************)
(* _is_repo(): both files are there, whatever they contain.                *)
(***************************************************************************)
IsRepo == contents = "FORMAT" /\ database # "absent"

(***************************************************************************)
(* _ensure_repo() succeeds: the required keys of repo_meta can be read     *)
(* over a read-only connection.  A database error counts as "no".          *)
(***************************************************************************)
\* mutant of Bootstrapped: the tables are enough, their rows are not looked at.
HasTables == journal = "none" /\ database \in {"tables", "config"}

Bootstrapped == journal = "none" /\ database = "config"

EnsureRepo == IsRepo /\ Bootstrapped

Idle(c) == c # writer /\ c \notin checked /\ c \notin reading

\* mutant of LockFree: the exclusive lock does not wait for readers.
NoWriter == writer = Nobody

LockFree == writer = Nobody /\ reading = {}

\* mutant of Unlock: the lock is not released at the end of the scope.
EndWithoutUnlock == writer' = writer /\ step' = "idle"

Unlock == writer' = Nobody /\ step' = "idle"

Init ==
    /\ contents \in {"nothing", "foreign"}
    /\ database = "absent"
    /\ updates = 0
    /\ journal = "none"
    /\ writer = Nobody
    /\ step = "idle"
    /\ checked = {}
    /\ reading = {}

-----------------------------------------------------------------------------
(***************************************************************************)
(* _write_locked() opens a writable connection as soon as it has the lock, *)
(* if there is a database, and so plays a hot journal back.                *)
(***************************************************************************)
LockExclusively(c, next) ==
    /\ LockFree
    /\ writer' = c
    /\ step' = next
    /\ journal' = "none"

BeginCreate(c) ==
    /\ Idle(c)
    /\ LockExclusively(c, "locked")
    /\ UNCHANGED <<contents, database, updates, checked, reading>>

(***************************************************************************)
(* create_repo() on a repository: an error, or its description when        *)
(* exist_ok is set.  On any other directory that holds something: an       *)
(* error.  Neither changes anything.                                       *)
(***************************************************************************)
Leave(c) ==
    /\ writer = c
    /\ \/ step = "locked" /\ (IsRepo \/ contents # "nothing")
       \/ step = "rooted"
    /\ Unlock
    /\ UNCHANGED <<contents, database, updates, journal, checked, reading>>

\* mutant of MayCreate: a layout of hubvault's own may be set up again.
NothingForeign == contents # "foreign"

MayCreate == ~IsRepo /\ contents = "nothing"

LayOut(c) ==
    /\ writer = c
    /\ step = "locked"
    /\ MayCreate
    /\ contents' = "layout"
    /\ step' = "directories"
    /\ UNCHANGED <<database, updates, journal, writer, checked, reading>>

WriteMarker(c) ==
    /\ writer = c
    /\ step = "directories"
    /\ contents' = "FORMAT"
    /\ step' = "marked"
    /\ UNCHANGED <<database, updates, journal, writer, checked, reading>>

(***************************************************************************)
(* initialize_empty(): opening the database makes the file, the tables     *)
(* come with the commit.                                                   *)
(***************************************************************************)
CreateFile(c) ==
    /\ writer = c
    /\ step = "marked"
    /\ database' = "empty"
    /\ step' = "file"
    /\ UNCHANGED <<contents, updates, journal, writer, checked, reading>>

CreateTables(c) ==
    /\ writer = c
    /\ step = "file"
    /\ database' = "tables"
    /\ step' = "tables"
    /\ UNCHANGED <<contents, updates, journal, writer, checked, reading>>

(***************************************************************************)
(* set_repo_meta() and the default branch without a commit, one commit.    *)
(***************************************************************************)
Configure(c) ==
    /\ writer = c
    /\ step = "tables"
    /\ database' = "config"
    /\ updates' = 0
    /\ step' = "configured"
    /\ UNCHANGED <<contents, journal, writer, checked, reading>>

(***************************************************************************)
(* _create_initial_commit_unlocked(), the last commit.                     *)
(***************************************************************************)
CreateInitialCommit(c) ==
    /\ writer = c
    /\ step = "configured"
    /\ updates' = 1
    /\ step' = "rooted"
    /\ UNCHANGED <<contents, database, journal, writer, checked, reading>>

-----------------------------------------------------------------------------
(***************************************************************************)
(* The first line of every other operation.  It takes no lock.             *)
(***************************************************************************)
Check(c) ==
    /\ Idle(c)
    /\ EnsureRepo
    /\ checked' = checked \union {c}
    /\ UNCHANGED <<contents, database, updates, journal, writer, step, reading>>

(***************************************************************************)
(* _read_locked(): the read transaction finds the database readable, or    *)
(* ends with the error of SQLite if a writer died since the check.         *)
(***************************************************************************)
BeginRead(c) ==
    /\ c \in checked
    /\ writer = Nobody
    /\ checked' = checked \ {c}
    /\ reading' = IF journal = "hot" THEN reading ELSE reading \union {c}
    /\ UNCHANGED <<contents, database, updates, journal, writer, step>>

EndRead(c) ==
    /\ c \in reading
    /\ reading' = reading \ {c}
    /\ UNCHANGED <<contents, database, updates, journal, writer, step, checked>>

(***************************************************************************)
(* Any other operation under _write_locked(): one commit, as it ends.      *)
(***************************************************************************)
BeginWrite(c) ==
    /\ c \in checked
    /\ LockExclusively(c, "write")
    /\ checked' = checked \ {c}
    /\ UNCHANGED <<contents, database, updates, reading>>

Write(c) ==
    /\ writer = c
    /\ step = "write"
    /\ updates < MaxUpdates
    /\ updates' = updates + 1
    /\ Unlock
    /\ UNCHANGED <<contents, database, journal, checked, reading>>

-----------------------------------------------------------------------------
(***************************************************************************)
(* The writer ends early, by an exception or because its process dies: the *)
(* open SQLite transaction is undone, files and earlier commits stay.  If  *)
(* it dies in a commit, the journal stays as well.                         *)
(***************************************************************************)
Stop(c) ==
    /\ writer = c
    /\ Unlock
    /\ \/ journal' = "none"
       \/ step \in BeforeCommit /\ journal' = "hot"
    /\ UNCHANGED <<contents, database, updates, checked, reading>>

Next ==
    \E c \in Clients :
        \/ BeginCreate(c)
        \/ Leave(c)
        \/ LayOut(c)
        \/ WriteMarker(c)
        \/ CreateFile(c)
        \/ CreateTables(c)
        \/ Configure(c)
        \/ CreateInitialCommit(c)
        \/ Check(c)
        \/ BeginRead(c)
        \/ EndRead(c)
        \/ BeginWrite(c)
        \/ Write(c)
        \/ Stop(c)

Spec == Init /\ [][Next]_vars
-----------------------------------------------------------------------------
(***************************************************************************)
(* The check of _ensure_repo() is made without the lock and used under it: *)
(* whoever passed it works on a database whose configuration is durable,   *)
(* even if create_repo() was running then or a writer has died since.      *)
(***************************************************************************)
OpenedIsWhole == checked \union reading # {} => database = "config"

(***************************************************************************)
(* Under the shared lock no journal waits to be played back: whatever a    *)
(* reader of _read_locked() reads is committed.                            *)
(***************************************************************************)
ReadersSeeCommitted == reading # {} => journal = "none"

(***************************************************************************)
(* create_repo() leaves a directory alone that holds files of somebody     *)
(* else (backend.py:1352-1354).                                            *)
(***************************************************************************)
IsForeignKept ==
    contents = "foreign" => contents' = "foreign" /\ database' = database

ForeignKept == [][IsForeignKept]_vars

(***************************************************************************)
(* However many processes call create_repo() at once or again later, and   *)
(* wherever they stop, a configured repository stays configured and keeps  *)
(* the history of its default branch.                                      *)
(***************************************************************************)
IsHistoryKept ==
    database = "config" => database' = "config" /\ updates' >= updates

HistoryKept == [][IsHistoryKept]_vars

(***************************************************************************)
(* What docs/source/index_en.rst:67 says, an interrupted write is treated  *)
(* as if it never happened, of the writes of a repository: once nobody     *)
(* writes it can be opened.  The code does not keep it, the check of       *)
(* _ensure_repo() cannot play the journal back.                            *)
(***************************************************************************)
InterruptedWriteIsInvisible ==
    database = "config" /\ writer = Nobody => EnsureRepo
=============================================================================
