---------------------------- MODULE ChunkedFiles ----------------------------
(***************************************************************************)
(* Large files: how bytes are cut into chunks, chunks are placed in packs  *)
(* and found again through the chunk index, a byte range is read from the  *)
(* chunks it overlaps, gc moves the live chunks to a new pack, and each    *)
(* backend object keeps recently used chunks in memory, up to a budget of  *)
(* bytes.                                                                  *)
(*                                                                         *)
(* A file is the sequence of its bytes and a chunk is named by its bytes   *)
(* (in the code, by their SHA-256).  Where FastCDC cuts a file is given.   *)
(* Offsets count from 0 and include the pack header.  The interplay with   *)
(* the lock and with crashes is RepoStore's subject: a transaction here    *)
(* either commits or vanishes.                                             *)
(***************************************************************************)
EXTENDS Integers, Sequences, SequencesExt, FiniteSetsExt

CONSTANTS
    Readers,        \* backend objects
    Contents,       \* contents of large files
    SplitOf,        \* SplitOf[x]: the chunks FastCDC cuts x into
    Header,         \* PACK_MAGIC
    MaxCacheBytes,  \* RECENT_CHUNK_CACHE_MAX_BYTES
    MaxPacks,       \* bound: packs ever written
    NoTx

ASSUME SplitAssumption ==
    \A x \in Contents :
        /\ SplitOf[x] \in Seq(Seq(Range(x)))
        /\ FlattenSeq(SplitOf[x]) = x
        /\ << >> \notin Range(SplitOf[x])

ASSUME BoundsAssumption ==
    /\ Header \in Seq(Range(Header))
    /\ MaxCacheBytes \in Nat
    /\ MaxPacks \in Nat

VARIABLES
    packs,      \* pack number -> its bytes
    index,      \* chunk -> its entry
    files,      \* contents of the committed large files
    tx,         \* the open write transaction: its owner, packs, index, files
    recent,     \* recent[m]: chunks m has used, least recently first
    used,       \* used[m]: _recent_chunk_cache_bytes
    written     \* packs written so far

chunkVars == <<packs, index, files, tx, recent, used, written>>

Chunks == UNION {Range(SplitOf[x]) : x \in Contents}
PackIds == 1 .. MaxPacks
Entry == [pack : PackIds, offset : Nat, size : Nat]
Nothing == [k \in {} |-> << >>]
With(f, g) == [k \in DOMAIN f \union DOMAIN g |-> IF k \in DOMAIN g THEN g[k] ELSE f[k]]

ChunkInit ==
    /\ packs = Nothing
    /\ index = Nothing
    /\ files = {}
    /\ tx = NoTx
    /\ recent = [m \in Readers |-> << >>]
    /\ used = [m \in Readers |-> 0]
    /\ written = 0

-----------------------------------------------------------------------------
(* Packs *)

Total(chunks) == FoldLeft(LAMBDA n, c : n + Len(c), 0, chunks)
Before(chunks, i) == Total(SubSeq(chunks, 1, i - 1))

(* write_pack: the bytes of the pack, and where each chunk went. *)
PackOf(chunks) == Header \o FlattenSeq(chunks)
EntriesOf(chunks, id) ==
    [c \in Range(chunks) |->
        LET i == CHOOSE i \in DOMAIN chunks : chunks[i] = c
        IN  [pack |-> id, offset |-> Len(Header) + Before(chunks, i), size |-> Len(c)]]

(* _read_pack_view_cached and read_range *)
Stored(e) == SubSeq(packs[e.pack], e.offset + 1, e.offset + e.size)

\* mutant of Distinct: a chunk that is twice in the file goes in twice.
DistinctFromKnown(s, known) == SelectSeq(s, LAMBDA c : c \notin known)

(* The distinct chunks of s that are not in known, in order. *)
Distinct(s, known) ==
    FoldLeft(LAMBDA new, c : IF c \in known \union Range(new) THEN new ELSE Append(new, c),
             << >>, s)

-----------------------------------------------------------------------------
(* The cache of recent chunks *)

InMemory(m) == [items |-> recent[m], bytes |-> used[m]]
Remembers(m, mem) ==
    /\ recent' = [recent EXCEPT ![m] = mem.items]
    /\ used' = [used EXCEPT ![m] = mem.bytes]

\* OrderedDict.pop
Popped(items, c) == RemoveFirstMatch(items, LAMBDA i : i.chunk = c)

\* mutant of Forget: the bytes stay counted.
ForgetItem(mem, c) == [mem EXCEPT !.items = Popped(@, c)]

Forget(mem, c) ==
    [items |-> Popped(mem.items, c),
     bytes |-> mem.bytes - IF \E k \in DOMAIN mem.items : mem.items[k].chunk = c
                           THEN Len(c) ELSE 0]

(* _remember_recent_chunk_bytes: the newest goes to the end, and the       *)
(* oldest leave until the budget is kept (the newest too, if it alone is   *)
(* over it).                                                               *)
Remember(mem, c, e) ==
    LET cleared == Forget(mem, c)
        items == Append(cleared.items, [chunk |-> c, entry |-> e])
        bytes == cleared.bytes + Len(c)
        without(k) == Total([i \in 1 .. k |-> items[i].chunk])
        gone == Min({k \in 0 .. Len(items) :
                        bytes - without(k) <= MaxCacheBytes \/ k = Len(items)})
    IN  [items |-> SubSeq(items, gone + 1, Len(items)), bytes |-> bytes - without(gone)]

(* _recent_chunk_view: an item counts only while its chunk is where it was *)
(* when the item was made; _read_verified_chunk_view reads the others from *)
(* their packs and remembers them.  A hit moves to the end.                *)
Touch(mem, c) ==
    LET hit == [chunk |-> c, entry |-> index[c]] IN
    IF hit \in Range(mem.items)
    THEN [mem EXCEPT !.items = Append(Popped(@, c), hit)]
    ELSE Remember(mem, c, index[c])

-----------------------------------------------------------------------------
(* Reading *)

\* mutant of Overlap: the chunk in whose middle the range starts is left out.
OverlapFromStart(x, start, end) ==
    LET s == SplitOf[x] IN
    SelectSeq([i \in DOMAIN s |-> [chunk |-> s[i], from |-> Before(s, i)]],
              LAMBDA d : d.from >= start /\ d.from < end)

(* The chunks of x that overlap the bytes from start up to end. *)
Overlap(x, start, end) ==
    LET s == SplitOf[x] IN
    FoldLeft(LAMBDA parts, d :
                 IF d.from + Len(d.chunk) <= start \/ d.from >= end
                 THEN parts
                 ELSE Append(parts, d),
             << >>, [i \in DOMAIN s |-> [chunk |-> s[i], from |-> Before(s, i)]])

(* _read_chunked_file_bytes: all chunks, each where the index has it now. *)
WholeRead(x) == FlattenSeq([i \in DOMAIN SplitOf[x] |-> Stored(index[SplitOf[x][i]])])

(* _verify_chunked_file_payload: every chunk has an entry of its size, and *)
(* is there; cached bytes do not count.                                    *)
IsVerified(x) ==
    \A i \in DOMAIN SplitOf[x] :
        LET c == SplitOf[x][i] IN
        c \in DOMAIN index /\ index[c].size = Len(c) /\ Stored(index[c]) = c

(* _read_chunked_file_range: their parts within the range, put together. *)
RangeRead(x, start, length) ==
    LET end == Min({Len(x), start + length})
        parts == Overlap(x, start, end)
        slice(d) ==
            LET low == Max({start, d.from}) - d.from
                high == Min({end, d.from + Len(d.chunk)}) - d.from
            IN  SubSeq(Stored(index[d.chunk]), low + 1, high)
    IN  IF start >= Len(x) \/ length = 0 THEN << >>
        ELSE FlattenSeq([i \in DOMAIN parts |-> slice(parts[i])])

Read(m, x, start, length) ==
    LET parts == Overlap(x, start, Min({Len(x), start + length})) IN
    /\ tx = NoTx
    /\ x \in files
    /\ start < Len(x)
    /\ Remembers(m, FoldLeft(LAMBDA mem, d : Touch(mem, d.chunk), InMemory(m), parts))
    /\ UNCHANGED <<packs, index, files, tx, written>>

-----------------------------------------------------------------------------
(* Writing *)

Begin(m) ==
    /\ tx = NoTx
    /\ tx' = [owner |-> m, packs |-> Nothing, index |-> Nothing, files |-> {}]
    /\ UNCHANGED <<packs, index, files, recent, used, written>>

(* _stage_chunked_add_operation: a pack with the chunks that neither the   *)
(* repository nor the transaction has yet.                                 *)
Stage(x) ==
    LET known == With(index, tx.index)
        new == Distinct(SplitOf[x], DOMAIN known)
        id == written + 1
        entries == EntriesOf(new, id)
    IN
    /\ tx # NoTx
    /\ x \notin tx.files
    /\ IF new = << >>
       THEN /\ tx' = [tx EXCEPT !.files = @ \union {x}]
            /\ UNCHANGED written
       ELSE /\ written < MaxPacks
            /\ written' = id
            /\ tx' = [tx EXCEPT !.files = @ \union {x},
                                !.packs = With(@, [p \in {id} |-> PackOf(new)]),
                                !.index = With(@, entries)]
    /\ Remembers(tx.owner,
           FoldLeft(LAMBDA mem, c : Remember(mem, c, With(known, entries)[c]),
                    InMemory(tx.owner), SplitOf[x]))
    /\ UNCHANGED <<packs, index, files>>

(* _publish_staged_objects and the commit, or the rollback of it all. *)
Commit ==
    /\ tx # NoTx
    /\ packs' = With(packs, tx.packs)
    /\ index' = With(index, tx.index)
    /\ files' = files \union tx.files
    /\ tx' = NoTx
    /\ UNCHANGED <<recent, used, written>>

Abort ==
    /\ tx # NoTx
    /\ tx' = NoTx
    /\ UNCHANGED <<packs, index, files, recent, used, written>>

(* gc when only the files of keep are reachable: _chunk_storage_plan copies *)
(* their chunks, and only those, to one new pack.                          *)
Compact(keep) ==
    LET live == SetToSeq(UNION {Range(SplitOf[x]) : x \in keep})
        id == written + 1
        copies == [i \in DOMAIN live |-> Stored(index[live[i]])]
    IN
    /\ tx = NoTx
    /\ keep \subseteq files
    /\ packs # Nothing
    /\ files' = keep
    /\ index' = EntriesOf(live, id)
    /\ IF keep = {}
       THEN packs' = Nothing /\ UNCHANGED written
       ELSE /\ written < MaxPacks
            /\ written' = id
            /\ packs' = [p \in {id} |-> PackOf(copies)]
    /\ UNCHANGED <<tx, recent, used>>

ChunkNext ==
    \/ \E m \in Readers : Begin(m)
    \/ \E x \in Contents : Stage(x)
    \/ Commit \/ Abort
    \/ \E m \in Readers, x \in Contents :
          \E start \in 0 .. Len(x) - 1, length \in 1 .. Len(x) : Read(m, x, start, length)
    \/ \E keep \in SUBSET files : Compact(keep)

ChunkSpec == ChunkInit /\ [][ChunkNext]_chunkVars

-----------------------------------------------------------------------------
(* Properties *)

(* Any byte range of any committed large file reads as in the file that    *)
(* was written, clamped to its end: across chunk boundaries, chunks shared *)
(* with other files or repeated in the same one, and chunks moved to other *)
(* packs by gc.  Reading it whole is the longest range, and the file       *)
(* verifies (read_range, read_bytes, full_verify).                         *)
RangesAreExact ==
    tx = NoTx => \A x \in files :
        /\ IsVerified(x) /\ WholeRead(x) = x
        /\ \A start \in 0 .. Len(x) + 1, length \in 0 .. Len(x) + 1 :
              RangeRead(x, start, length) = SubSeq(WholeRead(x), start + 1, Min({Len(x), start + length}))

(* Deduplication: a chunk is stored once, however many files have it, in   *)
(* one transaction or several, before and after gc; nothing else is.       *)
ChunksAreStoredOnce ==
    /\ SumFunction([p \in DOMAIN packs |-> Len(packs[p]) - Len(Header)])
           = SumFunction([c \in DOMAIN index |-> Len(c)])
    /\ \A c \in DOMAIN index : Stored(index[c]) = c

(* The byte counter of the cache is what the cached chunks weigh, through  *)
(* every way in and out of it, and within the budget; so eviction never    *)
(* stops short or runs on (_recent_chunk_cache_bytes).                     *)
CacheIsAccounted ==
    \A m \in Readers :
        /\ used[m] = Total([i \in DOMAIN recent[m] |-> recent[m][i].chunk])
        /\ used[m] <= MaxCacheBytes
        /\ \A i, j \in DOMAIN recent[m] : recent[m][i].chunk = recent[m][j].chunk => i = j
=============================================================================
