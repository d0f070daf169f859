------------------------------- MODULE History --------------------------------
(***************************************************************************)
(* The SQLite history of one actor: what a commit stores of the database   *)
(* (host/actor_database/session.rs, litestream.rs, litestream/storage.rs), *)
(* where a snapshot is kept and found again (bucket/rapid.rs,              *)
(* bucket/rapid/index.rs), how a state is put together from a snapshot,    *)
(* its parents and a checkpoint (bucket/recovery.rs), when checkpoints are *)
(* written (bucket/rapid/checkpoint.rs), and what an inspection of the     *)
(* history reads (bucket/runtime/history.rs).                              *)
(*                                                                         *)
(* A database is the sequence of the writes committed to it. A snapshot is *)
(* named by its owner epoch and state version; its bytes never change, so  *)
(* a reference to it is that name. A put that fails ends the host, which   *)
(* other modules show; here it leaves behind any of the puts it can.       *)
(***************************************************************************)
EXTENDS Integers, Sequences, FiniteSets, SequencesExt

CONSTANTS
    MaxLogVersions,   \* MAX_LOG_VERSIONS: versions after which a checkpoint is due
    MinLogBytes,      \* MIN_LOG_BYTES: log size below which none is due for its size
    LiveRecords,      \* appended records a host remembers the place of
    BatchBytes,       \* ArchiveBatchConfig::bytes: the most one ranged read asks for
    PageLimit,        \* the longest page of the history that is asked for
    NoKey             \* no snapshot

ASSUME HistoryConstants ==
    /\ MaxLogVersions \in Nat \ {0} /\ MinLogBytes \in Nat
    /\ LiveRecords \in Nat /\ BatchBytes \in Nat /\ PageLimit \in Nat

VARIABLES
    rapid,        \* snapshots go to a Rapid log; otherwise each is an object of a bucket
    written,      \* by name, every snapshot made: its txid, parent, files and state
    whole,        \* names of the snapshots stored as objects
    late,         \* names of those a host that is gone may still store
    segments,     \* the log: its segments, oldest first
    checkpoints,  \* by name of the snapshot it restores: the stored checkpoints
    owner,        \* the actor's last activation
    sqlite,       \* the resident database of its host and its capture
    live,         \* by version: where the host appended it
    progress,     \* the host's checkpoint::Progress
    reader,       \* restores under way: the host's, its checkpoint's, that of a fenced
                  \* host, an inspector's
    chain,        \* by version, the snapshot that is the actor's state (what a client
                  \* was told, and what recovery took up)
    budget          \* what may still happen

store == <<whole, late, segments, checkpoints>>
historyVars == <<rapid, written, store, owner, sqlite, live, progress, reader, chain, budget>>

Epoch(k) == k[1]
Version(k) == k[2]

Use(what) == budget[what] > 0 /\ budget' = [budget EXCEPT ![what] = @ - 1]

\* A step that goes wrong in a way the code goes on from.
Failing(fails) == IF fails THEN Use("failures") ELSE UNCHANGED budget

-----------------------------------------------------------------------------
(* LTX files. Level 9 and the first file of a history hold every page, so   *)
(* they stand for a whole state; the others hold what their transactions    *)
(* wrote.                                                                   *)
LtxFile(level, first, last, data) ==
    [level |-> level, first |-> first, last |-> last, data |-> data]

Bytes(files) == FoldLeft(LAMBDA n, f : n + Len(f.data), 0, files)

\* What a snapshot adds to its files when it is encoded: header, attribution and result.
HeaderBytes == 1

\* What terse_litestream restores from the files, and what compaction makes of them.
Applied(files) ==
    FoldLeft(LAMBDA state, f : IF f.first = 1 THEN f.data ELSE state \o f.data, <<>>, files)

\* SqliteSnapshot::validate: the files are a run of transactions that ends at txid.
Contiguous(files, txid) ==
    /\ files # <<>>
    /\ \A i \in 2 .. Len(files) : files[i].first = files[i - 1].last + 1
    /\ files[Len(files)].last = txid

Compacted(files) == LtxFile(9, 1, files[Len(files)].last, Applied(files))

-----------------------------------------------------------------------------
(* The capture of a resident database.                                      *)

\* SqliteCapture::open at the position a restored history is resumed at, or at 0.
Opened(state, position) ==
    [state |-> state, position |-> position, published |-> position, files |-> {}]

\* A commit and its sync: one more transaction, whose file is a full copy if it is the
\* first of a history. A bucket's capture adds a full copy once its interval is over.
Synced(d, write, full) ==
    LET txid == d.position + 1
        state == Append(d.state, write)
        delta == LtxFile(0, txid, txid, IF d.position = 0 THEN state ELSE <<write>>)
    IN [d EXCEPT !.state = state, !.position = txid,
          !.files = @ \cup {delta} \cup (IF full THEN {LtxFile(9, 1, txid, state)} ELSE {})]

\* read_ltx_files and collect_ltx_files: the newest full copy and what follows it.
Collected(d, txid) ==
    LET new(level) == {f \in d.files : f.level = level /\ f.last \in d.published + 1 .. txid}
        full == {f \in new(9) : \A g \in new(9) : g.last <= f.last}
        from == IF full = {} THEN d.published + 1
                ELSE (CHOOSE f \in full : TRUE).last + 1
        Before(f, g) == f.first < g.first
    IN SetToSeq(full) \o SetToSortSeq({f \in new(0) : f.last >= from}, Before)

\* SqliteCapture::capture: what was captured is pruned from the local replica.
Captured(d, txid) ==
    [d EXCEPT !.published = txid, !.files = {f \in @ : f.last > txid}]

-----------------------------------------------------------------------------
(* Where a snapshot is found.                                               *)

Appended(s) == segments[s].first .. segments[s].first + segments[s].count - 1

Log(epoch) == {s \in DOMAIN segments : segments[s].epoch = epoch}

\* LogStorage::records: every record of the epoch's segments, archived or in a zone.
Records(epoch) == UNION {Appended(s) : s \in Log(epoch)}

\* Objects of the actor's prefix that name a version: RapidSnapshots::list.
Stored == whole \cup UNION {{<<segments[s].epoch, v>> : v \in Appended(s)} : s \in DOMAIN segments}

\* live_range: the record's place and those the host appended right before it to the
\* same segment, down to `first`, as one range; what decoding that range yields.
LiveRange(k, first) ==
    LET v == Version(k)
        run == {w \in DOMAIN live \cap first .. v :
                  /\ v - w < BatchBytes \/ w = v
                  /\ \A u \in DOMAIN live \cap w .. v :
                        /\ live[u].segment = live[v].segment
                        /\ live[v].start - live[u].start = v - u}
        place == live[v].segment
    IN {segments[place].first + live[w].start : w \in run \cup {v}}

\* live_records: nothing where the record is another's, or its segment's zones are gone.
LiveReads(r, k, first) ==
    IF /\ r \in {"host", "task"} /\ Version(k) \in DOMAIN live
       /\ segments[live[Version(k)].segment].epoch = Epoch(k)
       /\ ~segments[live[Version(k)].segment].gone
    THEN {LiveRange(k, first)} ELSE {}

\* index_keys.
IndexKeys(epoch) == UNION {segments[s].indexes : s \in Log(epoch)}

\* Index::range: what decoding the part of a batch that ends with version v yields.
IndexRange(key, first, v) ==
    {w \in key[1] .. v : w >= first /\ v - w < BatchBytes} \cup {v}

\* indexed_records: by an index whose versions (index_segment) include the record's.
IndexReads(k, first, keys) ==
    {IndexRange(key, first, Version(k)) : key \in {key \in keys : Version(k) \in key[1] .. key[2]}}

-----------------------------------------------------------------------------
(* resolve: from a snapshot back through its parents to a checkpoint or a   *)
(* full copy. A LogHistory lists an epoch once, at the first read from it,  *)
(* and keeps what its ranged reads and scans bring.                         *)

NotReading == [state |-> "idle", key |-> NoKey, at |-> NoKey, prefetched |-> {}, epochs |-> <<>>,
         files |-> <<>>, base |-> 0]

\* prefetched: {} or what a prefetch found, {NoKey} if there was no checkpoint.
Resolving(k, prefetched) ==
    [NotReading EXCEPT !.state = "probe", !.key = k, !.at = k, !.prefetched = prefetched]

Listed(r, epoch) == epoch \in DOMAIN reader[r].epochs

\* LogHistory::checkpoint: an epoch that is listed is not probed for what it lacks. The
\* checkpoint is for its source alone.
Checkpointed(r, k) ==
    /\ Listed(r, Epoch(k)) => Version(k) \in reader[r].epochs[Epoch(k)].checkpoints
    /\ k \in DOMAIN checkpoints

\* One round of the loop: a full snapshot and a checkpoint end it.
Probe(r) ==
    /\ reader[r].state = "probe"
    /\ LET k == reader[r].at
           found == IF reader[r].prefetched # {} THEN NoKey \notin reader[r].prefetched
                    ELSE Checkpointed(r, k)
           last(files) == reader' = [reader EXCEPT ![r].state = "done",
                             ![r].files = files \o @, ![r].base = Bytes(files)]
       IN IF written[k].parent = NoKey THEN last(written[k].files)
          ELSE IF found THEN last(<<checkpoints[k]>>)
          ELSE reader' = [reader EXCEPT ![r].state = "read", ![r].prefetched = {},
                            ![r].files = written[k].files \o @]
    /\ UNCHANGED <<rapid, written, store, owner, sqlite, live, progress, chain, budget>>

\* The first read from an epoch lists its checkpoints and its index keys; a listing of
\* indexes that fails finds none.
List(r) ==
    /\ rapid /\ reader[r].state = "read"
    /\ LET epoch == Epoch(written[reader[r].at].parent) IN
       /\ ~Listed(r, epoch)
       /\ \E fails \in BOOLEAN :
            /\ Failing(fails)
            /\ reader' = [reader EXCEPT ![r].epochs = (epoch :> [
                 checkpoints |-> {Version(k) : k \in {k \in DOMAIN checkpoints : Epoch(k) = epoch}},
                 indexes |-> IF fails THEN {} ELSE IndexKeys(epoch),
                 indexed |-> {}, records |-> {}]) @@ @]
    /\ UNCHANGED <<rapid, written, store, owner, sqlite, live, progress, chain>>

\* LogHistory::read: whether k was found, and what is then kept of its epoch e: from what
\* was kept, the live log, its object, a batch by its index, or all records. A ranged read
\* that fails falls back to the next way; a live range without the record ends the restore.
Found(r, k, e) ==
    LET v == Version(k)
        first == Max({0} \cup {w \in e.checkpoints : w <= v})
        ranged(vs) == <<v \in vs, [e EXCEPT !.indexed = vs \ {v}]>>
        all == Records(Epoch(k))
    IN IF v \in e.records THEN {<<TRUE, e>>}
       ELSE IF v \in e.indexed THEN {ranged(e.indexed)}
       ELSE {ranged(vs) : vs \in LiveReads(r, k, first)} \cup
            (IF k \in whole THEN {<<TRUE, e>>}
             ELSE {ranged(vs) : vs \in IndexReads(k, first, e.indexes)}
                  \cup {<<v \in all, [e EXCEPT !.records = all]>>})

\* The parent's bytes are read, and its transactions precede those after it.
Dependency(r) ==
    /\ reader[r].state = "read"
    /\ LET k == written[reader[r].at].parent
           follows == written[k].txid + 1 = reader[r].files[1].first
           next(found, epochs) ==
              reader' = [reader EXCEPT ![r].at = k, ![r].epochs = epochs,
                           ![r].state = IF found /\ follows THEN "probe" ELSE "broken"]
       IN IF ~rapid THEN next(k \in whole, <<>>)
          ELSE /\ Listed(r, Epoch(k))
               /\ \E way \in Found(r, k, reader[r].epochs[Epoch(k)]) :
                    next(way[1], [reader[r].epochs EXCEPT ![Epoch(k)] = way[2]])
    /\ UNCHANGED <<rapid, written, store, owner, sqlite, live, progress, chain, budget>>

-----------------------------------------------------------------------------
(* checkpoint::Progress.                                                    *)

NoTask == [version |-> 0, state |-> "none", bytes |-> 0]

NoProgress == [completed |-> 0, base |-> 0, logged |-> <<>>, task |-> NoTask, retry |-> FALSE]

Logged(p, version, bytes) ==
    [p EXCEPT !.logged = Append(@, [version |-> version, bytes |-> bytes])]

LogBytes(p) == FoldLeft(LAMBDA n, entry : n + entry.bytes, 0, p.logged)

Due(p, version) ==
    \/ version - p.completed >= MaxLogVersions
    \/ /\ version > p.completed
       /\ LogBytes(p) >= (IF p.base > MinLogBytes THEN p.base ELSE MinLogBytes)

\* Mutant: versions logged while the checkpoint was made are forgotten with the others.
CompletedAll(p, version, bytes) ==
    IF version <= p.completed THEN p
    ELSE [p EXCEPT !.completed = version, !.base = bytes, !.logged = <<>>]

\* Progress::completed.
Completed(p, version, bytes) ==
    IF version <= p.completed THEN p
    ELSE [p EXCEPT !.completed = version, !.base = bytes,
            !.logged = SelectSeq(@, LAMBDA entry : entry.version > version)]

\* Mutant: a task that failed stays the one under way.
CollectDone(p) ==
    IF p.task.state = "done"
    THEN [Completed(p, p.task.version, p.task.bytes) EXCEPT !.task = NoTask, !.retry = FALSE]
    ELSE p

\* Progress::collect: a task that failed is tried again after five seconds.
Collect(p) ==
    CASE p.task.state = "done" ->
           [Completed(p, p.task.version, p.task.bytes) EXCEPT !.task = NoTask, !.retry = FALSE]
      [] p.task.state = "failed" -> [p EXCEPT !.task = NoTask, !.retry = TRUE]
      [] OTHER -> p

TaskStarted(p, version) == [p EXCEPT !.task = [NoTask EXCEPT !.version = version, !.state = "begun"]]

\* Progress::schedule, for a host whose latest snapshot is `version`.
Schedule(p, version) ==
    LET c == Collect(p) IN
    IF c.task = NoTask /\ Due(c, version) /\ ~c.retry THEN TaskStarted(c, version) ELSE c

\* LogStorage::checkpoint: there is nothing to write for a full snapshot or where another
\* has written it; otherwise the state is put together first.
TaskBegins ==
    /\ progress.task.state = "begun"
    /\ LET k == chain[progress.task.version]
           ends(bytes) == /\ progress' = [progress EXCEPT !.task.state = "done",
                                                          !.task.bytes = bytes]
                          /\ reader' = [reader EXCEPT !.task = NotReading]
       IN IF written[k].parent = NoKey THEN ends(Bytes(written[k].files))
          ELSE IF k \in DOMAIN checkpoints THEN ends(Bytes(<<checkpoints[k]>>))
          ELSE /\ reader' = [reader EXCEPT !.task = Resolving(k, {})]
               /\ progress' = [progress EXCEPT !.task.state = "resolving"]
    /\ UNCHANGED <<rapid, written, store, owner, sqlite, live, chain, budget>>

\* One file replaces the history. The put fails if other bytes are stored already: those
\* of the same state, but not always the same file.
Put(k, files) ==
    checkpoints' = IF k \in DOMAIN checkpoints THEN checkpoints
                   ELSE (k :> Compacted(files)) @@ checkpoints

TaskPuts ==
    /\ progress.task.state = "resolving" /\ reader.task.state = "done"
    /\ LET k == reader.task.key IN
       /\ Put(k, reader.task.files)
       /\ \E state \in {"done"} \cup (IF k \in DOMAIN checkpoints THEN {"failed"} ELSE {}) :
            progress' = [progress EXCEPT !.task.state = state,
                           !.task.bytes = Bytes(<<Compacted(reader.task.files)>>)]
    /\ reader' = [reader EXCEPT !.task = NotReading]
    /\ UNCHANGED <<rapid, written, whole, late, segments, owner, sqlite, live, chain, budget>>

\* A request fails or the two minutes are over; the put may have been done.
TaskFails ==
    /\ progress.task.state \in {"begun", "resolving"}
    /\ Use("failures")
    /\ \/ UNCHANGED checkpoints
       \/ reader.task.state = "done" /\ Put(reader.task.key, reader.task.files)
    /\ progress' = [progress EXCEPT !.task.state = "failed"]
    /\ reader' = [reader EXCEPT !.task = NotReading]
    /\ UNCHANGED <<rapid, written, whole, late, segments, owner, sqlite, live, chain>>

\* The checkpoint a fenced host was writing.
StrayPuts ==
    /\ reader.stray.state = "done"
    /\ Put(reader.stray.key, reader.stray.files)
    /\ reader' = [reader EXCEPT !.stray = NotReading]
    /\ UNCHANGED <<rapid, written, whole, late, segments, owner, sqlite, live, progress,
                   chain, budget>>

-----------------------------------------------------------------------------
(* The host: activation, commits, archiving, and the end of its session.    *)

NoOwner(epoch, sealed) ==
    [epoch |-> epoch, state |-> "none", version |-> 0, sealed |-> sealed,
     standard |-> FALSE, segment |-> 0, head |-> NoKey]

\* Everything appended is archived and indexed, and the segment closed: what recovery does
\* for a segment of the last owner, and the end of a session for its own.
Retired(s) ==
    LET g == segments[s]
        rest == IF g.archived = g.count THEN {}
                ELSE {<<g.first + g.archived, g.first + g.count - 1>>}
    IN [g EXCEPT !.archived = g.count, !.closed = TRUE, !.unindexed = {},
          !.indexes = @ \cup rest]

RetiredLog(epoch) ==
    [s \in DOMAIN segments |-> IF s \in Log(epoch) THEN Retired(s) ELSE segments[s]]

\* The snapshot an activation starts from: the sealed one, or the newest that recovery of
\* the last owner's prefix finds.
Recovered ==
    LET found == {k \in Stored : Epoch(k) = owner.epoch}
    IN IF owner.sealed \/ found = {}
       THEN IF chain = <<>> THEN NoKey ELSE chain[Len(chain)]
       ELSE CHOOSE k \in found : \A l \in found : Version(l) <= Version(k)

Activate ==
    /\ owner.state = "none"
    /\ LET k == Recovered
           version == IF k = NoKey THEN 0 ELSE Version(k)
           prefetches == IF ~rapid \/ ~owner.sealed \/ k = NoKey THEN {{}}
                         ELSE {{}, {IF k \in DOMAIN checkpoints THEN k ELSE NoKey}}
       IN /\ segments' = IF owner.sealed THEN segments ELSE RetiredLog(owner.epoch)
          /\ whole' = IF owner.sealed \/ k = NoKey \/ Epoch(k) # owner.epoch THEN whole
                      ELSE whole \cup {k}
          /\ chain' = IF version > Len(chain) THEN Append(chain, k) ELSE chain
          /\ \E standard \in IF rapid THEN BOOLEAN ELSE {FALSE} :
               /\ budget.epochs > 0 /\ (standard => budget.failures > 0)
               /\ budget' = [budget EXCEPT !.epochs = @ - 1,
                             !.failures = IF standard THEN @ - 1 ELSE @]
               /\ owner' = [NoOwner(owner.epoch + 1, FALSE) EXCEPT !.version = version,
                              !.state = IF k = NoKey THEN "up" ELSE "restoring",
                              !.standard = standard]
          /\ \E prefetched \in prefetches :
               reader' = [reader EXCEPT !.host =
                            IF k = NoKey THEN NotReading ELSE Resolving(k, prefetched)]
    /\ sqlite' = Opened(<<>>, 0)
    /\ UNCHANGED <<rapid, written, late, checkpoints, live, progress>>

\* Progress::restored, from where the restore ended.
Restored(h) ==
    LET from == [NoProgress EXCEPT !.completed = Version(h.at), !.base = h.base]
    IN IF Version(h.key) > from.completed
       THEN Logged(from, Version(h.key), Bytes(h.files) - h.base) ELSE from

\* resume_parent and open_capture: only a Rapid history goes on across activations, and
\* not if it cannot be resumed.
Resumes == IF rapid THEN BOOLEAN ELSE {FALSE}

\* full_snapshots: only a bucket's capture adds full copies.
FullCopies == IF rapid THEN {FALSE} ELSE BOOLEAN

\* Session::latest: the session has restored a snapshot or logged one.
Latest == progress # NoProgress

\* The session is neither ended nor being finished.
Serving == Latest /\ owner.state \in {"up", "restoring"}

\* load_cached, and Session::restored, which counts only the first restore of a session.
LoadState ==
    /\ owner.state = "restoring" /\ reader.host.state = "done"
    /\ LET h == reader.host
       IN /\ progress' = IF rapid /\ ~Latest THEN Schedule(Restored(h), owner.version)
                         ELSE progress
          /\ \E resumed \in Resumes :
               /\ Failing(rapid /\ ~resumed)
               /\ sqlite' = Opened(Applied(h.files),
                                     IF resumed THEN written[h.key].txid ELSE 0)
               /\ owner' = [owner EXCEPT !.state = "up",
                              !.head = IF resumed THEN h.key ELSE NoKey]
    /\ reader' = [reader EXCEPT !.host = NotReading]
    /\ UNCHANGED <<rapid, written, store, live, chain>>

\* DatabaseSession::reset: the resident database is dropped with what was not published,
\* and the next request loads the latest snapshot while the session and its log go on.
Reset ==
    /\ owner.state = "up" /\ owner.version > 0
    /\ Use("failures")
    /\ sqlite' = Opened(<<>>, 0)
    /\ owner' = [owner EXCEPT !.state = "restoring", !.head = NoKey]
    /\ reader' = [reader EXCEPT !.host = Resolving(chain[owner.version], {})]
    /\ UNCHANGED <<rapid, written, store, live, progress, chain>>

Commit ==
    /\ owner.state = "up"
    /\ Use("writes")
    /\ \E full \in FullCopies :
         sqlite' = Synced(sqlite, <<owner.epoch, sqlite.position + 1>>, full)
    /\ UNCHANGED <<rapid, written, store, owner, live, progress, reader, chain>>

\* ResidentDatabase::capture_sqlite.
Snapshot(txid) ==
    LET files == Collected(sqlite, txid)
        state == SubSeq(sqlite.state, 1, Len(sqlite.state) - (sqlite.position - txid))
    IN [txid |-> txid, files |-> files, state |-> state,
        parent |-> IF files[1].first = 1 THEN NoKey ELSE owner.head]

\* Mutant: the place of a record is where the next one starts.
RememberedEnd(version, place) ==
    LET all == (version :> [place EXCEPT !.start = @ + 1]) @@ live
    IN [v \in {v \in DOMAIN all : Cardinality({w \in DOMAIN all : w > v}) < LiveRecords} |->
          all[v]]

\* LogStorage::remember.
Remembered(version, place) ==
    LET all == (version :> place) @@ live
    IN [v \in {v \in DOMAIN all : Cardinality({w \in DOMAIN all : w > v}) < LiveRecords} |->
          all[v]]

\* The log with a segment opened for the record, if it is the first.
OpenedFor(version) ==
    IF owner.segment # 0 THEN segments
    ELSE Append(segments, [epoch |-> owner.epoch, first |-> version, count |-> 0, archived |-> 0,
                           unindexed |-> {}, indexes |-> {}, closed |-> FALSE, gone |-> FALSE])

Current(log) == IF owner.segment # 0 THEN owner.segment ELSE Len(log)

\* Segment::append.
AppendRecord(version) ==
    LET opened == OpenedFor(version)
        s == Current(opened)
    IN /\ segments' = [opened EXCEPT ![s].count = @ + 1]
       /\ live' = Remembered(version, [segment |-> s, start |-> opened[s].count])
       /\ owner' = [owner EXCEPT !.version = version, !.segment = s,
                      !.head = <<owner.epoch, version>>]
       /\ UNCHANGED whole

StoreWhole(version) ==
    /\ whole' = whole \cup {<<owner.epoch, version>>}
    /\ owner' = [owner EXCEPT !.version = version, !.head = <<owner.epoch, version>>]
    /\ UNCHANGED <<segments, live>>

\* A commit is published: the transactions since the last are captured and stored.
PublishCommit(txid) ==
    /\ owner.state = "up"
    /\ txid \in sqlite.published + 1 .. sqlite.position
    /\ LET version == owner.version + 1
           k == <<owner.epoch, version>>
           snapshot == Snapshot(txid)
       IN /\ Contiguous(snapshot.files, txid)
          /\ written' = (k :> snapshot) @@ written
          /\ IF rapid /\ ~owner.standard THEN AppendRecord(version) ELSE StoreWhole(version)
          /\ progress' = IF rapid
                         THEN Schedule(Logged(progress, version, Bytes(snapshot.files) + HeaderBytes),
                                       version)
                         ELSE progress
          /\ chain' = Append(chain, k)
    /\ sqlite' = Captured(sqlite, txid)
    /\ UNCHANGED <<rapid, late, checkpoints, reader, budget>>

\* The host's session is over: its cache, its restore and its checkpoint go with it,
\* unless the host is only fenced and goes on with the checkpoint.
HostEnded(sealed, stray) ==
    /\ owner' = NoOwner(owner.epoch, sealed)
    /\ live' = <<>>
    /\ progress' = NoProgress
    /\ sqlite' = Opened(<<>>, 0)
    /\ reader' = [reader EXCEPT !.host = NotReading, !.task = NotReading,
                    !.stray = IF stray THEN reader.task ELSE @]
    /\ UNCHANGED <<rapid, checkpoints>>

Stray == IF reader.stray.state = "idle" /\ reader.task.state # "idle" THEN BOOLEAN ELSE {FALSE}

\* The put of a commit fails: nothing was stored, or all was, or a bucket stores it yet.
\* A Rapid session without zones puts to a bucket as well.
PublishFails ==
    /\ owner.state = "up"
    /\ Use("crashes")
    /\ sqlite.position > sqlite.published
    /\ LET version == owner.version + 1
           k == <<owner.epoch, version>>
       IN /\ written' = (k :> Snapshot(sqlite.position)) @@ written
          /\ \/ UNCHANGED <<whole, late, segments>>
             \/ /\ ~rapid \/ owner.standard
                /\ \/ late' = late \cup {k} /\ UNCHANGED whole
                   \/ whole' = whole \cup {k} /\ UNCHANGED late
                /\ UNCHANGED segments
             \/ /\ rapid /\ ~owner.standard
                /\ LET opened == OpenedFor(version)
                   IN segments' = [opened EXCEPT ![Current(opened)].count = @ + 1]
                /\ UNCHANGED <<whole, late>>
    /\ \E stray \in Stray : HostEnded(FALSE, stray)
    /\ UNCHANGED chain

LateLands ==
    /\ \E k \in late : whole' = whole \cup {k} /\ late' = late \ {k}
    /\ UNCHANGED <<rapid, written, segments, checkpoints, owner, sqlite, live, progress,
                   reader, chain, budget>>

\* The host crashes, or loses its lease and stops.
Stops ==
    /\ owner.state # "none"
    /\ Use("crashes")
    /\ \E stray \in Stray : HostEnded(FALSE, stray)
    /\ UNCHANGED <<written, whole, late, segments, chain>>

\* put_batch, and the index it writes next.
PutBatch(s) ==
    /\ owner.state \in {"up", "restoring"} /\ segments[s].epoch = owner.epoch
    /\ segments[s].unindexed = {}
    /\ \E n \in segments[s].archived + 1 .. segments[s].count :
         segments' = [segments EXCEPT ![s].archived = n,
                        ![s].unindexed = {<<segments[s].first + segments[s].archived,
                                            segments[s].first + n - 1>>}]
    /\ UNCHANGED <<rapid, written, whole, late, checkpoints, owner, sqlite, live, progress,
                   reader, chain, budget>>

IndexBatch(s) ==
    /\ owner.state \in {"up", "restoring"} /\ segments[s].epoch = owner.epoch
    /\ segments[s].unindexed # {}
    /\ segments' = [segments EXCEPT ![s].unindexed = {},
                      ![s].indexes = @ \cup segments[s].unindexed]
    /\ UNCHANGED <<rapid, written, whole, late, checkpoints, owner, sqlite, live, progress,
                   reader, chain, budget>>

\* A segment that is closed and archived is deleted from its zones.
CleanSegment(s) ==
    /\ segments[s].closed /\ ~segments[s].gone
    /\ segments[s].archived = segments[s].count /\ segments[s].unindexed = {}
    /\ segments' = [segments EXCEPT ![s].gone = TRUE]
    /\ UNCHANGED <<rapid, written, whole, late, checkpoints, owner, sqlite, live, progress,
                   reader, chain, budget>>

Rotate ==
    /\ owner.state \in {"up", "restoring"} /\ owner.segment # 0
    /\ Use("rotations")
    /\ segments' = [segments EXCEPT ![owner.segment].closed = TRUE]
    /\ owner' = [owner EXCEPT !.segment = 0]
    /\ UNCHANGED <<rapid, written, whole, late, checkpoints, sqlite, live, progress, reader,
                   chain>>

\* start_rotation schedules once a second, from the latest snapshot.
Tick ==
    /\ rapid /\ Serving
    /\ Schedule(progress, owner.version) # progress
    /\ progress' = Schedule(progress, owner.version)
    /\ UNCHANGED <<rapid, written, store, owner, sqlite, live, reader, chain, budget>>

RetryDue ==
    /\ progress.retry
    /\ progress' = [progress EXCEPT !.retry = FALSE]
    /\ UNCHANGED <<rapid, written, store, owner, sqlite, live, reader, chain, budget>>

\* Session::finish: the log is archived and the latest snapshot stored, then a checkpoint
\* of it is waited for; one of an earlier version is aborted, its put done or not.
Drain ==
    /\ owner.state = "up"
    /\ owner' = [owner EXCEPT !.state = "draining"]
    /\ IF ~rapid \/ owner.version = 0 THEN UNCHANGED <<store, progress, reader>>
       ELSE LET p == Collect(progress)
                superseded == p.task # NoTask /\ p.task.version # owner.version
            IN /\ segments' = RetiredLog(owner.epoch)
               /\ whole' = whole \cup {chain[owner.version]}
               /\ \/ UNCHANGED checkpoints
                  \/ /\ superseded /\ reader.task.state = "done"
                     /\ Put(reader.task.key, reader.task.files)
               /\ reader' = IF superseded THEN [reader EXCEPT !.task = NotReading] ELSE reader
               /\ progress' = IF p.completed < owner.version /\ (superseded \/ p.task = NoTask)
                              THEN TaskStarted(p, owner.version) ELSE p
               /\ UNCHANGED late
    /\ UNCHANGED <<rapid, written, sqlite, live, chain, budget>>

\* The checkpoint is there, failed, or not there by the deadline: the session is sealed.
Seal ==
    /\ owner.state = "draining"
    /\ HostEnded(TRUE, FALSE)
    /\ UNCHANGED <<written, whole, late, segments, chain, budget>>

-----------------------------------------------------------------------------
(* An inspection reads the newest stored snapshot of a version, or of all.  *)

\* stored_versions: newest first, and only the newest of a version.
Newer(k, l) ==
    Epoch(k) > Epoch(l) \/ (Epoch(k) = Epoch(l) /\ Version(k) > Version(l))

\* Mutant: the oldest of a version is kept.
StoredVersionsOldest ==
    {k \in Stored : \A l \in Stored : Version(l) = Version(k) /\ l # k => Newer(l, k)}

StoredVersions ==
    {k \in Stored : \A l \in Stored : Version(l) = Version(k) /\ l # k => Newer(k, l)}

Inspect(asked) ==
    /\ reader.viewer = NotReading
    /\ Use("looks")
    /\ LET found == {k \in StoredVersions : asked \in {0, Version(k)}} IN
       \E k \in found :
          /\ \A l \in found : l # k => Newer(k, l)
          /\ reader' = [reader EXCEPT !.viewer = Resolving(k, {})]
    /\ UNCHANGED <<rapid, written, store, owner, sqlite, live, progress, chain>>

InspectEnds ==
    /\ reader.viewer.state = "done"
    /\ reader' = [reader EXCEPT !.viewer = NotReading]
    /\ UNCHANGED <<rapid, written, store, owner, sqlite, live, progress, chain, budget>>

\* A client walks through the history, a page at a time, from what is stored by then.
PageBegins ==
    /\ reader.viewer = NotReading
    /\ Use("looks")
    /\ reader' = [reader EXCEPT !.viewer =
                    [state |-> "paging", before |-> 0, seen |-> <<>>, upto |-> Len(chain)]]
    /\ UNCHANGED <<rapid, written, store, owner, sqlite, live, progress, chain>>

\* state_history: the next page ends before the last version of this one. The .metadata of a
\* snapshot, if it is kept, says what the snapshot says.
Page(limit) ==
    /\ reader.viewer.state = "paging"
    /\ LET v == reader.viewer
           asked == {k \in StoredVersions : v.before = 0 \/ Version(k) < v.before}
           records == SetToSortSeq(asked, Newer)
           shown == SubSeq(records, 1, Min({limit, Len(records)}))
           more == Len(records) > limit
       IN reader' = [reader EXCEPT !.viewer =
                       [v EXCEPT !.seen = @ \o shown,
                          !.before = IF more THEN Version(Last(shown)) ELSE 0,
                          !.state = IF more THEN "paging" ELSE "paged"]]
    /\ UNCHANGED <<rapid, written, store, owner, sqlite, live, progress, chain, budget>>

PagesEnd ==
    /\ reader.viewer.state = "paged"
    /\ reader' = [reader EXCEPT !.viewer = NotReading]
    /\ UNCHANGED <<rapid, written, store, owner, sqlite, live, progress, chain, budget>>

-----------------------------------------------------------------------------
HistoryStart(stores, budgets) ==
    /\ rapid \in stores
    /\ budget \in budgets
    /\ written = <<>> /\ whole = {} /\ late = {} /\ segments = <<>> /\ checkpoints = <<>>
    /\ owner = NoOwner(0, TRUE)
    /\ sqlite = Opened(<<>>, 0)
    /\ live = <<>> /\ progress = NoProgress /\ chain = <<>>
    /\ reader = [r \in {"host", "task", "stray", "viewer"} |-> NotReading]

Restoring == \E r \in DOMAIN reader : Probe(r) \/ List(r) \/ Dependency(r)

Checkpointing == TaskBegins \/ TaskPuts \/ Tick \/ RetryDue

HistoryNext ==
    \/ Restoring \/ Checkpointing
    \/ TaskFails \/ StrayPuts
    \/ Activate \/ LoadState \/ Reset \/ Commit \/ Rotate \/ Drain \/ Seal
    \/ \E txid \in 1 .. sqlite.position : PublishCommit(txid)
    \/ PublishFails \/ LateLands \/ Stops
    \/ \E s \in DOMAIN segments : PutBatch(s) \/ IndexBatch(s) \/ CleanSegment(s)
    \/ \E asked \in 0 .. Len(chain) + 1 : Inspect(asked)
    \/ InspectEnds
    \/ PageBegins \/ PagesEnd
    \/ \E limit \in 1 .. PageLimit : Page(limit)

HistoryFairness == WF_historyVars(Restoring) /\ WF_historyVars(Checkpointing)

-----------------------------------------------------------------------------
(* A restore ends with exactly the state of the snapshot it was asked for,  *)
(* and never fails for want of a dependency, wherever the snapshots are     *)
(* found while the log is archived, rotated and deleted and checkpoints     *)
(* come (resolve, LogHistory::read).                                        *)
RestoresExactly ==
    \A r \in DOMAIN reader :
        /\ reader[r].state # "broken"
        /\ reader[r].state = "done" =>
              LET k == reader[r].key IN
              /\ Contiguous(reader[r].files, written[k].txid)
              /\ Applied(reader[r].files) = written[k].state

(* What a host believes of its checkpoints is true: the version it calls    *)
(* complete needs no parent to be restored, and the log it counts is what   *)
(* was logged since: the files of the versions its restore replayed and the *)
(* encoded snapshots of its own, though it was reset meanwhile (Progress,   *)
(* Session::put, Session::restored).                                        *)
ProgressTruthful ==
    rapid /\ Latest =>
        LET c == progress.completed
            size(k) == Bytes(written[k].files)
                       + (IF Epoch(k) = owner.epoch THEN HeaderBytes ELSE 0)
            logged == [i \in 1 .. owner.version - c |-> size(chain[c + i])]
        IN /\ c > 0 => written[chain[c]].parent = NoKey \/ chain[c] \in DOMAIN checkpoints
           /\ LogBytes(progress) = FoldLeft(LAMBDA n, b : n + b, 0, logged)

(* An inspection of a version the actor has reached shows the snapshot that *)
(* is its state, never one a fenced host stored of the same version, and a  *)
(* walk through the pages shows each version the actor had reached when it  *)
(* began once, newest first, whatever is stored meanwhile (stored_versions, *)
(* state_history).                                                          *)
InspectsHistory ==
    [][LET v == reader'.viewer IN
       CASE v.state \in {"idle", "paging"} -> TRUE
         [] v.state = "paged" ->
              SelectSeq(v.seen, LAMBDA k : Version(k) <= v.upto)
                  = [i \in 1 .. v.upto |-> chain[v.upto + 1 - i]]
         [] OTHER ->
              reader.viewer = NotReading /\ Version(v.key) <= Len(chain) => v.key = chain[Version(v.key)]
      ]_historyVars

(* A checkpoint that is due is made in the end, however its tasks failed,   *)
(* while the host stays up (schedule, collect).                             *)
CheckpointsCatchUp ==
    (rapid /\ Serving /\ Due(progress, owner.version))
        ~> (~Serving \/ ~Due(progress, owner.version))
==============================================================================
