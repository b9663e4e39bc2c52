----------------------------- MODULE IngestRun -----------------------------
(***************************************************************************)
(* Collector runs against one source: the fetch behind a stored cursor, the*)
(* evidence ledger, the checkpoints of the batch and the cursor that is    *)
(* saved behind it.  Three drivers run the same loop and differ in their   *)
(* transactions and in what they do when an item fails:                    *)
(*   "job"      CadenceScheduler._run_collectors: swallows the failure and *)
(*              commits the session;                                       *)
(*   "trigger"  POST /sources/{id}/trigger_sync and the CLI daemon: the    *)
(*              failure leaves the session, which rolls back;              *)
(*   "scan"     chainradar scan: a transaction per item, failed items are  *)
(*              counted and the cursor is saved all the same.              *)
(* Processing an item (resolution, scoring, ...) is one step here: what    *)
(* matters is that it commits or rolls back with the item's evidence.      *)
(***************************************************************************)
EXTENDS Collectors, Naturals, Sequences, FiniteSets, Functions

CONSTANTS
    Runs,           \* collector runs that may overlap on this source
    Drivers,        \* the drivers that may start each run
    Feed,           \* what the source publishes, version by version
    Poison,         \* items whose parsing raises until the parser is patched
    Sources,        \* the collectors that the source may have
    CommitEvery,    \* INGEST_COMMIT_EVERY
    MaxBucket,      \* bound: observation buckets that pass
    MaxFaults,      \* bound: crashes, aborts and failed fetches
    NoCursor        \* no cursor row yet

Versions == 1..Len(Feed)
Items    == UNION {Range(Feed[v]) : v \in Versions}
Published(v) == Range(Feed[v])
Exts     == {ExternalId(source, item) : source \in Sources, item \in Items}
Contents == {item.content : item \in Items}
Buckets  == 0..MaxBucket
Row      == [ext: Exts, content: Contents, bucket: Buckets]
\* The etag is the version that was fetched, 0 for none.
Cursor   == [etag: {0} \cup Versions, failures: 0..(MaxFaults + 1)]

Modes    == {"job", "trigger", "scan"}

ASSUME DriverAssumption ==
    /\ Drivers \in [Runs -> SUBSET Modes]
    /\ Sources # {} /\ Sources \subseteq {EthereumLists, ChainIdNetwork, RecentlyFunded}
ASSUME FeedAssumption ==
    /\ Feed \in Seq(Seq(Items))
    /\ Poison \subseteq Items
ASSUME BoundAssumption ==
    /\ CommitEvery \in Nat \ {0}
    /\ MaxBucket \in Nat
    /\ MaxFaults \in Nat
    /\ Feed # <<>>
    /\ NoCursor \notin Cursor

VARIABLES
    version,        \* what the source publishes now
    bucket,         \* the observation bucket of now
    poison,         \* Poison, until the parser is patched
    ledger,         \* committed evidence rows
    resolved,       \* committed work: items that were processed
    cursor,         \* committed cursor row
    run,            \* each run and its session
    collector,      \* this source's collector
    givenUp,        \* items that a scan or a swallowing fetch gave up on
    faults          \* faults so far

world == <<version, bucket, poison, collector>>
store == <<ledger, resolved>>
vars  == <<world, store, cursor, run, givenUp, faults>>

\* pend and done are flushed and not committed; pos items of batch are behind;
\* next is the etag to save; loaded is the cursor row the session read.
Idle == [pc |-> "idle", mode |-> "job", batch |-> <<>>, pos |-> 0, next |-> 0,
         loaded |-> NoCursor, pend |-> {}, done |-> {}]

TypeOK ==
    /\ version \in Versions
    /\ bucket \in Buckets
    /\ poison \subseteq Items
    /\ ledger \subseteq Row
    /\ resolved \subseteq Items
    /\ cursor \in Cursor \cup {NoCursor}
    /\ run \in [Runs -> [pc: {"idle", "fetch", "process", "wait"}, mode: Modes,
                         batch: Seq(Items), pos: Nat,
                         next: {0} \cup Versions, loaded: Cursor \cup {NoCursor},
                         pend: SUBSET Row, done: SUBSET Items]]
    /\ collector \in Sources
    /\ givenUp \subseteq Items
    /\ faults \in 0..MaxFaults

Init ==
    /\ version = 1
    /\ bucket = 0
    /\ poison = Poison
    /\ ledger = {}
    /\ resolved = {}
    /\ cursor = NoCursor
    /\ run = [r \in Runs |-> Idle]
    /\ collector \in Sources
    /\ givenUp = {}
    /\ faults = 0

-----------------------------------------------------------------------------
(* The world around the runs *)

SourceChanges ==
    /\ version < Len(Feed)
    /\ version' = version + 1
    /\ UNCHANGED <<bucket, poison, collector, store, cursor, run, givenUp, faults>>

BucketPasses ==
    /\ bucket < MaxBucket
    /\ bucket' = bucket + 1
    /\ UNCHANGED <<version, poison, collector, store, cursor, run, givenUp, faults>>

\* Runbook "Source parser breaks", step 4.
PatchParser ==
    /\ poison # {}
    /\ poison' = {}
    /\ UNCHANGED <<version, bucket, collector, store, cursor, run, givenUp, faults>>

-----------------------------------------------------------------------------
(* Fetch *)

StartRun(r, mode) ==
    /\ run[r].pc = "idle"
    /\ mode \in Drivers[r]
    /\ run' = [run EXCEPT ![r] = [Idle EXCEPT !.pc = "fetch", !.mode = mode, !.loaded = cursor]]
    /\ UNCHANGED <<world, store, cursor, givenUp, faults>>

Received(r, batch, etag) ==
    /\ run' = [run EXCEPT ![r].pc = "process", ![r].batch = batch, ![r].next = etag]
    /\ UNCHANGED <<world, store, cursor>>

LoadedEtag(r) == IF run[r].loaded = NoCursor THEN 0 ELSE run[r].loaded.etag

\* A collector that sends no etag saves none.
Etag == IF collector.etag THEN version ELSE 0

Unmodified(r) == collector.etag /\ LoadedEtag(r) = version

\* 304, or the whole of what is published.
FetchSucceeds(r) ==
    /\ run[r].pc = "fetch"
    /\ UNCHANGED <<givenUp, faults>>
    /\ Received(r, IF Unmodified(r) THEN <<>> ELSE Feed[version], Etag)

\* The collector's `except Exception: pass`: before the response the old etag
\* stands, while it is parsed the new one does, with the items parsed so far.
\* An answer that is an error has no items and no etag.
FetchSwallows(r) ==
    /\ run[r].pc = "fetch"
    /\ collector.swallows
    /\ faults < MaxFaults
    /\ faults' = faults + 1
    /\ \/ /\ \E etag \in {0, LoadedEtag(r)} : Received(r, <<>>, etag)
          /\ UNCHANGED givenUp
       \/ /\ ~ Unmodified(r)
          /\ \E n \in 0..(Len(Feed[version]) - 1) :
                LET parsed == SubSeq(Feed[version], 1, n)
                IN  /\ Received(r, parsed, Etag)
                    /\ givenUp' = givenUp \cup (Published(version) \ Range(parsed))

\* An ORM attribute is written only when it differs from what was loaded.
Written(loaded, current, new) == IF new = loaded THEN current ELSE new

\* run_collector_batch counts the failure; only the job commits the count.
FetchRaises(r) ==
    /\ run[r].pc = "fetch"
    /\ ~ collector.swallows
    /\ faults < MaxFaults
    /\ faults' = faults + 1
    /\ cursor' =
        IF run[r].mode # "job" THEN cursor
        ELSE IF cursor = NoCursor THEN [etag |-> 0, failures |-> 1]
        ELSE IF run[r].loaded = NoCursor THEN [cursor EXCEPT !.failures = @ + 1]
        ELSE [cursor EXCEPT !.failures = run[r].loaded.failures + 1]
    /\ run' = [run EXCEPT ![r] = Idle]
    /\ UNCHANGED <<world, store, givenUp>>

-----------------------------------------------------------------------------
(* Items *)

\* append_evidence returns an existing row on either key.
SameEvidence(row, item) ==
    row.ext = ExternalId(collector, item) \/ (row.content = item.content /\ row.bucket = bucket)

\* Mutant: reads what other sessions have not committed.
LedgeredDirty(r, item) ==
    \E row \in ledger \cup UNION {run[q].pend : q \in Runs} : SameEvidence(row, item)

Ledgered(r, item) == \E row \in ledger \cup run[r].pend : SameEvidence(row, item)

\* Mutant: no unique index, so an insert never waits.
HolderNone(r, item) == {}

\* The insert waits for another session that holds an uncommitted row of the
\* same key.
Holder(r, item) ==
    {q \in Runs \ {r} : /\ ~ Ledgered(r, item)
                        /\ \E row \in run[q].pend : SameEvidence(row, item)}

Current(r) == run[r].batch[run[r].pos + 1]
HasItem(r) == run[r].pc = "process" /\ run[r].pos < Len(run[r].batch)

RowOf(item) == [ext |-> ExternalId(collector, item), content |-> item.content, bucket |-> bucket]

\* A session that waits for the item's key is served before one that comes later.
Behind(r, item) ==
    /\ ~ Ledgered(r, item)
    /\ \E q \in Runs \ {r} : run[q].pc = "wait" /\ SameEvidence(RowOf(Current(q)), item)

\* Nobody holds a row of the item's key; an insert that waited goes on when its
\* holder rolled back.
Inserts(r) ==
    /\ \/ HasItem(r) /\ ~ Behind(r, Current(r))
       \/ run[r].pc = "wait" /\ ~ \E row \in ledger : SameEvidence(row, Current(r))
    /\ Holder(r, Current(r)) = {}

NewRows(r, item) ==
    IF Ledgered(r, item) THEN {}
    ELSE {RowOf(item)}

\* The transaction ends here: per item in a scan, every CommitEvery items
\* otherwise.
Checkpoint(r) == run[r].mode = "scan" \/ (run[r].pos + 1) % CommitEvery = 0

ProcessItem(r) ==
    /\ Inserts(r)
    /\ Current(r) \notin poison
    /\ LET rows == run[r].pend \cup NewRows(r, Current(r))
           work == run[r].done \cup {Current(r)}
       IN  IF Checkpoint(r)
           THEN /\ ledger' = ledger \cup rows
                /\ resolved' = resolved \cup work
                /\ run' = [run EXCEPT ![r].pc = "process", ![r].pos = @ + 1, ![r].pend = {}, ![r].done = {}]
           ELSE /\ run' = [run EXCEPT ![r].pc = "process", ![r].pos = @ + 1, ![r].pend = rows, ![r].done = work]
                /\ UNCHANGED store
    /\ UNCHANGED <<world, cursor, givenUp, faults>>

\* The run ends without reaching its cursor; rows is what it still commits.
EndFailed(r, rows, work) ==
    /\ ledger' = ledger \cup rows
    /\ resolved' = resolved \cup work
    /\ run' = [run EXCEPT ![r] = Idle]
    /\ UNCHANGED givenUp

\* A scan gives up on the item and goes on with the next.
SkipItem(r) ==
    /\ run' = [run EXCEPT ![r].pc = "process", ![r].pos = @ + 1]
    /\ givenUp' = givenUp \cup {Current(r)}
    /\ UNCHANGED store

\* Mutant: the failure is logged and the batch goes on.
ItemRaisesLogged(r) ==
    /\ Inserts(r)
    /\ Current(r) \in poison
    /\ run' = [run EXCEPT ![r].pc = "process", ![r].pos = @ + 1]
    /\ UNCHANGED <<world, store, cursor, givenUp, faults>>

\* The item was appended, then parsing it raised.
ItemRaises(r) ==
    /\ Inserts(r)
    /\ Current(r) \in poison
    /\ CASE run[r].mode = "job"     -> EndFailed(r, run[r].pend \cup NewRows(r, Current(r)), run[r].done)
         [] run[r].mode = "trigger" -> EndFailed(r, {}, {})
         [] run[r].mode = "scan"    -> SkipItem(r)
    /\ UNCHANGED <<world, cursor, faults>>

\* The database aborts the transaction: nothing after the checkpoint stands.
Abort(r) ==
    /\ IF run[r].mode = "scan" THEN SkipItem(r) ELSE EndFailed(r, {}, {})
    /\ UNCHANGED <<world, cursor>>

InsertWaits(r) ==
    /\ HasItem(r)
    /\ Holder(r, Current(r)) # {}
    /\ run' = [run EXCEPT ![r].pc = "wait"]
    /\ UNCHANGED <<world, store, cursor, givenUp, faults>>

\* The holder committed (unique violation), or waits for this session too and
\* PostgreSQL picks this one as the deadlock's victim.
InsertRefused(r) ==
    /\ run[r].pc = "wait"
    /\ \/ \E row \in ledger : SameEvidence(row, Current(r))
       \/ \E q \in Holder(r, Current(r)) : run[q].pc = "wait" /\ r \in Holder(q, Current(q))
    /\ Abort(r)
    /\ UNCHANGED faults

\* A conflict or a lost connection in the middle of an item.
TransactionAborts(r) ==
    /\ HasItem(r)
    /\ faults < MaxFaults
    /\ faults' = faults + 1
    /\ Abort(r)

-----------------------------------------------------------------------------
(* Cursor *)

\* Mutant: a success is counted as a failure.
SavedCursorFailure(r) ==
    IF cursor = NoCursor THEN [etag |-> run[r].next, failures |-> 1]
    ELSE [cursor EXCEPT !.etag = run[r].next, !.failures = @ + 1]

\* save_cursor, committed with what is pending.  A job or a trigger holds the
\* row it loaded when it started; a scan reads it again.
SavedCursor(r) ==
    LET seen == IF run[r].mode = "scan" \/ run[r].loaded = NoCursor THEN cursor ELSE run[r].loaded
        etag == IF run[r].next # 0 THEN run[r].next
                ELSE IF seen = NoCursor THEN 0 ELSE seen.etag
    IN  IF seen = NoCursor THEN [etag |-> etag, failures |-> 0]
        ELSE [etag     |-> Written(seen.etag, cursor.etag, etag),
              failures |-> Written(seen.failures, cursor.failures, 0)]

\* Mutant: the cursor is saved before the batch is through.
SaveCursorEarly(r) ==
    /\ run[r].pc = "process"
    /\ cursor' = SavedCursor(r)
    /\ ledger' = ledger \cup run[r].pend
    /\ resolved' = resolved \cup run[r].done
    /\ run' = [run EXCEPT ![r] = Idle]
    /\ UNCHANGED <<world, givenUp, faults>>

SaveCursor(r) ==
    /\ run[r].pc = "process"
    /\ run[r].pos = Len(run[r].batch)
    /\ cursor' = SavedCursor(r)
    /\ ledger' = ledger \cup run[r].pend
    /\ resolved' = resolved \cup run[r].done
    /\ run' = [run EXCEPT ![r] = Idle]
    /\ UNCHANGED <<world, givenUp, faults>>

\* The process stops: the session's transaction is rolled back.
Crash(r) ==
    /\ run[r].pc # "idle"
    /\ faults < MaxFaults
    /\ faults' = faults + 1
    /\ run' = [run EXCEPT ![r] = Idle]
    /\ UNCHANGED <<world, store, cursor, givenUp>>

-----------------------------------------------------------------------------

Progress(r) ==
    \/ FetchSucceeds(r)
    \/ ProcessItem(r)
    \/ ItemRaises(r)
    \/ InsertWaits(r)
    \/ InsertRefused(r)
    \/ SaveCursor(r)

Fault(r) ==
    \/ FetchSwallows(r)
    \/ FetchRaises(r)
    \/ TransactionAborts(r)
    \/ Crash(r)

Next ==
    \/ \E r \in Runs :
        \/ \E mode \in Modes : StartRun(r, mode)
        \/ Progress(r)
        \/ Fault(r)
    \/ SourceChanges
    \/ BucketPasses
    \/ PatchParser

Spec == Init /\ [][Next]_vars

\* The cron trigger starts jobs again and again, a started run takes its steps,
\* and a broken parser is patched in the end.
FairSpec ==
    /\ Spec
    /\ WF_vars(PatchParser)
    /\ \A r \in Runs : WF_vars(StartRun(r, "job")) /\ WF_vars(Progress(r))

-----------------------------------------------------------------------------
(* Properties *)

\* Only what a driver gave up on is ever skipped: every other item that the
\* saved etag covers was processed, whatever crashed, aborted or overlapped.
CursorSafe ==
    cursor # NoCursor /\ cursor.etag # 0 =>
        Published(cursor.etag) \subseteq resolved \cup givenUp

\* "The cursor is advanced only after the evidence transaction commits, so a
\* crash mid-batch replays from the last safe position instead of skipping
\* events" (run_collector_batch): what the saved etag covers was processed.
NothingSkipped == cursor # NoCursor /\ cursor.etag # 0 => Published(cursor.etag) \subseteq resolved

\* Replays, overlapping runs and retries never ledger one event twice.
OneRowPerEvent ==
    \A r1, r2 \in ledger :
        (r1.ext = r2.ext \/ (r1.content = r2.content /\ r1.bucket = r2.bucket)) => r1 = r2

\* append_evidence returns the old row of a known external id whatever it says:
\* what was derived from an item still rests on a committed row of that very
\* content, except where the collector's ids are the source's own and stay when
\* the content changes.
Backed ==
    \A item \in resolved : \E row \in ledger :
        \/ row.content = item.content
        \/ collector.key = "id" /\ row.ext = item.id

\* Once the source has settled, all that it publishes is processed in the
\* end, whatever failed on the way, but for what a driver gave up on.
EventuallyIngested ==
    (version = Len(Feed)) ~> (Published(Len(Feed)) \subseteq resolved \cup givenUp)
=============================================================================
