--------------------------- MODULE IngestRun_proofs ---------------------------
(***************************************************************************)
(* Collector runs, for every feed, every number of runs that overlap and   *)
(* every bound on faults: the cursor never passes an item that was neither *)
(* processed nor given up, one event has one row, and what was processed   *)
(* rests on a committed row.                                               *)
(***************************************************************************)
EXTENDS IngestRun, TLAPS

Session == [pc: {"idle", "fetch", "process", "wait"}, mode: Modes,
            batch: Seq(Items), pos: Nat,
            next: {0} \cup Versions, loaded: Cursor \cup {NoCursor},
            pend: SUBSET Row, done: SUBSET Items]

-----------------------------------------------------------------------------
(* The feed *)

\* A version is a sequence of items, and publishes them.
LEMMA FeedTyped ==
    ASSUME NEW v \in Versions
    PROVE  /\ Feed[v] \in Seq(Items)
           /\ Len(Feed[v]) \in Nat
           /\ Published(v) = Range(Feed[v]) /\ Published(v) \subseteq Items
<1>1. Feed[v] \in Seq(Items)
    BY FeedAssumption DEF Versions
<1>2. DOMAIN Feed[v] = 1..Len(Feed[v]) /\ Len(Feed[v]) \in Nat
    BY <1>1
<1> QED  BY <1>1, <1>2 DEF Published, Range

\* The kinds of collector that the source may have.
LEMMA CollectorKinds ==
    ASSUME NEW source \in Sources
    PROVE  source.key \in {"id", "version", "content"}
BY DriverAssumption DEF EthereumLists, ChainIdNetwork, RecentlyFunded, PullRequests, Source

-----------------------------------------------------------------------------
(* Type correctness *)

\* What is left of a batch.
Left(x) == {x.batch[i] : i \in (x.pos + 1)..Len(x.batch)}

\* A session stands within its batch, and before its first item until it has
\* fetched one; where it waits there is an item to wait with.
Placed(x) ==
    /\ x.pos <= Len(x.batch)
    /\ x.pc = "wait" => x.pos < Len(x.batch)
    /\ x.pc = "fetch" => x.pos = 0

\* Failures are counted one by one, and a cursor row that was there stays.
Counted ==
    /\ cursor # NoCursor => cursor.failures <= faults
    /\ \A r \in Runs : run[r].loaded # NoCursor =>
            cursor # NoCursor /\ run[r].loaded.failures <= faults

TypeInv == TypeOK /\ (\A r \in Runs : Placed(run[r])) /\ Counted

\* A session with an item at hand has it from its batch.
LEMMA CurrentTyped ==
    ASSUME TypeInv, NEW r \in Runs, HasItem(r) \/ run[r].pc = "wait"
    PROVE  /\ run[r].pos \in Nat /\ Len(run[r].batch) \in Nat
           /\ run[r].pos < Len(run[r].batch)
           /\ Current(r) \in Items
<1>1. run[r].batch \in Seq(Items) /\ run[r].pos \in Nat
    BY DEF TypeInv, TypeOK
<1>2. run[r].pos < Len(run[r].batch)
    BY DEF TypeInv, Placed, HasItem
<1>3. run[r].pos + 1 \in 1..Len(run[r].batch)
    BY <1>1, <1>2
<1> QED  BY <1>1, <1>2, <1>3 DEF Current

\* The row that is made of an item.
LEMMA RowTyped ==
    ASSUME TypeOK, NEW item \in Items
    PROVE  /\ RowOf(item) \in Row
           /\ RowOf(item).ext = ExternalId(collector, item)
           /\ RowOf(item).content = item.content
           /\ RowOf(item).bucket = bucket
<1>1. collector \in Sources /\ bucket \in Buckets
    BY DEF TypeOK
<1>2. ExternalId(collector, item) \in Exts /\ item.content \in Contents
    BY <1>1 DEF Exts, Contents
<1> QED  BY <1>1, <1>2 DEF RowOf, Row

LEMMA IdleTyped == /\ Idle \in Session /\ Placed(Idle)
                   /\ Idle.pc = "idle" /\ Idle.loaded = NoCursor
                   /\ Idle.pend = {} /\ Idle.done = {}
BY BoundAssumption DEF Idle, Session, Placed, Modes

\* A step of one session, where the cursor stays.
LEMMA SessionTyped ==
    ASSUME TypeInv, NEW r \in Runs, NEW new \in Session, Placed(new),
           run' = [run EXCEPT ![r] = new],
           new.loaded \in {run[r].loaded, cursor, NoCursor},
           UNCHANGED <<world, cursor>>,
           faults' \in faults..MaxFaults,
           ledger' \subseteq Row, resolved' \subseteq Items, givenUp' \subseteq Items
    PROVE  TypeInv'
<1>1. /\ run' \in [Runs -> Session]
      /\ \A q \in Runs : run'[q] = IF q = r THEN new ELSE run[q]
    BY DEF TypeInv, TypeOK, Session
<1>2. faults \in 0..MaxFaults /\ MaxFaults \in Nat
    BY BoundAssumption DEF TypeInv, TypeOK
<1>3. faults' \in 0..MaxFaults /\ faults <= faults'
    BY <1>2
<1>4. TypeOK'
    BY <1>1, <1>3 DEF TypeInv, TypeOK, Session, world
<1>5. \A q \in Runs : Placed(run'[q])
    BY <1>1 DEF TypeInv
<1>6. Counted'
    <2>1. cursor \in Cursor \cup {NoCursor} /\ \A q \in Runs : run[q].loaded \in Cursor \cup {NoCursor}
        BY DEF TypeInv, TypeOK
    <2>2. \A c \in Cursor : c.failures \in Nat
        BY <1>2 DEF Cursor
    <2>3. \A c \in Cursor : c.failures <= faults => c.failures <= faults'
        BY <1>2, <1>3, <2>2
    <2>4. cursor' = cursor
        OBVIOUS
    <2>5. \A q \in Runs : run'[q].loaded \in {run[q].loaded, cursor, NoCursor}
        BY <1>1
    <2> QED  BY <2>1, <2>3, <2>4, <2>5 DEF TypeInv, Counted
<1> QED  BY <1>4, <1>5, <1>6 DEF TypeInv

\* A session moves on behind an item.
LEMMA PassesItem ==
    ASSUME TypeInv, NEW r \in Runs, HasItem(r) \/ run[r].pc = "wait",
           NEW new \in Session, new.pc = "process",
           new.pos = run[r].pos + 1, new.batch = run[r].batch
    PROVE  Placed(new) /\ Left(run[r]) = {Current(r)} \cup Left(new)
<1>1. /\ run[r].pos \in Nat /\ Len(run[r].batch) \in Nat
      /\ run[r].pos < Len(run[r].batch)
    BY CurrentTyped
<1>2. Placed(new)
    BY <1>1 DEF Placed
<1>3. (run[r].pos + 1)..Len(run[r].batch)
        = {run[r].pos + 1} \cup ((new.pos + 1)..Len(new.batch))
    BY <1>1
<1> QED  BY <1>2, <1>3 DEF Left, Current

\* The rows and the work that a session is about to commit.
LEMMA PendTyped ==
    ASSUME TypeOK, NEW r \in Runs
    PROVE  run[r] \in Session /\ run[r].pend \subseteq Row /\ run[r].done \subseteq Items
BY DEF TypeOK, Session

LEMMA NewRowsTyped ==
    ASSUME TypeOK, NEW r \in Runs, NEW item \in Items
    PROVE  NewRows(r, item) \subseteq Row
BY RowTyped DEF NewRows

-----------------------------------------------------------------------------
(* What each step does to its session *)

Moves(r, new) == new \in Session /\ Placed(new) /\ run' = [run EXCEPT ![r] = new]

\* The session of a run that starts.
LEMMA StartFields ==
    ASSUME TypeInv, NEW r \in Runs, NEW mode \in Modes, StartRun(r, mode)
    PROVE  \E new \in Session :
            /\ Moves(r, new)
            /\ new.pc = "fetch" /\ new.loaded = cursor
            /\ new.pend = {} /\ new.done = {}
<1> DEFINE new == [Idle EXCEPT !.pc = "fetch", !.mode = mode, !.loaded = cursor]
<1>1. cursor \in Cursor \cup {NoCursor}
    BY DEF TypeInv, TypeOK
<1>2. new \in Session
    BY <1>1, IdleTyped DEF Session
<1>3. /\ new.pc = "fetch" /\ new.loaded = cursor /\ new.pos = 0 /\ new.batch = <<>>
      /\ new.pend = {} /\ new.done = {}
    BY DEF Idle
<1>4. Placed(new)
    BY <1>3 DEF Placed
<1>5. run' = [run EXCEPT ![r] = new]
    BY DEF StartRun
<1> QED  BY <1>2, <1>3, <1>4, <1>5 DEF Moves

\* The session of a run that receives a batch.
LEMMA ReceivedFields ==
    ASSUME TypeInv, NEW r \in Runs, run[r].pc = "fetch",
           NEW batch \in Seq(Items), NEW etag \in {0} \cup Versions, Received(r, batch, etag)
    PROVE  \E new \in Session :
            /\ Moves(r, new)
            /\ new.pc = "process" /\ new.batch = batch /\ new.next = etag
            /\ new.loaded = run[r].loaded /\ new.pend = run[r].pend /\ new.done = run[r].done
            /\ Left(new) = Range(batch)
<1> DEFINE new == [run[r] EXCEPT !.pc = "process", !.batch = batch, !.next = etag]
<1>1. run[r] \in Session /\ run[r].pos = 0
    BY PendTyped DEF TypeInv, Placed
<1>2. new \in Session
    BY <1>1 DEF Session
<1>3. /\ new.pc = "process" /\ new.batch = batch /\ new.next = etag /\ new.pos = 0
      /\ new.loaded = run[r].loaded /\ new.pend = run[r].pend /\ new.done = run[r].done
    BY <1>1 DEF Session
<1>4. Len(batch) \in Nat
    OBVIOUS
<1>5. Placed(new)
    BY <1>3, <1>4 DEF Placed
<1>6. run' = [run EXCEPT ![r] = new]
    BY DEF Received
<1>7. Left(new) = Range(batch)
    <2>1. DOMAIN batch = 1..Len(batch)
        OBVIOUS
    <2> QED  BY <1>3, <2>1 DEF Left, Range
<1> HIDE DEF new
<1> QED  BY <1>2, <1>3, <1>5, <1>6, <1>7 DEF Moves

\* The session that has processed an item.
Passed(r, rows, work) ==
    [run[r] EXCEPT !.pc = "process", !.pos = @ + 1, !.pend = rows, !.done = work]

LEMMA PassedFields ==
    ASSUME TypeInv, NEW r \in Runs, HasItem(r) \/ run[r].pc = "wait",
           NEW rows \in SUBSET Row, NEW work \in SUBSET Items, NEW new, new = Passed(r, rows, work)
    PROVE  /\ new \in Session /\ Placed(new)
           /\ new.pc = "process" /\ new.next = run[r].next
           /\ new.loaded = run[r].loaded /\ new.pend = rows /\ new.done = work
           /\ Left(run[r]) = {Current(r)} \cup Left(new)
<1>1. run[r] \in Session /\ run[r].pos + 1 \in Nat
    BY PendTyped DEF TypeInv, Session
<1>2. new \in Session
    BY <1>1 DEF Session, Passed
<1>3. /\ new.pc = "process" /\ new.batch = run[r].batch /\ new.next = run[r].next
      /\ new.pos = run[r].pos + 1
      /\ new.loaded = run[r].loaded /\ new.pend = rows /\ new.done = work
    BY <1>1 DEF Session, Passed
<1>4. Placed(new) /\ Left(run[r]) = {Current(r)} \cup Left(new)
    BY <1>2, <1>3, PassesItem
<1> QED  BY <1>2, <1>3, <1>4

\* The session that has skipped one.
LEMMA SkippedFields ==
    ASSUME TypeInv, NEW r \in Runs, HasItem(r) \/ run[r].pc = "wait", SkipItem(r)
    PROVE  \E new \in Session :
            /\ Moves(r, new)
            /\ new.pc = "process" /\ new.next = run[r].next
            /\ new.loaded = run[r].loaded /\ new.pend = run[r].pend /\ new.done = run[r].done
            /\ Left(run[r]) = {Current(r)} \cup Left(new)
<1> DEFINE new == [run[r] EXCEPT !.pc = "process", !.pos = @ + 1]
<1>1. run[r] \in Session /\ run[r].pos + 1 \in Nat
    BY PendTyped DEF TypeInv, Session
<1>2. new \in Session
    BY <1>1 DEF Session
<1>3. /\ new.pc = "process" /\ new.batch = run[r].batch /\ new.next = run[r].next
      /\ new.pos = run[r].pos + 1
      /\ new.loaded = run[r].loaded /\ new.pend = run[r].pend /\ new.done = run[r].done
    BY <1>1 DEF Session
<1>4. run' = [run EXCEPT ![r] = new]
    BY DEF SkipItem
<1> HIDE DEF new
<1>5. Placed(new) /\ Left(run[r]) = {Current(r)} \cup Left(new)
    BY <1>2, <1>3, PassesItem
<1> QED  BY <1>2, <1>3, <1>4, <1>5 DEF Moves

\* Processing commits what is pending with the item, or keeps it pending.
LEMMA ProcessFields ==
    ASSUME TypeInv, NEW r \in Runs, ProcessItem(r)
    PROVE  /\ HasItem(r) \/ run[r].pc = "wait"
           /\ Inserts(r) /\ Current(r) \in Items
           /\ UNCHANGED <<world, cursor, givenUp, faults>>
           /\ \E new \in Session :
                /\ Moves(r, new)
                /\ new.pc = "process" /\ new.next = run[r].next
                /\ new.loaded = run[r].loaded
                /\ Left(run[r]) = {Current(r)} \cup Left(new)
                /\ \/ /\ ledger' = ledger \cup run[r].pend \cup NewRows(r, Current(r))
                      /\ resolved' = resolved \cup run[r].done \cup {Current(r)}
                      /\ new.pend = {} /\ new.done = {}
                   \/ /\ UNCHANGED store
                      /\ new.pend = run[r].pend \cup NewRows(r, Current(r))
                      /\ new.done = run[r].done \cup {Current(r)}
<1>1. HasItem(r) \/ run[r].pc = "wait"
    BY DEF ProcessItem, Inserts
<1>2. Inserts(r) /\ Current(r) \in Items /\ UNCHANGED <<world, cursor, givenUp, faults>>
    BY <1>1, CurrentTyped DEF ProcessItem
<1> DEFINE rows == run[r].pend \cup NewRows(r, Current(r))
           work == run[r].done \cup {Current(r)}
<1>3. rows \in SUBSET Row /\ work \in SUBSET Items
    BY <1>2, PendTyped, NewRowsTyped DEF TypeInv
<1>4. CASE Checkpoint(r)
    <2>1. PICK rowsLeft \in SUBSET Row, workLeft \in SUBSET Items : rowsLeft = {} /\ workLeft = {}
        OBVIOUS
    <2> DEFINE new == Passed(r, rowsLeft, workLeft)
    <2>2. ledger' = ledger \cup rows /\ resolved' = resolved \cup work
        BY <1>4 DEF ProcessItem
    <2>3. run' = [run EXCEPT ![r] = new]
        BY <1>4, <2>1 DEF ProcessItem, Passed
    <2> HIDE DEF new, rows, work
    <2>4. /\ new \in Session /\ Placed(new)
          /\ new.pc = "process" /\ new.next = run[r].next
          /\ new.loaded = run[r].loaded /\ new.pend = rowsLeft /\ new.done = workLeft
          /\ Left(run[r]) = {Current(r)} \cup Left(new)
        BY <1>1, PassedFields DEF new
    <2> QED  BY <1>1, <1>2, <2>1, <2>2, <2>3, <2>4 DEF Moves, rows, work
<1>5. CASE ~ Checkpoint(r)
    <2> DEFINE new == Passed(r, rows, work)
    <2>1. UNCHANGED store
        BY <1>5 DEF ProcessItem
    <2>2. run' = [run EXCEPT ![r] = new]
        BY <1>5 DEF ProcessItem, Passed
    <2> HIDE DEF new, rows, work
    <2>3. /\ new \in Session /\ Placed(new)
          /\ new.pc = "process" /\ new.next = run[r].next
          /\ new.loaded = run[r].loaded /\ new.pend = rows /\ new.done = work
          /\ Left(run[r]) = {Current(r)} \cup Left(new)
        BY <1>1, <1>3, PassedFields DEF new
    <2> QED  BY <1>1, <1>2, <2>1, <2>2, <2>3 DEF Moves, rows, work
<1> QED  BY <1>4, <1>5

\* An item that fails is skipped, or ends the run with what was pending before
\* it and its own evidence, or with nothing.
FailsItem(r) == ItemRaises(r) \/ InsertRefused(r) \/ TransactionAborts(r)

LEMMA FailCases ==
    ASSUME TypeInv, NEW r \in Runs, FailsItem(r)
    PROVE  /\ HasItem(r) \/ run[r].pc = "wait"
           /\ UNCHANGED <<world, cursor>> /\ faults' \in faults..MaxFaults
           /\ \/ SkipItem(r)
              \/ EndFailed(r, {}, {})
              \/ Inserts(r) /\ EndFailed(r, run[r].pend \cup NewRows(r, Current(r)), run[r].done)
<1>1. faults \in 0..MaxFaults /\ MaxFaults \in Nat
    BY BoundAssumption DEF TypeInv, TypeOK
<1>2. CASE ItemRaises(r)
    <2>1. run[r].mode \in {"job", "trigger", "scan"}
        BY DEF TypeInv, TypeOK, Modes
    <2>2. Inserts(r) /\ UNCHANGED <<world, cursor, faults>>
        BY <1>2 DEF ItemRaises
    <2>3. HasItem(r) \/ run[r].pc = "wait"
        BY <2>2 DEF Inserts
    <2> DEFINE ends == EndFailed(r, run[r].pend \cup NewRows(r, Current(r)), run[r].done)
               rolls == EndFailed(r, {}, {})
               skips == SkipItem(r)
               mode == run[r].mode
    <2>4. (CASE mode = "job" -> ends [] mode = "trigger" -> rolls [] mode = "scan" -> skips)
        BY <1>2 DEF ItemRaises
    <2> HIDE DEF ends, rolls, skips, mode
    <2>5. /\ mode = "job" => ends
          /\ mode = "trigger" => rolls
          /\ mode = "scan" => skips
        BY <2>4
    <2>6. ends \/ rolls \/ skips
        BY <2>1, <2>5 DEF mode
    <2> QED  BY <1>1, <2>2, <2>3, <2>6 DEF ends, rolls, skips
<1>3. CASE InsertRefused(r)
    BY <1>1, <1>3 DEF InsertRefused, Abort
<1>4. CASE TransactionAborts(r)
    BY <1>1, <1>4 DEF TransactionAborts, Abort
<1> QED  BY <1>2, <1>3, <1>4 DEF FailsItem

\* What a fetch brings: a batch that starts the version whose etag is kept, and
\* what is missing of it is given up; or the etag that the session loaded.
Fetches(r) == FetchSucceeds(r) \/ FetchSwallows(r)

LEMMA EtagTyped ==
    ASSUME TypeInv, NEW r \in Runs
    PROVE  /\ LoadedEtag(r) \in {0} \cup Versions
           /\ LoadedEtag(r) # 0 => run[r].loaded # NoCursor /\ LoadedEtag(r) = run[r].loaded.etag
           /\ Etag \in {0, version} /\ version \in Versions /\ version # 0
           /\ Unmodified(r) => LoadedEtag(r) = version
<1>1. run[r].loaded \in Cursor \cup {NoCursor} /\ version \in Versions
    BY DEF TypeInv, TypeOK
<1>2. Len(Feed) \in Nat
    BY FeedAssumption
<1>3. version # 0
    BY <1>1, <1>2 DEF Versions
<1> QED  BY <1>1, <1>3 DEF LoadedEtag, Cursor, Etag, Unmodified

LEMMA FetchCases ==
    ASSUME TypeInv, NEW r \in Runs, Fetches(r)
    PROVE  /\ run[r].pc = "fetch"
           /\ UNCHANGED <<world, store, cursor>> /\ faults' \in faults..MaxFaults
           /\ givenUp \subseteq givenUp' /\ givenUp' \subseteq Items
           /\ \E batch \in Seq(Items), etag \in {0} \cup Versions :
                /\ Received(r, batch, etag)
                /\ \/ etag = 0
                   \/ etag = LoadedEtag(r)
                   \/ /\ etag = version
                      /\ Published(version) \subseteq Range(batch) \cup givenUp'
<1>1. faults \in 0..MaxFaults /\ MaxFaults \in Nat /\ givenUp \subseteq Items
    BY BoundAssumption DEF TypeInv, TypeOK
<1>2. /\ Feed[version] \in Seq(Items) /\ Len(Feed[version]) \in Nat
      /\ Published(version) = Range(Feed[version]) /\ Published(version) \subseteq Items
    BY FeedTyped, EtagTyped
<1>3. PICK none \in Seq(Items) : none = <<>>
    <2>1. <<>> \in Seq(Items)
        OBVIOUS
    <2> QED  BY <2>1, Zenon
<1>4. CASE FetchSucceeds(r)
    <2>1. /\ run[r].pc = "fetch" /\ UNCHANGED <<givenUp, faults>>
          /\ Received(r, IF Unmodified(r) THEN <<>> ELSE Feed[version], Etag)
          /\ UNCHANGED <<world, store, cursor>>
        BY <1>4 DEF FetchSucceeds, Received
    <2>2. CASE Unmodified(r)
        <3>1. Received(r, none, Etag) /\ Etag \in {0} \cup Versions
              /\ (Etag = 0 \/ Etag = LoadedEtag(r))
            BY <1>3, <2>1, <2>2, EtagTyped
        <3> QED  BY <1>1, <2>1, <3>1
    <2>3. CASE ~ Unmodified(r)
        <3>1. Received(r, Feed[version], Etag) /\ Etag \in {0} \cup Versions
              /\ (Etag = 0 \/ Etag = version)
            BY <2>1, <2>3, EtagTyped
        <3> QED  BY <1>1, <1>2, <2>1, <3>1
    <2> QED  BY <2>2, <2>3
<1>5. CASE FetchSwallows(r)
    <2>1. /\ run[r].pc = "fetch" /\ faults < MaxFaults /\ faults' = faults + 1
          /\ UNCHANGED <<world, store, cursor>>
        BY <1>5 DEF FetchSwallows, Received
    <2>2. faults' \in faults..MaxFaults
        BY <1>1, <2>1
    <2>3. ASSUME NEW etag \in {0, LoadedEtag(r)}, Received(r, <<>>, etag), UNCHANGED givenUp
          PROVE  \E batch \in Seq(Items), e \in {0} \cup Versions :
                    Received(r, batch, e) /\ (e = 0 \/ e = LoadedEtag(r))
        BY <1>3, <2>3, EtagTyped
    <2>4. ASSUME NEW n \in 0..(Len(Feed[version]) - 1),
                 Received(r, SubSeq(Feed[version], 1, n), Etag),
                 givenUp' = givenUp \cup (Published(version) \ Range(SubSeq(Feed[version], 1, n)))
          PROVE  /\ givenUp' \subseteq Items
                 /\ \E batch \in Seq(Items), e \in {0} \cup Versions :
                        /\ Received(r, batch, e)
                        /\ e = 0 \/ (e = version /\ Published(version) \subseteq
                                        Range(batch) \cup givenUp')
        <3> DEFINE parsed == SubSeq(Feed[version], 1, n)
        <3>1. parsed \in Seq(Items)
            BY <1>2
        <3>2. Etag \in {0} \cup Versions /\ (Etag = 0 \/ Etag = version)
            BY EtagTyped
        <3> HIDE DEF parsed
        <3>3. Published(version) \subseteq Range(parsed) \cup givenUp'
            BY <2>4 DEF parsed
        <3>4. Received(r, parsed, Etag)
            BY <2>4 DEF parsed
        <3> QED  BY <1>1, <1>2, <2>4, <3>1, <3>3, <3>4, <3>2
    <2>5. \/ \E etag \in {0, LoadedEtag(r)} : Received(r, <<>>, etag) /\ UNCHANGED givenUp
          \/ \E n \in 0..(Len(Feed[version]) - 1) :
                /\ Received(r, SubSeq(Feed[version], 1, n), Etag)
                /\ givenUp' = givenUp \cup (Published(version) \ Range(SubSeq(Feed[version], 1, n)))
        BY <1>5 DEF FetchSwallows
    <2>6. CASE \E etag \in {0, LoadedEtag(r)} : Received(r, <<>>, etag) /\ UNCHANGED givenUp
        BY <1>1, <2>2, <2>1, <2>3, <2>6
    <2>7. CASE \E n \in 0..(Len(Feed[version]) - 1) :
                /\ Received(r, SubSeq(Feed[version], 1, n), Etag)
                /\ givenUp' = givenUp \cup (Published(version) \ Range(SubSeq(Feed[version], 1, n)))
        BY <1>1, <2>2, <2>1, <2>4, <2>7
    <2> QED  BY <2>5, <2>6, <2>7
<1> QED  BY <1>4, <1>5 DEF Fetches

\* The cursor that a run saves at its end.
LEMMA SavedTyped ==
    ASSUME TypeInv, NEW r \in Runs, run[r].pc = "process", NEW saved, saved = SavedCursor(r)
    PROVE  /\ saved \in Cursor /\ saved.failures <= faults
           /\ \/ saved.etag = run[r].next
              \/ saved.etag = 0
              \/ cursor # NoCursor /\ saved.etag = cursor.etag
              \/ run[r].loaded # NoCursor /\ saved.etag = run[r].loaded.etag
<1>1. /\ cursor \in Cursor \cup {NoCursor} /\ run[r].loaded \in Cursor \cup {NoCursor}
      /\ run[r].next \in {0} \cup Versions
      /\ faults \in 0..MaxFaults /\ MaxFaults \in Nat
    BY BoundAssumption DEF TypeInv, TypeOK
<1> DEFINE seen == IF run[r].mode = "scan" \/ run[r].loaded = NoCursor THEN cursor ELSE run[r].loaded
           etag == IF run[r].next # 0 THEN run[r].next
                   ELSE IF seen = NoCursor THEN 0 ELSE seen.etag
<1>2. /\ seen \in {cursor, run[r].loaded}
      /\ seen # NoCursor => cursor # NoCursor
    BY DEF TypeInv, Counted
<1>3. saved = IF seen = NoCursor THEN [etag |-> etag, failures |-> 0]
              ELSE [etag     |-> Written(seen.etag, cursor.etag, etag),
                    failures |-> Written(seen.failures, cursor.failures, 0)]
    BY DEF SavedCursor
<1>4. \A c \in Cursor : c.etag \in {0} \cup Versions /\ c.failures \in Nat
    BY <1>1 DEF Cursor
<1>5. \A e \in {0} \cup Versions, f \in Nat : f <= faults => [etag |-> e, failures |-> f] \in Cursor
    BY <1>1 DEF Cursor
<1> HIDE DEF seen
<1>6. CASE seen = NoCursor
    <2>1. etag \in {run[r].next, 0}
        BY <1>6
    <2> HIDE DEF etag
    <2>2. PICK f \in Nat : f <= faults /\ saved = [etag |-> etag, failures |-> f]
        BY <1>1, <1>3, <1>6
    <2>3. etag \in {0} \cup Versions
        BY <1>1, <2>1
    <2>4. saved \in Cursor /\ saved.etag = etag /\ saved.failures = f
        BY <1>5, <2>2, <2>3
    <2> QED  BY <2>1, <2>2, <2>4
<1>7. CASE seen # NoCursor
    <2>1. /\ cursor \in Cursor /\ cursor.failures <= faults
          /\ seen \in Cursor
        BY <1>1, <1>2, <1>7 DEF TypeInv, Counted
    <2>2. PICK e, f : /\ e \in {etag, cursor.etag} /\ f \in {0, cursor.failures}
                      /\ saved = [etag |-> e, failures |-> f]
        BY <1>3, <1>7 DEF Written
    <2>3. e \in {0} \cup Versions /\ f \in Nat /\ f <= faults
        BY <1>1, <1>4, <1>7, <2>1, <2>2
    <2>4. etag \in {run[r].next, seen.etag}
        BY <1>7
    <2> HIDE DEF etag
    <2>5. saved \in Cursor /\ saved.etag = e /\ saved.failures = f
        <3>1. [etag |-> e, failures |-> f] \in Cursor
            BY <1>5, <2>3
        <3>2. saved.etag = e /\ saved.failures = f
            BY <2>2
        <3> QED  BY <2>2, <3>1, <3>2
    <2>6. saved.etag \in {run[r].next, seen.etag, cursor.etag}
        BY <2>2, <2>4, <2>5
    <2> QED  BY <1>2, <1>7, <2>3, <2>5, <2>6
<1> QED  BY <1>6, <1>7

-----------------------------------------------------------------------------
(* The type invariant *)

\* A step that leaves every session and the cursor as they are.
World == SourceChanges \/ BucketPasses \/ PatchParser

LEMMA WorldStep ==
    ASSUME TypeInv, World
    PROVE  /\ TypeInv' /\ UNCHANGED <<collector, store, cursor, run, givenUp, faults>>
<1>1. UNCHANGED <<collector, store, cursor, run, givenUp, faults>>
    BY DEF World, SourceChanges, BucketPasses, PatchParser
<1>2. version' \in Versions /\ bucket' \in Buckets /\ poison' \subseteq Items
    <2>1. Len(Feed) \in Nat /\ MaxBucket \in Nat
        BY FeedAssumption, BoundAssumption
    <2>2. version \in Versions /\ bucket \in Buckets /\ poison \subseteq Items
        BY DEF TypeInv, TypeOK
    <2>3. CASE SourceChanges
        <3>1. version' \in Versions
            BY <2>1, <2>2, <2>3 DEF SourceChanges, Versions
        <3> QED  BY <2>2, <2>3, <3>1 DEF SourceChanges
    <2>4. CASE BucketPasses
        <3>1. bucket' \in Buckets
            BY <2>1, <2>2, <2>4 DEF BucketPasses, Buckets
        <3> QED  BY <2>2, <2>4, <3>1 DEF BucketPasses
    <2>5. CASE PatchParser
        BY <2>2, <2>5 DEF PatchParser
    <2> QED  BY <2>3, <2>4, <2>5 DEF World
<1>3. TypeOK'
    BY <1>1, <1>2 DEF TypeInv, TypeOK, store
<1> QED  BY <1>1, <1>3 DEF TypeInv, Counted, Placed

\* A run that ends keeps nothing, whatever cursor it saves.
LEMMA EndTyped ==
    ASSUME TypeInv, NEW r \in Runs, run' = [run EXCEPT ![r] = Idle],
           UNCHANGED world, faults' \in faults..MaxFaults,
           cursor' \in Cursor \cup {NoCursor},
           cursor # NoCursor => cursor' # NoCursor,
           cursor' # NoCursor => cursor'.failures <= faults',
           ledger' \subseteq Row, resolved' \subseteq Items, givenUp' \subseteq Items
    PROVE  TypeInv'
<1>1. /\ run' \in [Runs -> Session]
      /\ \A q \in Runs : run'[q] = IF q = r THEN Idle ELSE run[q]
    BY IdleTyped DEF TypeInv, TypeOK, Session
<1>2. faults \in 0..MaxFaults /\ MaxFaults \in Nat
    BY BoundAssumption DEF TypeInv, TypeOK
<1>3. faults' \in 0..MaxFaults /\ faults <= faults'
    BY <1>2
<1>4. TypeOK'
    BY <1>1, <1>3 DEF TypeInv, TypeOK, Session, world
<1>5. \A q \in Runs : Placed(run'[q])
    BY <1>1, IdleTyped DEF TypeInv
<1>6. \A q \in Runs : run'[q].loaded # NoCursor =>
        cursor' # NoCursor /\ run'[q].loaded.failures <= faults'
    <2> SUFFICES ASSUME NEW q \in Runs, run'[q].loaded # NoCursor
                 PROVE  cursor' # NoCursor /\ run'[q].loaded.failures <= faults'
        OBVIOUS
    <2>1. q # r /\ run'[q] = run[q]
        BY <1>1, IdleTyped
    <2>2. cursor # NoCursor /\ run[q].loaded.failures <= faults /\ run[q].loaded \in Cursor
        BY <2>1 DEF TypeInv, TypeOK, Counted
    <2>3. run[q].loaded.failures \in Nat
        BY <1>2, <2>2 DEF Cursor
    <2> QED  BY <1>2, <1>3, <2>1, <2>2, <2>3
<1> QED  BY <1>4, <1>5, <1>6 DEF TypeInv, Counted

\* The count of failures that a failing fetch of a job commits.
LEMMA RaisesTyped ==
    ASSUME TypeInv, NEW r \in Runs, FetchRaises(r)
    PROVE  /\ run' = [run EXCEPT ![r] = Idle]
           /\ UNCHANGED <<world, store, givenUp>>
           /\ faults' \in faults..MaxFaults
           /\ cursor' \in Cursor \cup {NoCursor}
           /\ cursor # NoCursor => cursor' # NoCursor
           /\ cursor' # NoCursor => /\ cursor'.failures <= faults'
                                    /\ \/ cursor'.etag = 0
                                       \/ cursor # NoCursor /\ cursor'.etag = cursor.etag
<1>1. /\ cursor \in Cursor \cup {NoCursor} /\ run[r].loaded \in Cursor \cup {NoCursor}
      /\ faults \in 0..MaxFaults /\ MaxFaults \in Nat
      /\ NoCursor \notin Cursor
    BY BoundAssumption DEF TypeInv, TypeOK
<1>2. /\ run' = [run EXCEPT ![r] = Idle] /\ UNCHANGED <<world, store, givenUp>>
      /\ faults < MaxFaults /\ faults' = faults + 1
    BY DEF FetchRaises
<1>3. faults' \in faults..MaxFaults
    BY <1>1, <1>2
<1>4. cursor # NoCursor => cursor \in Cursor /\ cursor.failures <= faults /\ cursor.failures \in Nat
    BY <1>1 DEF TypeInv, Counted, Cursor
<1>5. \A e \in {0} \cup Versions, f \in Nat : f <= faults' =>
        LET c == [etag |-> e, failures |-> f]
        IN  c \in Cursor /\ c.etag = e /\ c.failures = f
    BY <1>1, <1>2, <1>3 DEF Cursor
<1>6. CASE run[r].mode # "job"
    <2>1. cursor' = cursor
        BY <1>6 DEF FetchRaises
    <2> QED  BY <1>1, <1>2, <1>3, <1>4, <2>1
<1>7. CASE run[r].mode = "job" /\ cursor = NoCursor
    <2>1. PICK f \in Nat : f <= faults' /\ f = 1
        BY <1>1, <1>2
    <2>2. cursor' = [etag |-> 0, failures |-> f]
        BY <1>7, <2>1 DEF FetchRaises
    <2> QED  BY <1>2, <1>3, <1>5, <1>7, <2>1, <2>2
<1>8. CASE run[r].mode = "job" /\ cursor # NoCursor /\ run[r].loaded = NoCursor
    <2>1. cursor' = [cursor EXCEPT !.failures = @ + 1]
        BY <1>8 DEF FetchRaises
    <2>2. cursor' \in Cursor /\ cursor'.etag = cursor.etag /\ cursor'.failures = cursor.failures + 1
        BY <1>1, <1>2, <1>4, <1>8, <2>1 DEF Cursor
    <2> QED  BY <1>1, <1>2, <1>3, <1>4, <1>8, <2>2
<1>9. CASE run[r].mode = "job" /\ cursor # NoCursor /\ run[r].loaded # NoCursor
    <2>1. cursor' = [cursor EXCEPT !.failures = run[r].loaded.failures + 1]
        BY <1>9 DEF FetchRaises
    <2>2. run[r].loaded.failures \in Nat /\ run[r].loaded.failures <= faults
        BY <1>1, <1>9 DEF TypeInv, Counted, Cursor
    <2>3. /\ cursor' \in Cursor /\ cursor'.etag = cursor.etag
          /\ cursor'.failures = run[r].loaded.failures + 1
        BY <1>1, <1>2, <1>4, <1>9, <2>1, <2>2 DEF Cursor
    <2> QED  BY <1>1, <1>2, <1>3, <1>9, <2>2, <2>3
<1> QED  BY <1>6, <1>7, <1>8, <1>9

LEMMA TypeStep == ASSUME TypeInv, [Next]_vars PROVE TypeInv'
<1>0. /\ faults \in 0..MaxFaults /\ MaxFaults \in Nat /\ faults \in faults..MaxFaults
      /\ ledger \subseteq Row /\ resolved \subseteq Items /\ givenUp \subseteq Items
      /\ cursor \in Cursor \cup {NoCursor} /\ NoCursor \notin Cursor
      /\ cursor # NoCursor => cursor.failures <= faults
    BY BoundAssumption DEF TypeInv, TypeOK, Counted
<1>1. CASE UNCHANGED vars
    BY <1>1 DEF TypeInv, TypeOK, Counted, Placed, vars, world, store
<1>2. CASE World
    BY <1>2, WorldStep
<1>3. ASSUME NEW r \in Runs, NEW mode \in Modes, StartRun(r, mode) PROVE TypeInv'
    <2>1. UNCHANGED <<world, store, cursor, givenUp, faults>>
        BY <1>3 DEF StartRun
    <2>2. PICK new \in Session : Moves(r, new) /\ new.loaded = cursor
        BY <1>3, StartFields
    <2> QED  BY <1>0, <2>1, <2>2, SessionTyped DEF Moves, store
<1>4. ASSUME NEW r \in Runs, Fetches(r) PROVE TypeInv'
    <2>1. /\ run[r].pc = "fetch"
          /\ UNCHANGED <<world, store, cursor>> /\ faults' \in faults..MaxFaults
          /\ givenUp' \subseteq Items
        BY <1>4, FetchCases
    <2>2. PICK batch \in Seq(Items), etag \in {0} \cup Versions : Received(r, batch, etag)
        BY <1>4, FetchCases
    <2>3. PICK new \in Session : Moves(r, new) /\ new.loaded = run[r].loaded
        BY <2>1, <2>2, ReceivedFields
    <2> QED  BY <1>0, <2>1, <2>3, SessionTyped DEF Moves, store
<1>5. ASSUME NEW r \in Runs, ProcessItem(r) PROVE TypeInv'
    <2>1. /\ UNCHANGED <<world, cursor, givenUp, faults>> /\ Current(r) \in Items
          /\ \E new \in Session :
                /\ Moves(r, new) /\ new.loaded = run[r].loaded
                /\ \/ /\ ledger' = ledger \cup run[r].pend \cup NewRows(r, Current(r))
                      /\ resolved' = resolved \cup run[r].done \cup {Current(r)}
                   \/ UNCHANGED store
        BY <1>5, ProcessFields
    <2>2. PICK new \in Session :
                /\ Moves(r, new) /\ new.loaded = run[r].loaded
                /\ \/ /\ ledger' = ledger \cup run[r].pend \cup NewRows(r, Current(r))
                      /\ resolved' = resolved \cup run[r].done \cup {Current(r)}
                   \/ UNCHANGED store
        BY <2>1
    <2>3. run[r].pend \subseteq Row /\ run[r].done \subseteq Items /\ NewRows(r, Current(r)) \subseteq Row
        BY <2>1, PendTyped, NewRowsTyped DEF TypeInv
    <2>4. ledger' \subseteq Row /\ resolved' \subseteq Items
        BY <1>0, <2>1, <2>2, <2>3 DEF store
    <2> QED  BY <1>0, <2>1, <2>2, <2>4, SessionTyped DEF Moves
<1>6. ASSUME NEW r \in Runs, FailsItem(r) PROVE TypeInv'
    <2>1. /\ HasItem(r) \/ run[r].pc = "wait"
          /\ UNCHANGED <<world, cursor>> /\ faults' \in faults..MaxFaults
          /\ \/ SkipItem(r)
             \/ EndFailed(r, {}, {})
             \/ EndFailed(r, run[r].pend \cup NewRows(r, Current(r)), run[r].done)
        BY <1>6, FailCases
    <2>2. Current(r) \in Items
        BY <2>1, CurrentTyped
    <2>3. CASE SkipItem(r)
        <3>1. PICK new \in Session : Moves(r, new) /\ new.loaded = run[r].loaded
            BY <2>1, <2>3, SkippedFields
        <3>2. givenUp' \subseteq Items /\ UNCHANGED store
            BY <1>0, <2>2, <2>3 DEF SkipItem
        <3> QED  BY <1>0, <2>1, <3>1, <3>2, SessionTyped DEF Moves, store
    <2>4. ASSUME NEW rows \in SUBSET Row, NEW work \in SUBSET Items, EndFailed(r, rows, work)
          PROVE  TypeInv'
        <3>1. /\ run' = [run EXCEPT ![r] = Idle] /\ UNCHANGED givenUp
              /\ ledger' \subseteq Row /\ resolved' \subseteq Items
            BY <1>0, <2>4 DEF EndFailed
        <3>2. faults <= faults' /\ UNCHANGED cursor
            BY <1>0, <2>1
        <3>3. cursor # NoCursor => cursor.failures \in Nat
            BY <1>0 DEF Cursor
        <3>4. cursor' # NoCursor => cursor'.failures <= faults'
            BY <1>0, <2>1, <3>2, <3>3
        <3> QED  BY <1>0, <2>1, <3>1, <3>2, <3>4, EndTyped
    <2>5. /\ run[r].pend \cup NewRows(r, Current(r)) \in SUBSET Row /\ run[r].done \in SUBSET Items
        BY <2>2, PendTyped, NewRowsTyped DEF TypeInv
    <2>6. CASE EndFailed(r, {}, {})
        <3>1. PICK rows \in SUBSET Row, work \in SUBSET Items : rows = {} /\ work = {}
            OBVIOUS
        <3> QED  BY <2>4, <2>6, <3>1
    <2> QED  BY <2>1, <2>3, <2>4, <2>5, <2>6
<1>7. ASSUME NEW r \in Runs, InsertWaits(r) PROVE TypeInv'
    <2> DEFINE new == [run[r] EXCEPT !.pc = "wait"]
    <2>1. run[r] \in Session /\ run[r].pos < Len(run[r].batch) /\ run[r].pos \in Nat /\ Len(run[r].batch) \in Nat
        BY <1>7, CurrentTyped, PendTyped DEF InsertWaits, TypeInv
    <2>2. /\ new \in Session /\ new.pc = "wait" /\ new.pos = run[r].pos
          /\ new.batch = run[r].batch /\ new.loaded = run[r].loaded
        BY <2>1 DEF Session
    <2>3. run' = [run EXCEPT ![r] = new] /\ UNCHANGED <<world, store, cursor, givenUp, faults>>
        BY <1>7 DEF InsertWaits
    <2> HIDE DEF new
    <2>4. Placed(new)
        BY <2>1, <2>2 DEF Placed
    <2> QED  BY <1>0, <2>2, <2>3, <2>4, SessionTyped DEF store
<1>8. ASSUME NEW r \in Runs, SaveCursor(r) PROVE TypeInv'
    <2>1. /\ run[r].pc = "process" /\ cursor' = SavedCursor(r)
          /\ run' = [run EXCEPT ![r] = Idle] /\ UNCHANGED <<world, givenUp, faults>>
          /\ ledger' = ledger \cup run[r].pend /\ resolved' = resolved \cup run[r].done
        BY <1>8 DEF SaveCursor
    <2>2. cursor' \in Cursor /\ cursor'.failures <= faults
        BY <2>1, SavedTyped
    <2>3. ledger' \subseteq Row /\ resolved' \subseteq Items
        BY <1>0, <2>1, PendTyped DEF TypeInv
    <2> QED  BY <1>0, <2>1, <2>2, <2>3, EndTyped
<1>9. ASSUME NEW r \in Runs, FetchRaises(r) PROVE TypeInv'
    BY <1>0, <1>9, RaisesTyped, EndTyped DEF store
<1>10. ASSUME NEW r \in Runs, Crash(r) PROVE TypeInv'
    <2>1. /\ run' = [run EXCEPT ![r] = Idle] /\ UNCHANGED <<world, store, cursor, givenUp>>
          /\ faults < MaxFaults /\ faults' = faults + 1
        BY <1>10 DEF Crash
    <2>2. faults' \in faults..MaxFaults
        BY <1>0, <2>1
    <2>3. cursor # NoCursor => cursor.failures \in Nat
        BY <1>0 DEF Cursor
    <2>4. cursor' # NoCursor => cursor'.failures <= faults'
        BY <1>0, <2>1, <2>3
    <2> QED  BY <1>0, <2>1, <2>2, <2>4, EndTyped DEF store
<1> QED
    BY <1>1, <1>2, <1>3, <1>4, <1>5, <1>6, <1>7, <1>8, <1>9, <1>10
    DEF Next, Progress, Fault, World, Fetches, FailsItem

LEMMA TypeInit == ASSUME Init PROVE TypeInv
<1>1. Len(Feed) \in Nat /\ Len(Feed) # 0 /\ 1 \in Versions
    <2>1. Len(Feed) \in Nat /\ Len(Feed) # 0
        BY FeedAssumption, BoundAssumption
    <2> QED  BY <2>1 DEF Versions
<1>2. 0 \in Buckets /\ 0 \in 0..MaxFaults
    BY BoundAssumption DEF Buckets
<1>3. run \in [Runs -> Session] /\ \A r \in Runs : run[r] = Idle
    BY IdleTyped DEF Init
<1>4. TypeOK
    BY <1>1, <1>2, <1>3, FeedAssumption DEF Init, TypeOK, Session
<1> QED  BY <1>3, <1>4, IdleTyped DEF Init, TypeInv, Counted

\* Rows, cursors and sessions are what the code can hold: in particular the
\* failures of a source are counted within what failed.
THEOREM TypeCorrect == Spec => []TypeOK
<1>1. Init => TypeInv
    BY TypeInit
<1>2. TypeInv /\ [Next]_vars => TypeInv'
    BY TypeStep
<1>3. TypeInv => TypeOK
    BY DEF TypeInv
<1> QED  BY <1>1, <1>2, <1>3, PTL DEF Spec

-----------------------------------------------------------------------------
(* The cursor *)

Settled == resolved \cup givenUp

\* What a cursor row covers was processed or given up.
Covers(c) == c # NoCursor /\ c.etag # 0 => Published(c.etag) \subseteq Settled

\* What the etag of a session covers was processed or given up, is processed
\* and not yet committed, or is still ahead in its batch.
Ahead(x) ==
    x.pc \in {"process", "wait"} /\ x.next # 0 =>
        Published(x.next) \subseteq Settled \cup x.done \cup Left(x)

CursorInv == Covers(cursor) /\ \A r \in Runs : Covers(run[r].loaded) /\ Ahead(run[r])

\* A step of one session: what is settled stays so, for all others.
LEMMA CoverStep ==
    ASSUME CursorInv, NEW r \in Runs, NEW new \in Session,
           run \in [Runs -> Session], run' = [run EXCEPT ![r] = new],
           Settled \subseteq Settled',
           Covers(cursor)', Covers(new.loaded)', Ahead(new)'
    PROVE  CursorInv'
<1>1. \A q \in Runs : run'[q] = IF q = r THEN new ELSE run[q]
    OBVIOUS
<1>2. ASSUME NEW q \in Runs, q # r PROVE Covers(run[q].loaded)' /\ Ahead(run[q])'
    <2>1. run'[q] = run[q] /\ Covers(run[q].loaded) /\ Ahead(run[q])
        BY <1>1, <1>2 DEF CursorInv
    <2>2. Covers(run[q].loaded)'
        BY <2>1 DEF Covers
    <2>3. Ahead(run[q])'
        BY <2>1 DEF Ahead, Left
    <2> QED  BY <2>2, <2>3
<1>3. Covers(run[r].loaded)' /\ Ahead(run[r])'
    <2>1. run'[r] = new
        BY <1>1
    <2> QED  BY <2>1 DEF Covers, Ahead, Left
<1> QED  BY <1>2, <1>3 DEF CursorInv

\* A run that ends has nothing ahead of it.
LEMMA CoverEnd ==
    ASSUME CursorInv, TypeInv, NEW r \in Runs, run' = [run EXCEPT ![r] = Idle],
           Settled \subseteq Settled', Covers(cursor)'
    PROVE  CursorInv'
<1>1. Idle \in Session /\ Idle.pc = "idle" /\ Idle.loaded = NoCursor
    BY IdleTyped
<1>2. Covers(Idle.loaded)' /\ Ahead(Idle)'
    BY <1>1 DEF Covers, Ahead
<1>3. run \in [Runs -> Session]
    BY DEF TypeInv, TypeOK, Session
<1> QED  BY <1>1, <1>2, <1>3, CoverStep

LEMMA CursorStep == ASSUME TypeInv, CursorInv, [Next]_vars PROVE CursorInv'
<1>0. run \in [Runs -> Session] /\ Covers(cursor)
    BY DEF TypeInv, TypeOK, Session, CursorInv
<1>1. CASE UNCHANGED vars
    BY <1>1 DEF CursorInv, Covers, Ahead, Left, Settled, vars, store
<1>2. CASE World
    BY <1>2, WorldStep DEF CursorInv, Covers, Ahead, Left, Settled, store
<1>3. ASSUME NEW r \in Runs, NEW mode \in Modes, StartRun(r, mode) PROVE CursorInv'
    <2>1. UNCHANGED <<resolved, cursor, givenUp>>
        BY <1>3 DEF StartRun, store
    <2>2. PICK new \in Session : Moves(r, new) /\ new.loaded = cursor /\ new.pc = "fetch"
        BY <1>3, StartFields
    <2>3. Covers(cursor)' /\ Covers(new.loaded)' /\ Ahead(new)'
        BY <1>0, <2>1, <2>2 DEF Covers, Ahead, Settled
    <2>4. Settled \subseteq Settled'
        BY <2>1 DEF Settled
    <2> QED  BY <1>0, <2>2, <2>3, <2>4, CoverStep DEF Moves
<1>4. ASSUME NEW r \in Runs, Fetches(r) PROVE CursorInv'
    <2>1. run[r].pc = "fetch" /\ UNCHANGED <<resolved, cursor>> /\ givenUp \subseteq givenUp'
        BY <1>4, FetchCases DEF store
    <2>2. PICK batch \in Seq(Items), etag \in {0} \cup Versions :
                /\ Received(r, batch, etag)
                /\ \/ etag = 0
                   \/ etag = LoadedEtag(r)
                   \/ /\ etag = version
                      /\ Published(version) \subseteq Range(batch) \cup givenUp'
        BY <1>4, FetchCases
    <2>3. PICK new \in Session :
            /\ Moves(r, new)
            /\ new.pc = "process" /\ new.batch = batch /\ new.next = etag
            /\ new.loaded = run[r].loaded /\ new.pend = run[r].pend /\ new.done = run[r].done
            /\ Left(new) = Range(batch)
        <3>1. run[r].pc = "fetch" /\ Received(r, batch, etag)
            BY <2>1, <2>2
        <3> QED  BY <3>1, ReceivedFields
    <2>4. Settled \subseteq Settled'
        BY <2>1 DEF Settled
    <2>5. Covers(run[r].loaded)
        BY DEF CursorInv
    <2>6. Covers(cursor)' /\ Covers(new.loaded)'
        BY <1>0, <2>1, <2>3, <2>4, <2>5 DEF Covers
    <2>7. Published(etag) \subseteq Settled' \cup Left(new) \/ etag = 0
        <3>1. CASE etag = LoadedEtag(r) /\ etag # 0
            <4>1. run[r].loaded # NoCursor /\ etag = run[r].loaded.etag
                BY <3>1, EtagTyped
            <4> QED  BY <2>4, <2>5, <3>1, <4>1 DEF Covers
        <3>2. CASE etag = version /\ Published(version) \subseteq Range(batch) \cup givenUp'
            BY <2>3, <3>2 DEF Settled
        <3> QED  BY <2>2, <3>1, <3>2
    <2>8. Ahead(new)'
        BY <2>3, <2>7 DEF Ahead, Left
    <2> QED  BY <1>0, <2>3, <2>4, <2>6, <2>8, CoverStep DEF Moves
<1>5. ASSUME NEW r \in Runs, ProcessItem(r) PROVE CursorInv'
    <2>1. /\ UNCHANGED <<cursor, givenUp>>
          /\ run[r].pc \in {"process", "wait"}
        BY <1>5, ProcessFields DEF HasItem
    <2>2. PICK new \in Session :
            /\ Moves(r, new) /\ new.next = run[r].next /\ new.loaded = run[r].loaded
            /\ Left(run[r]) = {Current(r)} \cup Left(new)
            /\ \/ resolved' = resolved \cup run[r].done \cup {Current(r)}
               \/ resolved' = resolved /\ new.done = run[r].done \cup {Current(r)}
        BY <1>5, ProcessFields DEF store
    <2>3. Settled \subseteq Settled'
        BY <2>1, <2>2 DEF Settled
    <2>4. Covers(run[r].loaded) /\ Ahead(run[r])
        BY DEF CursorInv
    <2>5. Covers(cursor)' /\ Covers(new.loaded)'
        BY <1>0, <2>1, <2>2, <2>3, <2>4 DEF Covers
    <2>6. Settled \cup run[r].done \cup Left(run[r]) \subseteq Settled' \cup new.done \cup Left(new)
        BY <2>1, <2>2, <2>3 DEF Settled
    <2>7. Ahead(new)'
        BY <2>1, <2>2, <2>4, <2>6 DEF Ahead, Left
    <2> QED  BY <1>0, <2>2, <2>3, <2>5, <2>7, CoverStep DEF Moves
<1>6. ASSUME NEW r \in Runs, FailsItem(r) PROVE CursorInv'
    <2>1. /\ HasItem(r) \/ run[r].pc = "wait"
          /\ UNCHANGED cursor
          /\ \/ SkipItem(r)
             \/ EndFailed(r, {}, {})
             \/ EndFailed(r, run[r].pend \cup NewRows(r, Current(r)), run[r].done)
        BY <1>6, FailCases
    <2>2. CASE SkipItem(r)
        <3>1. PICK new \in Session :
                /\ Moves(r, new) /\ new.next = run[r].next /\ new.loaded = run[r].loaded
                /\ new.done = run[r].done
                /\ Left(run[r]) = {Current(r)} \cup Left(new)
            BY <2>1, <2>2, SkippedFields
        <3>2. resolved' = resolved /\ givenUp' = givenUp \cup {Current(r)}
            BY <2>2 DEF SkipItem, store
        <3>3. Settled \subseteq Settled'
            BY <3>2 DEF Settled
        <3>4. Covers(run[r].loaded) /\ Ahead(run[r]) /\ run[r].pc \in {"process", "wait"}
            BY <2>1 DEF CursorInv, HasItem
        <3>5. Covers(cursor)' /\ Covers(new.loaded)'
            BY <1>0, <2>1, <3>1, <3>3, <3>4 DEF Covers
        <3>6. Settled \cup run[r].done \cup Left(run[r]) \subseteq Settled' \cup new.done \cup Left(new)
            BY <3>1, <3>2 DEF Settled
        <3>7. Ahead(new)'
            BY <3>1, <3>4, <3>6 DEF Ahead, Left
        <3> QED  BY <1>0, <3>1, <3>3, <3>5, <3>7, CoverStep DEF Moves
    <2>3. ASSUME NEW rows, NEW work, EndFailed(r, rows, work) PROVE CursorInv'
        <3>1. /\ run' = [run EXCEPT ![r] = Idle] /\ Settled \subseteq Settled'
            BY <2>3 DEF EndFailed, Settled
        <3>2. Covers(cursor)'
            BY <1>0, <2>1, <3>1 DEF Covers
        <3> QED  BY <3>1, <3>2, CoverEnd
    <2> QED  BY <2>1, <2>2, <2>3
<1>7. ASSUME NEW r \in Runs, InsertWaits(r) PROVE CursorInv'
    <2>1. run[r] \in Session /\ run[r].pc = "process"
        BY <1>7, PendTyped DEF InsertWaits, HasItem, TypeInv
    <2> DEFINE waiting == [run[r] EXCEPT !.pc = "wait"]
    <2>2. PICK new \in Session :
            /\ new = waiting /\ new.pos = run[r].pos /\ new.batch = run[r].batch
            /\ new.next = run[r].next /\ new.done = run[r].done /\ new.loaded = run[r].loaded
        <3>1. /\ waiting \in Session /\ waiting.pos = run[r].pos /\ waiting.batch = run[r].batch
              /\ waiting.next = run[r].next /\ waiting.done = run[r].done
              /\ waiting.loaded = run[r].loaded
            BY <2>1 DEF Session
        <3> HIDE DEF waiting
        <3> QED  BY <3>1
    <2>3. run' = [run EXCEPT ![r] = new] /\ UNCHANGED <<resolved, cursor, givenUp>>
        BY <1>7, <2>2 DEF InsertWaits, store
    <2> HIDE DEF waiting
    <2>4. Settled' = Settled
        BY <2>3 DEF Settled
    <2>5. Covers(run[r].loaded) /\ Ahead(run[r])
        BY DEF CursorInv
    <2>6. Covers(cursor)' /\ Covers(new.loaded)'
        BY <1>0, <2>2, <2>3, <2>4, <2>5 DEF Covers
    <2>7. Ahead(new)'
        BY <2>1, <2>2, <2>4, <2>5 DEF Ahead, Left
    <2> QED  BY <1>0, <2>2, <2>3, <2>4, <2>6, <2>7, CoverStep
<1>8. ASSUME NEW r \in Runs, SaveCursor(r) PROVE CursorInv'
    <2>1. /\ run[r].pc = "process" /\ run[r].pos = Len(run[r].batch)
          /\ cursor' = SavedCursor(r)
          /\ run' = [run EXCEPT ![r] = Idle]
          /\ resolved' = resolved \cup run[r].done /\ UNCHANGED givenUp
        BY <1>8 DEF SaveCursor
    <2>2. /\ \/ cursor'.etag = run[r].next
             \/ cursor'.etag = 0
             \/ cursor # NoCursor /\ cursor'.etag = cursor.etag
             \/ run[r].loaded # NoCursor /\ cursor'.etag = run[r].loaded.etag
        BY <2>1, SavedTyped
    <2>3. Left(run[r]) = {}
        <3>1. run[r].pos \in Nat
            BY DEF TypeInv, TypeOK
        <3>2. (run[r].pos + 1)..Len(run[r].batch) = {}
            BY <2>1, <3>1
        <3> QED  BY <3>2 DEF Left
    <2>4. Settled \cup run[r].done \subseteq Settled'
        BY <2>1 DEF Settled
    <2>5. Covers(run[r].loaded) /\ Ahead(run[r])
        BY DEF CursorInv
    <2>6. run[r].next # 0 => Published(run[r].next) \subseteq Settled'
        BY <2>1, <2>3, <2>4, <2>5 DEF Ahead
    <2>7. Covers(cursor)'
        BY <1>0, <2>2, <2>4, <2>5, <2>6 DEF Covers
    <2> QED  BY <2>1, <2>4, <2>7, CoverEnd
<1>9. ASSUME NEW r \in Runs, FetchRaises(r) PROVE CursorInv'
    <2>1. /\ run' = [run EXCEPT ![r] = Idle] /\ UNCHANGED <<resolved, givenUp>>
          /\ cursor' # NoCursor => \/ cursor'.etag = 0
                                   \/ cursor # NoCursor /\ cursor'.etag = cursor.etag
        BY <1>9, RaisesTyped DEF store
    <2>2. Settled' = Settled
        BY <2>1 DEF Settled
    <2>3. Covers(cursor)'
        BY <1>0, <2>1, <2>2 DEF Covers
    <2> QED  BY <2>1, <2>2, <2>3, CoverEnd
<1>10. ASSUME NEW r \in Runs, Crash(r) PROVE CursorInv'
    <2>1. run' = [run EXCEPT ![r] = Idle] /\ UNCHANGED <<resolved, cursor, givenUp>>
        BY <1>10 DEF Crash, store
    <2>2. Settled' = Settled
        BY <2>1 DEF Settled
    <2>3. Covers(cursor)'
        BY <1>0, <2>1, <2>2 DEF Covers
    <2> QED  BY <2>1, <2>2, <2>3, CoverEnd
<1> QED
    BY <1>1, <1>2, <1>3, <1>4, <1>5, <1>6, <1>7, <1>8, <1>9, <1>10
    DEF Next, Progress, Fault, World, Fetches, FailsItem

\* However runs crash, abort, wait for each other and overlap, the saved etag
\* never covers an item that was neither processed nor given up by a driver.
THEOREM CursorAlwaysSafe == Spec => []CursorSafe
<1>1. Init => TypeInv /\ CursorInv
    <2> SUFFICES ASSUME Init PROVE TypeInv /\ CursorInv
        OBVIOUS
    <2>1. cursor = NoCursor /\ \A r \in Runs : run[r].loaded = NoCursor /\ run[r].pc = "idle"
        BY IdleTyped DEF Init
    <2> QED  BY <2>1, TypeInit DEF CursorInv, Covers, Ahead
<1>2. TypeInv /\ CursorInv /\ [Next]_vars => (TypeInv /\ CursorInv)'
    BY TypeStep, CursorStep
<1>3. TypeInv /\ CursorInv => CursorSafe
    BY DEF CursorInv, Covers, Settled, CursorSafe
<1> QED  BY <1>1, <1>2, <1>3, PTL DEF Spec

-----------------------------------------------------------------------------
(* The rows *)

\* The two unique keys of the ledger.
SameKey(p, q) == p.ext = q.ext \/ (p.content = q.content /\ p.bucket = q.bucket)

\* The rows that are committed or flushed by some session.
Rows == ledger \cup UNION {run[r].pend : r \in Runs}

FromItem(row) ==
    \E item \in Items : row.ext = ExternalId(collector, item) /\ row.content = item.content

\* What a row says of an item: its content, or the id that the source gave it.
Supports(row, item) ==
    \/ row.content = item.content
    \/ collector.key = "id" /\ row.ext = item.id

Unique == \A p, q \in Rows : SameKey(p, q) => p = q

Made == \A row \in Rows : FromItem(row)

\* Work rests on rows that are committed with it, or before it.
Rested ==
    /\ \A item \in resolved : \E row \in ledger : Supports(row, item)
    /\ \A r \in Runs : \A item \in run[r].done :
            \E row \in ledger \cup run[r].pend : Supports(row, item)

RowsInv == Unique /\ Made /\ Rested

\* A row that counts as the evidence of an item supports it.
LEMMA EvidenceSupports ==
    ASSUME TypeOK, NEW row, FromItem(row), NEW item \in Items, SameEvidence(row, item)
    PROVE  Supports(row, item)
<1>1. collector.key \in {"id", "version", "content"}
    BY CollectorKinds DEF TypeOK
<1>2. PICK i \in Items : row.ext = ExternalId(collector, i) /\ row.content = i.content
    BY DEF FromItem
<1>3. CASE row.ext = ExternalId(collector, item)
    <2>1. CASE collector.key = "id"
        BY <1>3, <2>1 DEF ExternalId, Supports
    <2>2. CASE collector.key = "version"
        <3>1. <<i.id, i.content>> = <<item.id, item.content>>
            BY <1>2, <1>3, <2>2 DEF ExternalId
        <3> QED  BY <1>2, <3>1 DEF Supports
    <2>3. CASE collector.key = "content"
        BY <1>2, <1>3, <2>3 DEF ExternalId, Supports
    <2> QED  BY <1>1, <2>1, <2>2, <2>3
<1>4. CASE row.content = item.content
    BY <1>4 DEF Supports
<1> QED  BY <1>3, <1>4 DEF SameEvidence

\* The row of an item is the evidence of it, and new where it is inserted:
\* append_evidence found none of its keys, and nobody else holds one.
LEMMA NewRowsFresh ==
    ASSUME TypeInv, NEW r \in Runs, Inserts(r), NEW item \in Items, item = Current(r)
    PROVE  /\ \A row \in NewRows(r, item) : FromItem(row) /\ Supports(row, item)
           /\ \A p \in NewRows(r, item), q \in Rows : ~ SameKey(p, q) /\ ~ SameKey(q, p)
           /\ \A p, q \in NewRows(r, item) : p = q
           /\ \/ \E row \in NewRows(r, item) : TRUE
              \/ \E row \in ledger \cup run[r].pend : SameEvidence(row, item)
<1>1. /\ RowOf(item).ext = ExternalId(collector, item)
      /\ RowOf(item).content = item.content
      /\ RowOf(item).bucket = bucket
    BY RowTyped DEF TypeInv
<1>2. FromItem(RowOf(item)) /\ Supports(RowOf(item), item)
    BY <1>1 DEF FromItem, Supports
<1>3. NewRows(r, item) \subseteq {RowOf(item)}
    BY DEF NewRows
<1>4. Ledgered(r, item) => NewRows(r, item) = {}
    BY DEF NewRows
<1>5. ~ Ledgered(r, item) => RowOf(item) \in NewRows(r, item)
    BY DEF NewRows
<1>6. ASSUME ~ Ledgered(r, item), NEW q \in Rows PROVE ~ SameEvidence(q, item)
    <2>1. CASE q \in ledger \cup run[r].pend
        BY <1>6, <2>1 DEF Ledgered
    <2>2. CASE q \notin ledger \cup run[r].pend
        <3>1. PICK other \in Runs : q \in run[other].pend
            BY <2>2 DEF Rows
        <3>2. other # r
            BY <2>2, <3>1
        <3>3. Holder(r, item) = {}
            BY DEF Inserts
        <3> QED  BY <1>6, <3>1, <3>2, <3>3 DEF Holder
    <2> QED  BY <2>1, <2>2
<1>7. \A q : ~ SameEvidence(q, item) => ~ SameKey(RowOf(item), q) /\ ~ SameKey(q, RowOf(item))
    BY <1>1 DEF SameEvidence, SameKey
<1>8. Ledgered(r, item) => \E row \in ledger \cup run[r].pend : SameEvidence(row, item)
    BY DEF Ledgered
<1> QED  BY <1>2, <1>3, <1>4, <1>5, <1>6, <1>7, <1>8

\* A step that adds at most a fresh row of its own.
LEMMA RowsGrow ==
    ASSUME Unique, Made, UNCHANGED collector,
           NEW fresh, Rows' \subseteq Rows \cup fresh,
           \A row \in fresh : FromItem(row),
           \A p \in fresh, q \in Rows : ~ SameKey(p, q) /\ ~ SameKey(q, p),
           \A p, q \in fresh : p = q
    PROVE  Unique' /\ Made'
<1>1. Made'
    BY DEF Made, FromItem
<1>2. Unique'
    BY DEF Unique, SameKey
<1> QED  BY <1>1, <1>2

\* A step of one session that commits no more than it may.
LEMMA RowsMoved ==
    ASSUME TypeInv, RowsInv, UNCHANGED collector, NEW r \in Runs, NEW new \in Session,
           run' = [run EXCEPT ![r] = new],
           NEW fresh, ledger \subseteq ledger', ledger' \subseteq ledger \cup run[r].pend \cup fresh,
           new.pend \subseteq run[r].pend \cup fresh,
           \A row \in fresh : FromItem(row),
           \A p \in fresh, q \in Rows : ~ SameKey(p, q) /\ ~ SameKey(q, p),
           \A p, q \in fresh : p = q,
           \A item \in resolved' \ resolved : \E row \in ledger' : Supports(row, item),
           \A item \in new.done : \E row \in ledger' \cup new.pend : Supports(row, item)
    PROVE  RowsInv'
<1>1. \A q \in Runs : run'[q] = IF q = r THEN new ELSE run[q]
    BY DEF TypeInv, TypeOK
<1>2. Rows' \subseteq Rows \cup fresh
    BY <1>1 DEF Rows
<1>3. Unique' /\ Made'
    BY <1>2, RowsGrow DEF RowsInv
<1>4. \A item \in resolved' : \E row \in ledger' : Supports(row, item)
    BY DEF RowsInv, Rested
<1>5. ASSUME NEW q \in Runs, NEW item \in run'[q].done
      PROVE  \E row \in ledger' \cup run'[q].pend : Supports(row, item)
    <2>1. CASE q = r
        BY <1>1, <1>5, <2>1
    <2>2. CASE q # r
        BY <1>1, <1>5, <2>2 DEF RowsInv, Rested
    <2> QED  BY <2>1, <2>2
<1>6. Rested'
    BY <1>4, <1>5 DEF Rested, Supports
<1> QED  BY <1>3, <1>6 DEF RowsInv

\* A run that ends with what it had pending, or without it.
LEMMA RowsEnded ==
    ASSUME TypeInv, RowsInv, UNCHANGED collector, NEW r \in Runs, run' = [run EXCEPT ![r] = Idle],
           \/ ledger' = ledger /\ resolved' = resolved
           \/ ledger' = ledger \cup run[r].pend /\ resolved' = resolved \cup run[r].done
    PROVE  RowsInv'
<1>1. Idle \in Session /\ Idle.pend = {} /\ Idle.done = {}
    BY IdleTyped
<1>2. \A item \in resolved' \ resolved : \E row \in ledger' : Supports(row, item)
    BY DEF RowsInv, Rested
<1>3. ledger \subseteq ledger' /\ ledger' \subseteq ledger \cup run[r].pend
    OBVIOUS
<1> DEFINE fresh == {}
<1>4. /\ \A row \in fresh : FromItem(row)
      /\ \A p \in fresh, q \in Rows : ~ SameKey(p, q) /\ ~ SameKey(q, p)
      /\ \A p, q \in fresh : p = q
      /\ ledger' \subseteq ledger \cup run[r].pend \cup fresh
      /\ Idle.pend \subseteq run[r].pend \cup fresh
    BY <1>1, <1>3
<1> HIDE DEF fresh
<1> QED  BY <1>1, <1>2, <1>3, <1>4, RowsMoved

\* A session that moves on with the rows and the work it has.
LEMMA RowsKept ==
    ASSUME TypeInv, RowsInv, UNCHANGED <<collector, store>>, NEW r \in Runs, NEW new \in Session,
           run' = [run EXCEPT ![r] = new],
           \/ new.pend = run[r].pend /\ new.done = run[r].done
           \/ new.pend = {} /\ new.done = {}
    PROVE  RowsInv'
<1>1. \A item \in new.done : \E row \in ledger' \cup new.pend : Supports(row, item)
    BY DEF RowsInv, Rested, store
<1> DEFINE fresh == {}
<1>2. /\ \A row \in fresh : FromItem(row)
      /\ \A p \in fresh, q \in Rows : ~ SameKey(p, q) /\ ~ SameKey(q, p)
      /\ \A p, q \in fresh : p = q
      /\ ledger' \subseteq ledger \cup run[r].pend \cup fresh /\ ledger \subseteq ledger'
      /\ new.pend \subseteq run[r].pend \cup fresh
      /\ \A item \in resolved' \ resolved : \E row \in ledger' : Supports(row, item)
    BY DEF store
<1> HIDE DEF fresh
<1> QED  BY <1>1, <1>2, RowsMoved

LEMMA RowsStep == ASSUME TypeInv, RowsInv, [Next]_vars PROVE RowsInv'
<1>0. run \in [Runs -> Session]
    BY DEF TypeInv, TypeOK, Session
<1>1. CASE UNCHANGED <<collector, ledger, resolved, run>>
    <2>1. Rows' = Rows
        BY <1>1 DEF Rows
    <2>2. Unique'
        BY <2>1 DEF RowsInv, Unique, SameKey
    <2>3. Made'
        BY <1>1, <2>1 DEF RowsInv, Made, FromItem
    <2>4. Rested'
        BY <1>1 DEF RowsInv, Rested, Supports
    <2> QED  BY <2>2, <2>3, <2>4 DEF RowsInv
<1>2. CASE World \/ UNCHANGED vars
    BY <1>1, <1>2, WorldStep DEF vars, world, store
<1>3. ASSUME NEW r \in Runs, NEW mode \in Modes, StartRun(r, mode) PROVE RowsInv'
    <2>1. UNCHANGED <<collector, store>>
        BY <1>3 DEF StartRun, world
    <2>2. PICK new \in Session : Moves(r, new) /\ new.pend = {} /\ new.done = {}
        BY <1>3, StartFields
    <2> QED  BY <2>1, <2>2, RowsKept DEF Moves
<1>4. ASSUME NEW r \in Runs, Fetches(r) PROVE RowsInv'
    <2>1. run[r].pc = "fetch" /\ UNCHANGED <<collector, store>>
        BY <1>4, FetchCases DEF world
    <2>2. PICK batch \in Seq(Items), etag \in {0} \cup Versions : Received(r, batch, etag)
        BY <1>4, FetchCases
    <2>3. PICK new \in Session : Moves(r, new) /\ new.pend = run[r].pend /\ new.done = run[r].done
        BY <2>1, <2>2, ReceivedFields
    <2> QED  BY <2>1, <2>3, RowsKept DEF Moves
<1>5. ASSUME NEW r \in Runs, ProcessItem(r) PROVE RowsInv'
    <2>1. PICK item \in Items : item = Current(r)
        BY <1>5, ProcessFields
    <2> DEFINE fresh == NewRows(r, item)
    <2>2. Inserts(r) /\ UNCHANGED collector
        BY <1>5, ProcessFields DEF world
    <2>3. PICK new \in Session :
            /\ Moves(r, new)
            /\ \/ /\ ledger' = ledger \cup run[r].pend \cup fresh
                  /\ resolved' = resolved \cup run[r].done \cup {item}
                  /\ new.pend = {} /\ new.done = {}
               \/ /\ UNCHANGED store
                  /\ new.pend = run[r].pend \cup fresh
                  /\ new.done = run[r].done \cup {item}
        BY <1>5, <2>1, ProcessFields
    <2>4. /\ \A row \in fresh : FromItem(row) /\ Supports(row, item)
          /\ \A p \in fresh, q \in Rows : ~ SameKey(p, q) /\ ~ SameKey(q, p)
          /\ \A p, q \in fresh : p = q
          /\ \/ \E row \in fresh : TRUE
             \/ \E row \in ledger \cup run[r].pend : SameEvidence(row, item)
        BY <2>1, <2>2, NewRowsFresh
    <2> HIDE DEF fresh
    <2>5. \E row \in ledger \cup run[r].pend \cup fresh : Supports(row, item)
        <3>1. CASE \E row \in fresh : TRUE
            BY <2>4, <3>1
        <3>2. CASE \E row \in ledger \cup run[r].pend : SameEvidence(row, item)
            <4>1. PICK row \in ledger \cup run[r].pend : SameEvidence(row, item)
                BY <3>2
            <4>2. FromItem(row) /\ TypeOK
                BY DEF RowsInv, Made, Rows, TypeInv
            <4> QED  BY <4>1, <4>2, EvidenceSupports
        <3> QED  BY <2>4, <3>1, <3>2
    <2>6. \A i \in run[r].done : \E row \in ledger \cup run[r].pend : Supports(row, i)
        BY DEF RowsInv, Rested
    <2>7. /\ ledger \subseteq ledger' /\ ledger' \subseteq ledger \cup run[r].pend \cup fresh
          /\ new.pend \subseteq run[r].pend \cup fresh
        BY <2>3 DEF store
    <2>8. ledger \cup run[r].pend \cup fresh = ledger' \cup new.pend
        BY <2>3 DEF store
    <2>9. \A i \in run[r].done \cup {item} : \E row \in ledger' \cup new.pend : Supports(row, i)
        BY <2>5, <2>6, <2>8
    <2>10. \A i \in new.done : \E row \in ledger' \cup new.pend : Supports(row, i)
        BY <2>3, <2>9
    <2>11. \A i \in resolved' \ resolved : \E row \in ledger' : Supports(row, i)
        BY <2>3, <2>9 DEF store
    <2>12. new \in Session /\ run' = [run EXCEPT ![r] = new]
        BY <2>3 DEF Moves
    <2>13. /\ \A row \in fresh : FromItem(row)
           /\ \A p \in fresh, q \in Rows : ~ SameKey(p, q) /\ ~ SameKey(q, p)
           /\ \A p, q \in fresh : p = q
        BY <2>4, Zenon
    <2> QED  BY <2>2, <2>7, <2>10, <2>11, <2>12, <2>13, RowsMoved
<1>6. ASSUME NEW r \in Runs, FailsItem(r) PROVE RowsInv'
    <2>1. /\ HasItem(r) \/ run[r].pc = "wait"
          /\ UNCHANGED collector
          /\ \/ SkipItem(r)
             \/ EndFailed(r, {}, {})
             \/ Inserts(r) /\ EndFailed(r, run[r].pend \cup NewRows(r, Current(r)), run[r].done)
        BY <1>6, FailCases DEF world
    <2>2. CASE SkipItem(r)
        <3>1. PICK new \in Session : Moves(r, new) /\ new.pend = run[r].pend /\ new.done = run[r].done
            BY <2>1, <2>2, SkippedFields
        <3>2. UNCHANGED store
            BY <2>2 DEF SkipItem
        <3> QED  BY <2>1, <3>1, <3>2, RowsKept DEF Moves
    <2>3. CASE EndFailed(r, {}, {})
        BY <2>1, <2>3, RowsEnded DEF EndFailed
    <2>4. CASE Inserts(r) /\ EndFailed(r, run[r].pend \cup NewRows(r, Current(r)), run[r].done)
        <3>1. PICK item \in Items : item = Current(r)
            BY <2>1, CurrentTyped
        <3> DEFINE fresh == NewRows(r, item)
        <3>2. /\ \A row \in fresh : FromItem(row)
              /\ \A p \in fresh, q \in Rows : ~ SameKey(p, q) /\ ~ SameKey(q, p)
              /\ \A p, q \in fresh : p = q
            BY <2>4, <3>1, NewRowsFresh
        <3>3. /\ run' = [run EXCEPT ![r] = Idle]
              /\ ledger' = ledger \cup run[r].pend \cup fresh
              /\ resolved' = resolved \cup run[r].done
            BY <2>4, <3>1 DEF EndFailed
        <3> HIDE DEF fresh
        <3>4. Idle \in Session /\ Idle.pend = {} /\ Idle.done = {}
            BY IdleTyped
        <3>5. \A i \in resolved' \ resolved : \E row \in ledger' : Supports(row, i)
            BY <3>3 DEF RowsInv, Rested
        <3>6. /\ ledger \subseteq ledger' /\ ledger' \subseteq ledger \cup run[r].pend \cup fresh
              /\ Idle.pend \subseteq run[r].pend \cup fresh
              /\ \A i \in Idle.done : \E row \in ledger' \cup Idle.pend : Supports(row, i)
            BY <3>3, <3>4
        <3> QED  BY <2>1, <3>2, <3>3, <3>4, <3>5, <3>6, RowsMoved
    <2> QED  BY <2>1, <2>2, <2>3, <2>4
<1>7. ASSUME NEW r \in Runs, InsertWaits(r) PROVE RowsInv'
    <2>1. run[r] \in Session
        BY PendTyped DEF TypeInv
    <2>2. PICK new \in Session : /\ new = [run[r] EXCEPT !.pc = "wait"]
                                 /\ new.pend = run[r].pend /\ new.done = run[r].done
        <3> DEFINE waiting == [run[r] EXCEPT !.pc = "wait"]
        <3>1. waiting \in Session /\ waiting.pend = run[r].pend /\ waiting.done = run[r].done
            BY <2>1 DEF Session
        <3> QED  BY <3>1, Zenon
    <2>3. run' = [run EXCEPT ![r] = new] /\ UNCHANGED <<collector, store>>
        BY <1>7, <2>2 DEF InsertWaits, world
    <2> QED  BY <2>2, <2>3, RowsKept
<1>8. ASSUME NEW r \in Runs, SaveCursor(r) \/ FetchRaises(r) \/ Crash(r) PROVE RowsInv'
    BY <1>8, RowsEnded DEF SaveCursor, FetchRaises, Crash, world, store
<1> QED
    BY <1>2, <1>3, <1>4, <1>5, <1>6, <1>7, <1>8
    DEF Next, Progress, Fault, World, Fetches, FailsItem

\* The inductive invariant of the rows: the keys are unique over what is
\* committed and what any session has flushed, every row is made of an item, and
\* work is never without the evidence that it rests on.
THEOREM RowsInvariant == Spec => [](TypeInv /\ RowsInv)
<1>1. Init => TypeInv /\ RowsInv
    <2> SUFFICES ASSUME Init PROVE TypeInv /\ RowsInv
        OBVIOUS
    <2>1. ledger = {} /\ resolved = {} /\ \A r \in Runs : run[r].pend = {} /\ run[r].done = {}
        BY IdleTyped DEF Init
    <2>2. Rows = {}
        BY <2>1 DEF Rows
    <2> QED  BY <2>1, <2>2, TypeInit DEF RowsInv, Unique, Made, Rested
<1>2. TypeInv /\ RowsInv /\ [Next]_vars => (TypeInv /\ RowsInv)'
    BY TypeStep, RowsStep
<1> QED  BY <1>1, <1>2, PTL DEF Spec

\* Two sessions that insert one event, replays and retries: the ledger has one
\* row of it, on both unique keys.
THEOREM EventsOnce == Spec => []OneRowPerEvent
<1>1. TypeInv /\ RowsInv => OneRowPerEvent
    BY DEF RowsInv, Unique, Rows, SameKey, OneRowPerEvent
<1> QED  BY <1>1, RowsInvariant, PTL

\* What was derived from an item rests on a committed row of its content, or of
\* its id where the ids are the source's own.
THEOREM WorkBacked == Spec => []Backed
<1>1. TypeInv /\ RowsInv => Backed
    BY DEF RowsInv, Rested, Supports, Backed
<1> QED  BY <1>1, RowsInvariant, PTL
=============================================================================
