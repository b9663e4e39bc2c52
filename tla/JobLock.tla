------------------------------- MODULE JobLock -------------------------------
(***************************************************************************)
(* The window lock of the scheduled jobs.  advisory_lock takes a session-  *)
(* level advisory lock of PostgreSQL: it belongs to the connection that    *)
(* the SQLAlchemy session has at that moment.  A commit hands the          *)
(* connection back to the worker's pool, first in first out, and the next  *)
(* statement, the unlock too, runs on the one that is first in the queue.  *)
(* A worker never runs two instances of one job (max_instances).           *)
(***************************************************************************)
EXTENDS Naturals, Sequences

CONSTANTS
    Workers,        \* processes with a scheduler, a pool each
    Jobs,
    Checkpointed,   \* the jobs that commit while they work
    Refused,        \* the jobs of which the database may refuse a statement
    PoolSize,       \* pool_size
    MaxOverflow,    \* max_overflow
    MaxDepth        \* bound: a lock taken again by the connection that has it

Connections  == 1..(PoolSize + MaxOverflow)
NoConnection == 0

VARIABLES
    idle,           \* each worker's pool of idle connections
    locks,          \* how often each connection has taken each job's lock
    job,            \* each worker's jobs: off, in their window, or out of it again
    skips           \* history: windows that were skipped, and who was in them then

vars == <<idle, locks, job, skips>>

Off == [at |-> "off", conn |-> NoConnection]

TypeOK ==
    /\ idle \in [Workers -> Seq(Connections)]
    /\ locks \in [Workers -> [Connections -> [Jobs -> Nat]]]
    /\ job \in [Workers -> [Jobs -> [at: {"off", "in", "out"}, conn: Connections \cup {NoConnection}]]]
    /\ \A w \in Workers, j \in Jobs : job[w][j].at = "out" => job[w][j].conn # NoConnection
    /\ skips \subseteq [worker: Workers, job: Jobs, others: SUBSET Workers]

Init ==
    /\ idle = [w \in Workers |-> <<>>]
    /\ locks = [w \in Workers |-> [c \in Connections |-> [j \in Jobs |-> 0]]]
    /\ job = [w \in Workers |-> [j \in Jobs |-> Off]]
    /\ skips = {}

-----------------------------------------------------------------------------
(* The pool *)

InUse(w) == {job[w][j].conn : j \in Jobs}

\* The connection that a statement gets: a new one only where none is idle.
FirstOut(w) == IF idle[w] = <<>> THEN Connections \ InUse(w) ELSE {Head(idle[w])}

Rest(w) == IF idle[w] = <<>> THEN <<>> ELSE Tail(idle[w])

Dropped(w, c) == [locks EXCEPT ![w][c] = [j \in Jobs |-> 0]]

\* A connection comes back: where the pool is full it is closed, and what it
\* had locked is free.
Returned(w, c, queue) ==
    IF Len(queue) < PoolSize
    THEN /\ idle' = [idle EXCEPT ![w] = Append(queue, c)]
         /\ UNCHANGED locks
    ELSE /\ idle' = [idle EXCEPT ![w] = queue]
         /\ locks' = Dropped(w, c)

-----------------------------------------------------------------------------
(* The jobs *)

\* pg_try_advisory_lock: granted unless another connection has it.
Grantable(w, c, j) ==
    \A v \in Workers, d \in Connections : locks[v][d][j] > 0 => v = w /\ d = c

\* The session's first statement asks for the lock.
Enters(w, j) ==
    /\ job[w][j].at = "off"
    /\ \E c \in FirstOut(w) :
        /\ Grantable(w, c, j)
        /\ locks[w][c][j] < MaxDepth
        /\ locks' = [locks EXCEPT ![w][c][j] = @ + 1]
        /\ idle' = [idle EXCEPT ![w] = Rest(w)]
        /\ job' = [job EXCEPT ![w][j] = [at |-> "in", conn |-> c]]
    /\ UNCHANGED skips

\* "Skipping: another worker holds the window lock."
Skips(w, j) ==
    /\ job[w][j].at = "off"
    /\ \E c \in FirstOut(w) :
        /\ ~ Grantable(w, c, j)
        /\ Returned(w, c, Rest(w))
    /\ skips' = skips \cup {[worker |-> w, job |-> j,
                             others |-> {v \in Workers \ {w} : job[v][j].at = "in"}]}
    /\ UNCHANGED job

\* run_collector_batch commits every INGEST_COMMIT_EVERY items.
Checkpoint(w, j) ==
    /\ j \in Checkpointed
    /\ job[w][j].at = "in"
    /\ job[w][j].conn # NoConnection
    /\ Returned(w, job[w][j].conn, idle[w])
    /\ job' = [job EXCEPT ![w][j] = [at |-> "in", conn |-> NoConnection]]
    /\ UNCHANGED skips

\* The next statement after a checkpoint, the unlock if nothing else is left.
GoesOn(w, j) ==
    /\ job[w][j].at = "in"
    /\ job[w][j].conn = NoConnection
    /\ \E c \in FirstOut(w) :
        /\ idle' = [idle EXCEPT ![w] = Rest(w)]
        /\ job' = [job EXCEPT ![w][j] = [at |-> "in", conn |-> c]]
    /\ UNCHANGED <<locks, skips>>

\* pg_advisory_unlock: a connection that does not have the lock is only warned.
Unlocks(w, j) ==
    LET c == job[w][j].conn
    IN  /\ job[w][j].at = "in"
        /\ c # NoConnection
        /\ locks' = [locks EXCEPT ![w][c][j] = IF @ > 0 THEN @ - 1 ELSE @]
        /\ job' = [job EXCEPT ![w][j] = [at |-> "out", conn |-> c]]
        /\ UNCHANGED <<idle, skips>>

\* The session ends with a commit.
Ends(w, j) ==
    /\ job[w][j].at = "out"
    /\ Returned(w, job[w][j].conn, idle[w])
    /\ job' = [job EXCEPT ![w][j] = Off]
    /\ UNCHANGED skips

\* The database refused a statement: in that transaction the unlock is refused
\* as well, and the session is rolled back.
Fails(w, j) ==
    /\ j \in Refused
    /\ job[w][j].at = "in"
    /\ job[w][j].conn # NoConnection
    /\ Returned(w, job[w][j].conn, idle[w])
    /\ job' = [job EXCEPT ![w][j] = Off]
    /\ UNCHANGED skips

\* The process ends and its connections with it.
Crash(w) ==
    /\ idle' = [idle EXCEPT ![w] = <<>>]
    /\ locks' = [locks EXCEPT ![w] = [c \in Connections |-> [j \in Jobs |-> 0]]]
    /\ job' = [job EXCEPT ![w] = [j \in Jobs |-> Off]]
    /\ UNCHANGED skips

Next ==
    \E w \in Workers :
        \/ Crash(w)
        \/ \E j \in Jobs :
            \/ Enters(w, j)
            \/ Skips(w, j)
            \/ Checkpoint(w, j)
            \/ GoesOn(w, j)
            \/ Unlocks(w, j)
            \/ Ends(w, j)
            \/ Fails(w, j)

Spec == Init /\ [][Next]_vars

-----------------------------------------------------------------------------
(* Properties *)

\* advisory_lock: "two workers cannot run the same collector window
\* concurrently" - wherever the commits, failed transactions and unlocks of a
\* job land, no two workers are in one window at once.
WindowExclusive ==
    \A j \in Jobs, v, w \in Workers : job[v][j].at = "in" /\ job[w][j].at = "in" => v = w

\* No connection is returned to a pool that is full already.
Fits ==
    \A w \in Workers : (\E j \in Jobs : job[w][j].conn # NoConnection) => Len(idle[w]) < PoolSize

\* "Skipping: another worker holds the window lock" (_run_collectors): where a
\* window is skipped, another worker is in it.
SkipJustified == \A skip \in skips : skip.others # {}
=============================================================================
