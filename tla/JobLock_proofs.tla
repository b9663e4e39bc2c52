--------------------------- MODULE JobLock_proofs ---------------------------
(***************************************************************************)
(* The window lock excludes, for every number of workers, jobs and         *)
(* connections, as long as no pool is too full to take a connection back.  *)
(***************************************************************************)
EXTENDS JobLock, TLAPS

-----------------------------------------------------------------------------
(* Type correctness *)

\* A connection that is handed out or taken back leaves the pool in its type.
LEMMA CheckedOutTyped ==
    ASSUME TypeOK, NEW w \in Workers
    PROVE  /\ FirstOut(w) \subseteq Connections
           /\ Rest(w) \in Seq(Connections)
BY DEF TypeOK, FirstOut, Rest

LEMMA ReturnedTyped ==
    ASSUME TypeOK, NEW w \in Workers, NEW c \in Connections, NEW queue \in Seq(Connections),
           Returned(w, c, queue)
    PROVE  /\ idle' \in [Workers -> Seq(Connections)]
           /\ locks' \in [Workers -> [Connections -> [Jobs -> Nat]]]
<1>1. /\ Append(queue, c) \in Seq(Connections)
      /\ [j \in Jobs |-> 0] \in [Jobs -> Nat]
    OBVIOUS
<1>2. CASE Len(queue) < PoolSize
    BY <1>1, <1>2 DEF TypeOK, Returned
<1>3. CASE ~ (Len(queue) < PoolSize)
    <2>1. idle' = [idle EXCEPT ![w] = queue] /\ locks' = [locks EXCEPT ![w][c] = [j \in Jobs |-> 0]]
        BY <1>3 DEF Returned, Dropped
    <2> QED  BY <1>1, <2>1 DEF TypeOK
<1> QED  BY <1>2, <1>3

LEMMA JobTyped ==
    ASSUME TypeOK, NEW w \in Workers, NEW j \in Jobs,
           NEW new \in [at: {"off", "in", "out"}, conn: Connections \cup {NoConnection}],
           new.at = "out" => new.conn # NoConnection,
           job' = [job EXCEPT ![w][j] = new]
    PROVE  /\ job' \in [Workers -> [Jobs -> [at: {"off", "in", "out"}, conn: Connections \cup {NoConnection}]]]
           /\ \A v \in Workers, k \in Jobs : job'[v][k] = IF v = w /\ k = j THEN new ELSE job[v][k]
           /\ \A v \in Workers, k \in Jobs : job'[v][k].at = "out" => job'[v][k].conn # NoConnection
<1>1. /\ job' \in [Workers -> [Jobs -> [at: {"off", "in", "out"}, conn: Connections \cup {NoConnection}]]]
      /\ \A v \in Workers, k \in Jobs : job'[v][k] = IF v = w /\ k = j THEN new ELSE job[v][k]
    BY DEF TypeOK
<1> QED  BY <1>1 DEF TypeOK

\* One cell of the table of advisory locks.
Sets(w, c, j, depth) == locks' = [locks EXCEPT ![w][c][j] = depth]

LEMMA LockCell ==
    ASSUME TypeOK, NEW w \in Workers, NEW c \in Connections, NEW j \in Jobs, NEW depth \in Nat,
           Sets(w, c, j, depth)
    PROVE  /\ locks' \in [Workers -> [Connections -> [Jobs -> Nat]]]
           /\ locks'[w][c][j] = depth
           /\ \A v \in Workers, d \in Connections, k \in Jobs :
                v # w \/ d # c \/ k # j => locks'[v][d][k] = locks[v][d][k]
<1>0. locks \in [Workers -> [Connections -> [Jobs -> Nat]]]
    BY DEF TypeOK
<1> DEFINE cell  == [locks[w][c] EXCEPT ![j] = depth]
           table == [locks[w] EXCEPT ![c] = cell]
<1>1. locks' = [locks EXCEPT ![w] = table]
    BY DEF Sets
<1>2. cell \in [Jobs -> Nat] /\ \A k \in Jobs : cell[k] = IF k = j THEN depth ELSE locks[w][c][k]
    BY <1>0
<1> HIDE DEF cell
<1>3. /\ table \in [Connections -> [Jobs -> Nat]]
      /\ \A d \in Connections : table[d] = IF d = c THEN cell ELSE locks[w][d]
    BY <1>0, <1>2
<1> HIDE DEF table
<1>4. /\ locks' \in [Workers -> [Connections -> [Jobs -> Nat]]]
      /\ \A v \in Workers : locks'[v] = IF v = w THEN table ELSE locks[v]
    BY <1>0, <1>1, <1>3
<1> QED  BY <1>2, <1>3, <1>4

LEMMA Decrement == ASSUME NEW n \in Nat PROVE (IF n > 0 THEN n - 1 ELSE n) \in Nat
OBVIOUS

LEMMA UnlocksCell ==
    ASSUME NEW w \in Workers, NEW j \in Jobs, Unlocks(w, j), NEW c, c = job[w][j].conn,
           NEW left, left = IF locks[w][c][j] > 0 THEN locks[w][c][j] - 1 ELSE locks[w][c][j]
    PROVE  Sets(w, c, j, left)
<1>1. locks' = [locks EXCEPT ![w][c][j] = IF locks[w][c][j] > 0 THEN locks[w][c][j] - 1 ELSE locks[w][c][j]]
    BY Zenon DEF Unlocks
<1> QED  BY <1>1, Zenon DEF Sets

LEMMA TypeStep == ASSUME TypeOK, [Next]_vars PROVE TypeOK'
<1>1. CASE UNCHANGED vars
    BY <1>1 DEF TypeOK, vars
<1>2. ASSUME NEW w \in Workers, Crash(w) PROVE TypeOK'
    BY <1>2 DEF TypeOK, Crash, Off
<1>3. ASSUME NEW w \in Workers, NEW j \in Jobs, Enters(w, j) PROVE TypeOK'
    <2>1. PICK c \in FirstOut(w) :
            /\ locks' = [locks EXCEPT ![w][c][j] = locks[w][c][j] + 1]
            /\ idle' = [idle EXCEPT ![w] = Rest(w)]
            /\ job' = [job EXCEPT ![w][j] = [at |-> "in", conn |-> c]]
        BY <1>3 DEF Enters
    <2>2. c \in Connections /\ Rest(w) \in Seq(Connections)
        BY <2>1, CheckedOutTyped
    <2>3. locks[w][c][j] + 1 \in Nat
        BY <2>2 DEF TypeOK
    <2>4. locks' \in [Workers -> [Connections -> [Jobs -> Nat]]]
        <3>1. Sets(w, c, j, locks[w][c][j] + 1)
            BY <2>1 DEF Sets
        <3> QED  BY <2>2, <2>3, <3>1, LockCell
    <2>5. /\ job' \in [Workers -> [Jobs -> [at: {"off", "in", "out"}, conn: Connections \cup {NoConnection}]]]
          /\ \A v \in Workers, k \in Jobs : job'[v][k].at = "out" => job'[v][k].conn # NoConnection
        <3> DEFINE new == [at |-> "in", conn |-> c]
        <3>1. /\ new \in [at: {"off", "in", "out"}, conn: Connections \cup {NoConnection}]
              /\ new.at # "out"
            BY <2>2
        <3>2. job' = [job EXCEPT ![w][j] = new]
            BY <2>1
        <3> HIDE DEF new
        <3> QED  BY <3>1, <3>2, JobTyped
    <2>6. idle' \in [Workers -> Seq(Connections)] /\ skips' = skips
        BY <1>3, <2>1, <2>2 DEF TypeOK, Enters
    <2> QED  BY <2>4, <2>5, <2>6 DEF TypeOK
<1>4. ASSUME NEW w \in Workers, NEW j \in Jobs, Skips(w, j) PROVE TypeOK'
    <2>1. PICK c \in FirstOut(w) : Returned(w, c, Rest(w))
        BY <1>4 DEF Skips
    <2>2. /\ idle' \in [Workers -> Seq(Connections)]
          /\ locks' \in [Workers -> [Connections -> [Jobs -> Nat]]]
        BY <2>1, CheckedOutTyped, ReturnedTyped
    <2>3. skips' \subseteq [worker: Workers, job: Jobs, others: SUBSET Workers]
        BY <1>4 DEF Skips, TypeOK
    <2> QED  BY <1>4, <2>2, <2>3 DEF Skips, TypeOK
<1>5. ASSUME NEW w \in Workers, NEW j \in Jobs, Checkpoint(w, j) PROVE TypeOK'
    <2>1. job[w][j].conn \in Connections /\ idle[w] \in Seq(Connections)
        BY <1>5 DEF TypeOK, Checkpoint
    <2>2. /\ idle' \in [Workers -> Seq(Connections)]
          /\ locks' \in [Workers -> [Connections -> [Jobs -> Nat]]]
        BY <1>5, <2>1, ReturnedTyped DEF Checkpoint
    <2> QED  BY <1>5, <2>2, JobTyped DEF TypeOK, Checkpoint
<1>6. ASSUME NEW w \in Workers, NEW j \in Jobs, GoesOn(w, j) PROVE TypeOK'
    <2>1. PICK c \in Connections :
            /\ idle' = [idle EXCEPT ![w] = Rest(w)]
            /\ job' = [job EXCEPT ![w][j] = [at |-> "in", conn |-> c]]
        BY <1>6, CheckedOutTyped DEF GoesOn
    <2>2. Rest(w) \in Seq(Connections)
        BY CheckedOutTyped
    <2> QED  BY <1>6, <2>1, <2>2, JobTyped DEF TypeOK, GoesOn
<1>7. ASSUME NEW w \in Workers, NEW j \in Jobs, Unlocks(w, j) PROVE TypeOK'
    <2> DEFINE c == job[w][j].conn
    <2>1. c \in Connections /\ c # NoConnection
        <3>1. c # NoConnection
            BY <1>7 DEF Unlocks
        <3>2. job[w][j] \in [at: {"off", "in", "out"}, conn: Connections \cup {NoConnection}]
            BY DEF TypeOK
        <3> QED  BY <3>1, <3>2
    <2>2. locks' \in [Workers -> [Connections -> [Jobs -> Nat]]]
        <3>1. PICK left : left = IF locks[w][c][j] > 0 THEN locks[w][c][j] - 1 ELSE locks[w][c][j]
            OBVIOUS
        <3>2. locks[w][c][j] \in Nat
            BY <2>1 DEF TypeOK
        <3>3. left \in Nat
            BY <3>1, <3>2, Decrement, Zenon
        <3>4. Sets(w, c, j, left)
            BY <1>7, <3>1, UnlocksCell, Zenon
        <3> HIDE DEF c
        <3> QED  BY <2>1, <3>3, <3>4, LockCell
    <2>3. job' = [job EXCEPT ![w][j] = [at |-> "out", conn |-> c]]
        BY <1>7 DEF Unlocks
    <2>4. UNCHANGED <<idle, skips>>
        BY <1>7 DEF Unlocks
    <2> DEFINE new == [at |-> "out", conn |-> c]
    <2>5. new \in [at: {"off", "in", "out"}, conn: Connections \cup {NoConnection}] /\ new.conn # NoConnection
        BY <2>1
    <2>6. job' = [job EXCEPT ![w][j] = new]
        BY <2>3
    <2> HIDE DEF new
    <2>7. /\ job' \in [Workers -> [Jobs -> [at: {"off", "in", "out"}, conn: Connections \cup {NoConnection}]]]
          /\ \A v \in Workers, k \in Jobs : job'[v][k].at = "out" => job'[v][k].conn # NoConnection
        BY <2>5, <2>6, JobTyped
    <2> QED  BY <2>2, <2>4, <2>7 DEF TypeOK
<1>8. ASSUME NEW w \in Workers, NEW j \in Jobs, Ends(w, j) PROVE TypeOK'
    <2>1. job[w][j].conn \in Connections /\ idle[w] \in Seq(Connections)
        BY <1>8 DEF TypeOK, Ends
    <2>2. /\ idle' \in [Workers -> Seq(Connections)]
          /\ locks' \in [Workers -> [Connections -> [Jobs -> Nat]]]
        BY <1>8, <2>1, ReturnedTyped DEF Ends
    <2> QED  BY <1>8, <2>2 DEF TypeOK, Ends, Off
<1>9. ASSUME NEW w \in Workers, NEW j \in Jobs, Fails(w, j) PROVE TypeOK'
    <2>1. job[w][j].conn \in Connections /\ idle[w] \in Seq(Connections)
        BY <1>9 DEF TypeOK, Fails
    <2>2. /\ idle' \in [Workers -> Seq(Connections)]
          /\ locks' \in [Workers -> [Connections -> [Jobs -> Nat]]]
        BY <1>9, <2>1, ReturnedTyped DEF Fails
    <2> QED  BY <1>9, <2>2 DEF TypeOK, Fails, Off
<1> QED
    BY <1>1, <1>2, <1>3, <1>4, <1>5, <1>6, <1>7, <1>8, <1>9 DEF Next

\* The pools hold connections, the locks are counted, a job that has left its
\* window still has a connection.
THEOREM TypeCorrect == Spec => []TypeOK
<1>1. Init => TypeOK
    BY DEF Init, TypeOK, Off
<1> QED  BY <1>1, TypeStep, PTL DEF Spec

-----------------------------------------------------------------------------
(* Exclusion *)

\* The pools never exceed their size.
Pooled == \A w \in Workers : Len(idle[w]) <= PoolSize

\* Some connection of the worker has the lock of the window that it is in,
\* whichever connection the job runs on by now.
Held == \A w \in Workers, j \in Jobs :
            job[w][j].at = "in" => \E c \in Connections : locks[w][c][j] > 0

\* A lock is on one connection of all.
One == \A v, w \in Workers, c, d \in Connections, j \in Jobs :
            locks[v][c][j] > 0 /\ locks[w][d][j] > 0 => v = w /\ c = d

Inv == TypeOK /\ Pooled /\ Held /\ One

LEMMA InvExcludes == Inv => WindowExclusive
BY DEF Inv, Held, One, WindowExclusive

\* Where there is room a connection keeps its locks.
LEMMA ReturnedKeeps ==
    ASSUME PoolSize \in Nat, TypeOK, Pooled, NEW w \in Workers, NEW c \in Connections,
           NEW queue \in Seq(Connections), Len(queue) < PoolSize, Returned(w, c, queue)
    PROVE  Pooled' /\ UNCHANGED locks
<1>1. idle' = [idle EXCEPT ![w] = Append(queue, c)] /\ UNCHANGED locks
    BY DEF Returned
<1>2. Len(Append(queue, c)) = Len(queue) + 1 /\ Len(queue) \in Nat
    OBVIOUS
<1>3. Len(Append(queue, c)) <= PoolSize
    BY <1>2
<1> QED  BY <1>1, <1>3 DEF TypeOK, Pooled

LEMMA RestShorter ==
    ASSUME PoolSize \in Nat \ {0}, TypeOK, Pooled, NEW w \in Workers
    PROVE  Len(Rest(w)) < PoolSize
<1>1. idle[w] \in Seq(Connections) /\ Len(idle[w]) <= PoolSize
    BY DEF TypeOK, Pooled
<1>2. CASE idle[w] = <<>>
    BY <1>2 DEF Rest
<1>3. CASE idle[w] # <<>>
    <2>1. Len(Tail(idle[w])) = Len(idle[w]) - 1 /\ Len(idle[w]) \in Nat
        BY <1>1, <1>3
    <2> QED  BY <1>1, <1>3, <2>1 DEF Rest
<1> QED  BY <1>2, <1>3

\* Locks that stay as they are hold whatever jobs stay or leave.
LEMMA LocksStay ==
    ASSUME TypeOK, Held, One, UNCHANGED locks,
           \A w \in Workers, j \in Jobs : job'[w][j].at = "in" => job[w][j].at = "in"
    PROVE  Held' /\ One'
BY DEF Held, One

LEMMA InvStep ==
    ASSUME PoolSize \in Nat \ {0}, Inv, Fits, [Next]_vars
    PROVE  Inv'
<1> USE DEF Inv
<1>0. TypeOK'
    BY TypeStep
<1>1. CASE UNCHANGED vars
    BY <1>0, <1>1 DEF Pooled, Held, One, vars
<1>2. ASSUME NEW w \in Workers, Crash(w) PROVE Inv'
    <2>1. Pooled'
        BY <1>2 DEF Crash, Pooled, TypeOK
    <2>2. \A v \in Workers, c \in Connections, j \in Jobs :
            locks'[v][c][j] = IF v = w THEN 0 ELSE locks[v][c][j]
        BY <1>2 DEF Crash, TypeOK
    <2>3. \A v \in Workers, j \in Jobs :
            job'[v][j].at = "in" => v # w /\ job[v][j].at = "in"
        BY <1>2 DEF Crash, TypeOK, Off
    <2> QED  BY <1>0, <2>1, <2>2, <2>3 DEF Held, One
<1>3. ASSUME NEW w \in Workers, NEW j \in Jobs, Enters(w, j) PROVE Inv'
    <2>1. PICK c \in FirstOut(w) :
            /\ Grantable(w, c, j)
            /\ locks' = [locks EXCEPT ![w][c][j] = @ + 1]
            /\ idle' = [idle EXCEPT ![w] = Rest(w)]
            /\ job' = [job EXCEPT ![w][j] = [at |-> "in", conn |-> c]]
        BY <1>3 DEF Enters
    <2>2. c \in Connections /\ Len(Rest(w)) <= PoolSize /\ locks[w][c][j] \in Nat
        BY <2>1, CheckedOutTyped, RestShorter DEF TypeOK
    <2>3. Pooled'
        BY <2>1, <2>2 DEF Pooled, TypeOK
    <2>4. \A v \in Workers, d \in Connections, k \in Jobs :
            locks'[v][d][k] = IF v = w /\ d = c /\ k = j THEN locks[w][c][j] + 1 ELSE locks[v][d][k]
        <3>1. PICK depth \in Nat : depth = locks[w][c][j] + 1
            BY <2>2
        <3>2. Sets(w, c, j, depth)
            BY <2>1, <3>1 DEF Sets
        <3>3. /\ locks'[w][c][j] = depth
              /\ \A v \in Workers, d \in Connections, k \in Jobs :
                    v # w \/ d # c \/ k # j => locks'[v][d][k] = locks[v][d][k]
            BY <1>3, <2>2, <3>2, LockCell
        <3> QED  BY <3>1, <3>3
    <2>5. \A v \in Workers, k \in Jobs :
            job'[v][k].at = "in" => (v = w /\ k = j) \/ job[v][k].at = "in"
        BY <2>1 DEF TypeOK
    <2>6. locks'[w][c][j] > 0
        BY <2>2, <2>4
    <2>7. Held'
        <3> SUFFICES ASSUME NEW v \in Workers, NEW k \in Jobs, job'[v][k].at = "in"
                     PROVE  \E d \in Connections : locks'[v][d][k] > 0
            BY DEF Held
        <3>1. CASE v = w /\ k = j
            BY <2>2, <2>6, <3>1
        <3>2. CASE ~ (v = w /\ k = j)
            <4>1. PICK d \in Connections : locks[v][d][k] > 0
                BY <2>5, <3>2 DEF Held
            <4> QED  BY <2>4, <3>2, <4>1
        <3> QED  BY <3>1, <3>2
    <2>8. One'
        BY <2>1, <2>2, <2>4 DEF One, Grantable
    <2> QED  BY <1>0, <2>3, <2>7, <2>8
<1>4. ASSUME NEW w \in Workers, NEW j \in Jobs, Skips(w, j) PROVE Inv'
    <2>1. PICK c \in FirstOut(w) : Returned(w, c, Rest(w))
        BY <1>4 DEF Skips
    <2>2. Pooled' /\ UNCHANGED locks
        BY <2>1, CheckedOutTyped, RestShorter, ReturnedKeeps
    <2>3. Held' /\ One'
        BY <1>4, <2>2, LocksStay DEF Skips
    <2> QED  BY <1>0, <2>2, <2>3
<1>5. ASSUME NEW w \in Workers, NEW j \in Jobs, Checkpoint(w, j) \/ Ends(w, j) \/ Fails(w, j)
      PROVE  Inv'
    <2>1. /\ job[w][j].conn \in Connections
          /\ idle[w] \in Seq(Connections)
          /\ Returned(w, job[w][j].conn, idle[w])
        BY <1>5 DEF Checkpoint, Ends, Fails, TypeOK
    <2>2. job[w][j].conn # NoConnection
        BY <1>5 DEF Checkpoint, Ends, Fails, TypeOK
    <2>3. Len(idle[w]) < PoolSize
        BY <2>2 DEF Fits
    <2>4. Pooled' /\ UNCHANGED locks
        BY <2>1, <2>3, ReturnedKeeps
    <2>5. \A v \in Workers, k \in Jobs : job'[v][k].at = "in" => job[v][k].at = "in"
        <3>1. CASE Checkpoint(w, j)
            BY <3>1 DEF Checkpoint, TypeOK
        <3>2. CASE Ends(w, j)
            BY <3>2 DEF Ends, TypeOK, Off
        <3>3. CASE Fails(w, j)
            BY <3>3 DEF Fails, TypeOK, Off
        <3> QED  BY <1>5, <3>1, <3>2, <3>3
    <2> QED  BY <1>0, <2>4, <2>5, LocksStay
<1>6. ASSUME NEW w \in Workers, NEW j \in Jobs, GoesOn(w, j) PROVE Inv'
    <2>1. Pooled'
        <3>1. Len(Rest(w)) <= PoolSize
            BY RestShorter, CheckedOutTyped
        <3> QED  BY <1>6, <3>1 DEF GoesOn, Pooled, TypeOK
    <2>2. \A v \in Workers, k \in Jobs : job'[v][k].at = "in" => job[v][k].at = "in"
        <3>1. PICK new : job' = [job EXCEPT ![w][j] = new]
            BY <1>6 DEF GoesOn
        <3>2. job[w][j].at = "in"
            BY <1>6 DEF GoesOn
        <3>3. \A v \in Workers, k \in Jobs : v # w \/ k # j => job'[v][k] = job[v][k]
            BY <1>0, <3>1 DEF TypeOK
        <3> QED  BY <3>2, <3>3
    <2>3. UNCHANGED locks
        BY <1>6 DEF GoesOn
    <2> QED  BY <1>0, <2>1, <2>2, <2>3, LocksStay
<1>7. ASSUME NEW w \in Workers, NEW j \in Jobs, Unlocks(w, j) PROVE Inv'
    <2> DEFINE c == job[w][j].conn
    <2>1. c \in Connections /\ locks[w][c][j] \in Nat
        <3>1. c # NoConnection
            BY <1>7 DEF Unlocks
        <3>2. job[w][j] \in [at: {"off", "in", "out"}, conn: Connections \cup {NoConnection}]
            BY <1>0 DEF TypeOK
        <3>3. c \in Connections
            BY <3>1, <3>2
        <3> QED  BY <1>0, <3>3 DEF TypeOK
    <2>2. Pooled'
        BY <1>7 DEF Unlocks, Pooled
    <2>3. \A v \in Workers, d \in Connections, k \in Jobs :
            locks'[v][d][k] = IF v = w /\ d = c /\ k = j
                              THEN (IF locks[w][c][j] > 0 THEN locks[w][c][j] - 1 ELSE locks[w][c][j])
                              ELSE locks[v][d][k]
        <3>1. PICK left : left = IF locks[w][c][j] > 0 THEN locks[w][c][j] - 1 ELSE locks[w][c][j]
            OBVIOUS
        <3>2. left \in Nat
            BY <2>1, <3>1, Decrement, Zenon
        <3>3. Sets(w, c, j, left)
            BY <1>7, <3>1, UnlocksCell, Zenon
        <3> HIDE DEF c
        <3>4. /\ locks'[w][c][j] = left
              /\ \A v \in Workers, d \in Connections, k \in Jobs :
                    v # w \/ d # c \/ k # j => locks'[v][d][k] = locks[v][d][k]
            BY <1>7, <2>1, <3>2, <3>3, LockCell
        <3> QED  BY <3>1, <3>4
    <2>4. \A v \in Workers, k \in Jobs :
            job'[v][k].at = "in" => ~ (v = w /\ k = j) /\ job[v][k].at = "in"
        BY <1>7 DEF Unlocks, TypeOK
    <2>5. \A v \in Workers, d \in Connections, k \in Jobs : locks'[v][d][k] > 0 => locks[v][d][k] > 0
        BY <2>1, <2>3
    <2>6. Held'
        <3> SUFFICES ASSUME NEW v \in Workers, NEW k \in Jobs, job'[v][k].at = "in"
                     PROVE  \E d \in Connections : locks'[v][d][k] > 0
            BY DEF Held
        <3>1. PICK d \in Connections : locks[v][d][k] > 0
            BY <2>4 DEF Held
        <3> QED  BY <2>3, <2>4, <3>1
    <2>7. One'
        BY <2>5 DEF One
    <2> QED  BY <1>0, <2>2, <2>6, <2>7
<1> QED
    BY <1>1, <1>2, <1>3, <1>4, <1>5, <1>6, <1>7 DEF Next

\* Wherever commits, rollbacks and unlocks of the jobs land, two workers are
\* never in one window, as long as no pool is too full to take a connection back.
THEOREM Exclusive ==
    ASSUME PoolSize \in Nat \ {0}
    PROVE  Spec /\ []Fits => []WindowExclusive
<1>1. Init => Inv
    <2>1. Init => TypeOK
        BY DEF Init, TypeOK, Off
    <2>2. ASSUME Init PROVE Pooled
        <3>1. Len(<<>>) = 0 /\ 0 <= PoolSize
            OBVIOUS
        <3>2. \A w \in Workers : idle[w] = <<>>
            BY <2>2 DEF Init
        <3> QED  BY <3>1, <3>2 DEF Pooled
    <2>3. ASSUME Init PROVE Held /\ One
        <3>1. \A w \in Workers, j \in Jobs : job[w][j].at # "in"
            BY <2>3 DEF Init, Off
        <3>2. \A w \in Workers, c \in Connections, j \in Jobs : ~ (locks[w][c][j] > 0)
            BY <2>3 DEF Init
        <3> QED  BY <3>1, <3>2 DEF Held, One
    <2> QED  BY <2>1, <2>2, <2>3 DEF Inv
<1>2. Inv /\ Fits /\ [Next]_vars => Inv'
    BY InvStep
<1> QED  BY <1>1, <1>2, InvExcludes, PTL DEF Spec
=============================================================================
