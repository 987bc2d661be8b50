---------------------------- MODULE LoggerProofs ----------------------------
(***************************************************************************)
(* The log, for every number of threads, records and restarts: the console *)
(* and server.log agree, and no record that was written is lost or doubled. *)
(***************************************************************************)
EXTENDS Logger, SequenceTheorems, TLAPS

Labels == {"idle", "lock", "console", "file", "flush", "unlock"}

Holding == {"console", "file", "flush", "unlock"}

LogTyped ==
  /\ process \in {"up", "down"} /\ log_file \in {"open", "closed"}
  /\ log_mutex \in Threads \cup {Nobody}
  /\ at \in [Threads -> Labels] /\ record \in [Threads -> Nat]
  /\ calls \in Nat /\ calls <= MaxRecords
  /\ console \in Seq(Nat) /\ buffered \in Seq(Nat) /\ disk \in Seq(Nat)
  /\ opened \in Nat /\ opened <= Len(disk)

OnDisk(n) == \E i \in 1 .. Len(disk) : disk[i] = n

\* A process that is down holds nothing of the log.
DownIsEmpty ==
  /\ log_file = "open" => process = "up"
  /\ process = "down" => log_mutex = Nobody /\ console = <<>> /\ buffered = <<>>
                         /\ \A t \in Threads : at[t] = "idle"

\* log_mutex: its holder is the one thread between lock and unlock.
MutexHeld == \A t \in Threads : at[t] \in Holding <=> log_mutex = t

\* Every call has a record of its own, which gets to the disk once.
RecordsAreOwn ==
  /\ \A t \in Threads : record[t] <= calls
  /\ \A t \in Threads : at[t] # "idle" => record[t] >= 1
  /\ \A t, u \in Threads : t # u /\ at[t] # "idle" /\ at[u] # "idle" => record[t] # record[u]
  /\ \A t \in Threads : at[t] \in {"lock", "console", "file", "flush"} => ~OnDisk(record[t])
  /\ \A i \in 1 .. Len(disk) : disk[i] >= 1 /\ disk[i] <= calls
  /\ \A i, j \in 1 .. Len(disk) : disk[i] = disk[j] => i = j
  /\ \A n \in returned : OnDisk(n)

\* How many records the console shows that are not on the disk yet; all others are the same.
Ahead(k) ==
  /\ Len(console) = (Len(disk) - opened) + k
  /\ \A i \in 1 .. Len(disk) - opened : console[i] = disk[opened + i]

\* What the holder of the mutex has done of its call.
Progress ==
  /\ \A t \in Threads :
       /\ at[t] \in {"file", "flush"} =>
            log_file = "open" /\ Ahead(1) /\ console[Len(console)] = record[t]
       /\ at[t] = "flush" => buffered = <<record[t]>>
       /\ at[t] = "unlock" /\ log_file = "open" => OnDisk(record[t])
  /\ (\A t \in Threads : at[t] # "flush") => buffered = <<>>
  /\ log_file = "open" /\ (\A t \in Threads : at[t] \notin {"file", "flush"}) => Ahead(0)

\* The inductive invariant.
LogInv == LogTyped /\ DownIsEmpty /\ MutexHeld /\ RecordsAreOwn /\ Progress

\* Two threads are never between lock and unlock.
LEMMA OthersWait ==
  ASSUME LogInv, NEW t \in Threads, at[t] \in Holding, NEW u \in Threads, u # t
  PROVE  at[u] \in {"idle", "lock"} /\ log_mutex = t
BY DEF LogInv, LogTyped, MutexHeld, Labels, Holding

LEMMA LoggerInitKeeps == ASSUME LogInv, LoggerInit PROVE LogInv'
<1> USE DEF LogInv, LoggerInit
<1>1. LogTyped'
  BY DEF LogTyped
<1>2. DownIsEmpty' /\ MutexHeld'
  BY DEF DownIsEmpty, MutexHeld
<1>3. RecordsAreOwn'
  BY DEF RecordsAreOwn, OnDisk
<1>4. Progress'
  BY DEF Progress, DownIsEmpty, LogTyped, Ahead, OnDisk
<1> QED
  BY <1>1, <1>2, <1>3, <1>4

\* There is nothing in the buffer when nobody holds the mutex.
LEMMA LoggerCloseKeeps == ASSUME LogInv, LoggerClose PROVE LogInv'
<1>1. \A t \in Threads : at[t] \in {"idle", "lock"}
  BY LogAssumption DEF LogInv, LogTyped, MutexHeld, LoggerClose, Labels, Holding
<1>2. buffered = <<>>
  BY <1>1 DEF LogInv, Progress
<1>3. disk' = disk
  BY <1>2, ConcatEmptySeq DEF LogInv, LogTyped, LoggerClose
<1> USE <1>1, <1>2, <1>3 DEF LogInv, LoggerClose
<1>4. LogTyped'
  BY DEF LogTyped
<1>5. DownIsEmpty' /\ MutexHeld'
  BY DEF DownIsEmpty, MutexHeld
<1>6. RecordsAreOwn'
  BY DEF RecordsAreOwn, OnDisk
<1>7. Progress'
  BY DEF Progress
<1> QED
  BY <1>4, <1>5, <1>6, <1>7

\* What is lost with the process was not on the disk, and belonged to calls that had not
\* returned.
LEMMA EndKeeps == ASSUME LogInv, End PROVE LogInv'
<1> USE DEF LogInv, End
<1>1. LogTyped'
  BY DEF LogTyped, Labels, NoRecord
<1>2. DownIsEmpty' /\ MutexHeld'
  BY LogAssumption DEF DownIsEmpty, MutexHeld, Holding
<1>3. RecordsAreOwn'
  BY DEF RecordsAreOwn, OnDisk, NoRecord, LogTyped
<1>4. Progress'
  BY DEF Progress
<1> QED
  BY <1>1, <1>2, <1>3, <1>4

LEMMA MakeRecordKeeps == ASSUME LogInv, NEW t \in Threads, MakeRecord(t) PROVE LogInv'
<1> USE DEF LogInv, MakeRecord
<1>1. LogTyped'
  BY LogAssumption DEF LogTyped, Labels
<1>2. DownIsEmpty' /\ MutexHeld'
  BY DEF DownIsEmpty, MutexHeld, Holding, LogTyped
<1>3. RecordsAreOwn'
  <2>1. /\ record'[t] = calls + 1 /\ at'[t] = "lock"
        /\ \A u \in Threads : u # t => record'[u] = record[u] /\ at'[u] = at[u]
    BY DEF LogTyped
  <2>2. \A u \in Threads : record[u] <= calls /\ record[u] \in Nat
    BY DEF RecordsAreOwn, LogTyped
  <2>3. ~OnDisk(calls + 1)
    BY DEF RecordsAreOwn, OnDisk, LogTyped
  <2>4. \A n : OnDisk(n)' <=> OnDisk(n)
    BY DEF OnDisk
  <2>5. /\ \A u \in Threads : record'[u] <= calls'
        /\ \A u \in Threads : at'[u] # "idle" => record'[u] >= 1
        /\ \A i \in 1 .. Len(disk) : disk[i] >= 1 /\ disk[i] <= calls'
    BY <2>1, <2>2 DEF RecordsAreOwn, LogTyped
  <2>6. \A u, v \in Threads :
          u # v /\ at'[u] # "idle" /\ at'[v] # "idle" => record'[u] # record'[v]
    BY <2>1, <2>2 DEF RecordsAreOwn, LogTyped
  <2>7. \A u \in Threads : at'[u] \in {"lock", "console", "file", "flush"} => ~OnDisk(record'[u])
    BY <2>1, <2>3 DEF RecordsAreOwn
  <2> QED
    BY <2>4, <2>5, <2>6, <2>7 DEF RecordsAreOwn
<1>4. Progress'
  BY DEF Progress, OnDisk, Ahead, LogTyped
<1> QED
  BY <1>1, <1>2, <1>3, <1>4

LEMMA LockKeeps == ASSUME LogInv, NEW t \in Threads, Lock(t) PROVE LogInv'
<1> USE DEF LogInv, Lock, Moves
<1>1. LogTyped'
  BY DEF LogTyped, Labels
<1>2. DownIsEmpty' /\ MutexHeld'
  BY LogAssumption DEF DownIsEmpty, MutexHeld, Holding, LogTyped
<1>3. RecordsAreOwn'
  BY DEF RecordsAreOwn, OnDisk, LogTyped
<1>4. Progress'
  BY DEF Progress, OnDisk, Ahead, LogTyped
<1> QED
  BY <1>1, <1>2, <1>3, <1>4

\* The console is one record ahead until the record is on the disk, if there is a file.
LEMMA ShowRecordKeeps == ASSUME LogInv, NEW t \in Threads, ShowRecord(t) PROVE LogInv'
<1> DEFINE next == IF log_file = "open" THEN "file" ELSE "unlock"
<1>1. /\ at[t] = "console" /\ at' = [at EXCEPT ![t] = next]
      /\ console' = Append(console, record[t])
      /\ UNCHANGED <<process, log_file, log_mutex, record, calls, buffered, disk, opened, returned>>
  BY DEF ShowRecord, Moves
<1>2. next \in {"file", "unlock"} /\ (next = "file" <=> log_file = "open")
  BY DEF LogInv, LogTyped
<1> HIDE DEF next
<1>3. /\ at'[t] = next
      /\ \A u \in Threads : u # t => at'[u] = at[u] /\ at'[u] \in {"idle", "lock"}
  BY <1>1, OthersWait DEF LogInv, LogTyped, Holding
<1>4. /\ console' \in Seq(Nat) /\ Len(console') = Len(console) + 1
      /\ \A i \in 1 .. Len(console) : console'[i] = console[i]
      /\ console'[Len(console')] = record[t]
  BY <1>1, AppendProperties DEF LogInv, LogTyped
<1>5. LogTyped'
  BY <1>1, <1>2, <1>4 DEF LogInv, LogTyped, Labels
<1>6. DownIsEmpty' /\ MutexHeld'
  BY <1>1, <1>2, <1>3 DEF LogInv, DownIsEmpty, MutexHeld, Holding
<1>7. RecordsAreOwn'
  BY <1>1, <1>2, <1>3 DEF LogInv, RecordsAreOwn, OnDisk
<1>8. Progress'
  <2>1. \A u \in Threads : at[u] \notin {"file", "flush"}
    BY <1>1, <1>3
  <2>2. log_file = "open" => Ahead(0)
    BY <2>1 DEF LogInv, Progress
  <2>3. log_file = "open" => Ahead(1)'
    BY <1>1, <1>4, <2>2 DEF Ahead, LogInv, LogTyped
  <2>4. buffered = <<>>
    BY <2>1 DEF LogInv, Progress
  <2> QED
    BY <1>1, <1>2, <1>3, <1>4, <2>3, <2>4 DEF Progress
<1> QED
  BY <1>5, <1>6, <1>7, <1>8 DEF LogInv

LEMMA PrintFileKeeps == ASSUME LogInv, NEW t \in Threads, PrintFile(t) PROVE LogInv'
<1>1. /\ at[t] = "file" /\ at' = [at EXCEPT ![t] = "flush"]
      /\ buffered' = Append(buffered, record[t])
      /\ UNCHANGED <<process, log_file, log_mutex, record, calls, console, disk, opened, returned>>
  BY DEF PrintFile, Moves
<1>2. /\ at'[t] = "flush"
      /\ \A u \in Threads : u # t => at'[u] = at[u] /\ at'[u] \in {"idle", "lock"}
  BY <1>1, OthersWait DEF LogInv, LogTyped, Holding
<1>3. buffered = <<>>
  BY <1>1, <1>2 DEF LogInv, Progress
<1>4. buffered' = <<record[t]>> /\ buffered' \in Seq(Nat)
  BY <1>1, <1>3 DEF LogInv, LogTyped
<1>5. LogTyped'
  BY <1>1, <1>4 DEF LogInv, LogTyped, Labels
<1>6. DownIsEmpty' /\ MutexHeld'
  BY <1>1, <1>2 DEF LogInv, DownIsEmpty, MutexHeld, Holding
<1>7. RecordsAreOwn'
  BY <1>1, <1>2 DEF LogInv, RecordsAreOwn, OnDisk
<1>8. Progress'
  BY <1>1, <1>2, <1>4 DEF LogInv, Progress, Ahead
<1> QED
  BY <1>5, <1>6, <1>7, <1>8 DEF LogInv

\* The record comes to the end of the disk, where console has it too.
LEMMA FlushKeeps == ASSUME LogInv, NEW t \in Threads, Flush(t) PROVE LogInv'
<1>1. /\ at[t] = "flush" /\ at' = [at EXCEPT ![t] = "unlock"]
      /\ disk' = disk \o buffered /\ buffered' = <<>>
      /\ UNCHANGED <<process, log_file, log_mutex, record, calls, console, opened, returned>>
  BY DEF Flush, Moves
<1>2. /\ at'[t] = "unlock"
      /\ \A u \in Threads : u # t => at'[u] = at[u] /\ at'[u] \in {"idle", "lock"}
  BY <1>1, OthersWait DEF LogInv, LogTyped, Holding
<1>3. /\ buffered = <<record[t]>> /\ log_file = "open" /\ Ahead(1)
      /\ console[Len(console)] = record[t]
  BY <1>1 DEF LogInv, Progress
<1>4. /\ disk' \in Seq(Nat) /\ Len(disk') = Len(disk) + 1
      /\ \A i \in 1 .. Len(disk) : disk'[i] = disk[i]
      /\ disk'[Len(disk) + 1] = record[t]
  <2>1. disk \in Seq(Nat) /\ buffered \in Seq(Nat) /\ record[t] \in Nat
    BY DEF LogInv, LogTyped
  <2>2. disk' = Append(disk, record[t])
    BY <1>1, <1>3, <2>1
  <2> QED
    BY <2>1, <2>2, AppendProperties
<1>5. /\ Len(disk) \in Nat /\ Len(disk) + 1 \in 1 .. Len(disk')
      /\ \A i \in 1 .. Len(disk') : i \in 1 .. Len(disk) \/ i = Len(disk) + 1
      /\ \A i \in 1 .. Len(disk) : i \in 1 .. Len(disk') /\ i # Len(disk) + 1
  BY <1>4 DEF LogInv, LogTyped
<1>6. LogTyped'
  BY <1>1, <1>4 DEF LogInv, LogTyped, Labels
<1>7. DownIsEmpty' /\ MutexHeld'
  BY <1>1, <1>2 DEF LogInv, DownIsEmpty, MutexHeld, Holding
<1>8. \A n : OnDisk(n)' <=> OnDisk(n) \/ n = record[t]
  <2> TAKE n
  <2>1. CASE OnDisk(n)
    BY <1>4, <1>5, <2>1 DEF OnDisk
  <2>2. CASE n = record[t]
    BY <1>4, <1>5, <2>2 DEF OnDisk
  <2>3. ASSUME OnDisk(n)' PROVE OnDisk(n) \/ n = record[t]
    BY <1>4, <1>5, <2>3 DEF OnDisk
  <2> QED
    BY <2>1, <2>2, <2>3
<1>9. RecordsAreOwn'
  <2>1. record[t] >= 1 /\ record[t] <= calls /\ ~OnDisk(record[t])
    BY <1>1 DEF LogInv, RecordsAreOwn
  <2>2. \A i \in 1 .. Len(disk') : disk'[i] >= 1 /\ disk'[i] <= calls
    BY <1>4, <1>5, <2>1 DEF LogInv, RecordsAreOwn
  <2>3. \A i, j \in 1 .. Len(disk') : disk'[i] = disk'[j] => i = j
    <3>1. \A i \in 1 .. Len(disk) : disk'[i] = disk[i] /\ disk[i] # record[t]
      BY <1>4, <2>1 DEF OnDisk
    <3>2. \A i, j \in 1 .. Len(disk) : disk[i] = disk[j] => i = j
      BY DEF LogInv, RecordsAreOwn
    <3> QED
      BY <1>4, <1>5, <3>1, <3>2
  <2>4. \A u \in Threads : at'[u] \in {"lock", "console", "file", "flush"} => ~OnDisk(record[u])'
    BY <1>1, <1>2, <1>8 DEF LogInv, RecordsAreOwn
  <2>5. \A n \in returned : OnDisk(n)'
    BY <1>8 DEF LogInv, RecordsAreOwn
  <2>6. /\ \A u \in Threads : record[u] <= calls
        /\ \A u \in Threads : at'[u] # "idle" => record[u] >= 1
        /\ \A u, v \in Threads :
             u # v /\ at'[u] # "idle" /\ at'[v] # "idle" => record[u] # record[v]
    BY <1>1, <1>2 DEF LogInv, RecordsAreOwn
  <2> QED
    BY <1>1, <2>2, <2>3, <2>4, <2>5, <2>6 DEF RecordsAreOwn
<1>10. Progress'
  <2>1. Ahead(0)'
    <3>1. Len(console) = (Len(disk') - opened) + 0
      BY <1>3, <1>4 DEF Ahead, LogInv, LogTyped
    <3>2. ASSUME NEW i \in 1 .. Len(disk') - opened PROVE console[i] = disk'[opened + i]
      <4>1. CASE i = Len(disk') - opened
        <5>1. i = Len(console) /\ opened + i = Len(disk) + 1
          BY <1>4, <3>1, <4>1 DEF LogInv, LogTyped
        <5> QED
          BY <1>3, <1>4, <5>1
      <4>2. CASE i # Len(disk') - opened
        <5>1. opened \in Nat /\ opened <= Len(disk)
          BY DEF LogInv, LogTyped
        <5>2. i \in 1 .. Len(disk) - opened /\ opened + i \in 1 .. Len(disk)
          BY <1>4, <1>5, <4>2, <5>1
        <5> QED
          BY <1>3, <1>4, <5>2 DEF Ahead
      <4> QED
        BY <4>1, <4>2
    <3> QED
      BY <1>1, <3>1, <3>2 DEF Ahead
  <2> QED
    BY <1>1, <1>2, <1>8, <2>1 DEF Progress
<1> QED
  BY <1>6, <1>7, <1>9, <1>10 DEF LogInv

LEMMA UnlockKeeps == ASSUME LogInv, NEW t \in Threads, Unlock(t) PROVE LogInv'
<1>1. /\ at[t] = "unlock" /\ at' = [at EXCEPT ![t] = "idle"] /\ log_mutex' = Nobody
      /\ returned' = IF log_file = "open" THEN returned \cup {record[t]} ELSE returned
      /\ record' = [record EXCEPT ![t] = 0]
      /\ UNCHANGED <<process, log_file, calls, console, buffered, disk, opened>>
  BY DEF Unlock, Moves, NoRecord
<1>2. /\ at'[t] = "idle" /\ record'[t] = 0
      /\ \A u \in Threads : u # t =>
           at'[u] = at[u] /\ record'[u] = record[u] /\ at'[u] \in {"idle", "lock"}
  BY <1>1, OthersWait DEF LogInv, LogTyped, Holding
<1>3. LogTyped'
  BY <1>1 DEF LogInv, LogTyped, Labels
<1>4. DownIsEmpty' /\ MutexHeld'
  BY <1>1, <1>2, LogAssumption DEF LogInv, DownIsEmpty, MutexHeld, Holding, LogTyped
<1>5. \A n : OnDisk(n)' <=> OnDisk(n)
  BY <1>1 DEF OnDisk
<1>6. RecordsAreOwn'
  <2>1. \A n \in returned' : OnDisk(n)
    BY <1>1 DEF LogInv, RecordsAreOwn, Progress
  <2>2. \A u \in Threads : record'[u] <= calls
    <3>1. \A u \in Threads : record[u] <= calls /\ calls \in Nat
      BY DEF LogInv, LogTyped, RecordsAreOwn
    <3>2. 0 <= calls
      BY <3>1 DEF LogInv, LogTyped
    <3> QED
      BY <1>2, <3>1, <3>2
  <2>3. \A u \in Threads : at'[u] # "idle" => u # t /\ record'[u] = record[u] /\ at'[u] = at[u]
    BY <1>2
  <2>4. /\ \A u \in Threads : at'[u] # "idle" => record'[u] >= 1
        /\ \A u, v \in Threads :
             u # v /\ at'[u] # "idle" /\ at'[v] # "idle" => record'[u] # record'[v]
        /\ \A u \in Threads : at'[u] \in {"lock", "console", "file", "flush"} => ~OnDisk(record'[u])
    BY <2>3 DEF LogInv, RecordsAreOwn
  <2> QED
    BY <1>1, <1>5, <2>1, <2>2, <2>4 DEF LogInv, RecordsAreOwn
<1>7. Progress'
  <2>1. \A u \in Threads : at[u] \notin {"file", "flush"}
    BY <1>1, <1>2
  <2> QED
    BY <1>1, <1>2, <2>1 DEF LogInv, Progress, Ahead
<1> QED
  BY <1>3, <1>4, <1>6, <1>7 DEF LogInv

THEOREM LogInvHolds == LogSpec => []LogInv
<1>1. LogInit => LogInv
  <2> SUFFICES ASSUME LogInit PROVE LogInv
    OBVIOUS
  <2>1. LogTyped /\ DownIsEmpty /\ MutexHeld
    BY LogAssumption DEF LogInit, LogTyped, DownIsEmpty, MutexHeld, Labels, Holding, NoRecord
  <2>2. RecordsAreOwn
    BY DEF LogInit, RecordsAreOwn, OnDisk, NoRecord
  <2>3. Progress
    BY DEF LogInit, Progress
  <2> QED
    BY <2>1, <2>2, <2>3 DEF LogInv
<1>2. LogInv /\ [LogNext]_logVars => LogInv'
  <2> SUFFICES ASSUME LogInv, [LogNext]_logVars PROVE LogInv'
    OBVIOUS
  <2>1. CASE LogNext
    BY <2>1, LoggerInitKeeps, LoggerCloseKeeps, EndKeeps, MakeRecordKeeps, LockKeeps,
       ShowRecordKeeps, PrintFileKeeps, FlushKeeps, UnlockKeeps DEF LogNext, WriteLog
  <2>2. CASE UNCHANGED logVars
    BY <2>2 DEF logVars, LogInv, LogTyped, DownIsEmpty, MutexHeld, RecordsAreOwn, OnDisk,
                Progress, Ahead
  <2> QED
    BY <2>1, <2>2
<1> QED
  BY <1>1, <1>2, PTL DEF LogSpec

\* The buffer of the file holds a record only between fprintf and fflush, with log_mutex.
THEOREM LogIsTyped == LogSpec => []LogTypeOK
<1>1. LogInv => LogTypeOK
  <2> SUFFICES ASSUME LogInv PROVE LogTypeOK
    OBVIOUS
  <2>1. \A t \in Threads : record[t] \in 0 .. calls
    BY DEF LogInv, LogTyped, RecordsAreOwn
  <2>2. calls \in 0 .. MaxRecords /\ opened \in 0 .. Len(disk)
    BY LogAssumption DEF LogInv, LogTyped
  <2>3. Len(buffered) = IF log_mutex # Nobody /\ at[log_mutex] = "flush" THEN 1 ELSE 0
    <3>1. CASE log_mutex # Nobody /\ at[log_mutex] = "flush"
      <4>1. log_mutex \in Threads
        BY <3>1 DEF LogInv, LogTyped
      <4>2. buffered = <<record[log_mutex]>>
        BY <3>1, <4>1 DEF LogInv, Progress
      <4> QED
        BY <3>1, <4>2
    <3>2. CASE ~(log_mutex # Nobody /\ at[log_mutex] = "flush")
      <4>1. \A t \in Threads : at[t] # "flush"
        BY <3>2, LogAssumption DEF LogInv, MutexHeld, Holding
      <4>2. buffered = <<>>
        BY <4>1 DEF LogInv, Progress
      <4> QED
        BY <3>2, <4>2
    <3> QED
      BY <3>1, <3>2
  <2> QED
    BY <2>1, <2>2, <2>3 DEF LogInv, LogTyped, LogTypeOK, Labels
<1> QED
  BY <1>1, LogInvHolds, PTL

\* What was added to the disk is where the console is not ahead.
LEMMA AddedIs ==
  ASSUME LogInv
  PROVE  /\ Added \in Seq(Nat) /\ Len(Added) = Len(disk) - opened
         /\ \A i \in 1 .. Len(disk) - opened : Added[i] = disk[opened + i]
<1>1. disk \in Seq(Nat) /\ Len(disk) \in Nat /\ opened \in Nat /\ opened <= Len(disk)
  BY DEF LogInv, LogTyped
<1>2. \A i \in opened + 1 .. Len(disk) : disk[i] \in Nat
  BY <1>1
<1> DEFINE first == opened + 1
           last == Len(disk)
<1>3. first \in Int /\ last \in Int /\ \A i \in first .. last : disk[i] \in Nat
  BY <1>1, <1>2
<1>4. /\ (last - first) + 1 = Len(disk) - opened
      /\ first <= last \/ Len(disk) - opened = 0
      /\ \A i \in 1 .. Len(disk) - opened : (first + i) - 1 = opened + i
  BY <1>1
<1> HIDE DEF first, last
<1>5. /\ SubSeq(disk, first, last) \in Seq(Nat)
      /\ Len(SubSeq(disk, first, last)) = IF first <= last THEN (last - first) + 1 ELSE 0
      /\ \A i \in 1 .. (last - first) + 1 : SubSeq(disk, first, last)[i] = disk[(first + i) - 1]
  BY <1>3, SubSeqProperties
<1>6. Added = SubSeq(disk, first, last)
  BY DEF Added, first, last
<1> QED
  BY <1>1, <1>3, <1>4, <1>5, <1>6

\* server.log never differs from the console by more than the record being written.
THEOREM LogAndConsoleAgree == LogSpec => []SameRecords
<1>1. LogInv => SameRecords
  <2> SUFFICES ASSUME LogInv, log_file = "open"
               PROVE  IF log_mutex = Nobody THEN Added = console ELSE IsPrefix(Added, console)
    BY DEF SameRecords
  <2>1. /\ console \in Seq(Nat) /\ Added \in Seq(Nat) /\ Len(Added) = Len(disk) - opened
        /\ \A i \in 1 .. Len(disk) - opened : Added[i] = disk[opened + i]
    BY AddedIs DEF LogInv, LogTyped
  <2>2. CASE Ahead(0)
    <3>1. Len(Added) = Len(console) /\ \A i \in 1 .. Len(Added) : Added[i] = console[i]
      BY <2>1, <2>2 DEF Ahead
    <3>2. Added = console
      BY <2>1, <3>1, SeqEqual
    <3> QED
      BY <3>2 DEF IsPrefix
  <2>3. CASE Ahead(1) /\ log_mutex # Nobody
    <3>1. Len(Added) <= Len(console) /\ \A i \in 1 .. Len(Added) : Added[i] = console[i]
      <4>1. Len(console) = Len(Added) + 1
        BY <2>1, <2>3 DEF Ahead
      <4>2. \A i \in 1 .. Len(Added) : Added[i] = console[i]
        BY <2>1, <2>3 DEF Ahead
      <4> QED
        BY <2>1, <4>1, <4>2
    <3>2. SubSeq(Added, 1, Len(Added)) = SubSeq(console, 1, Len(Added))
      BY <2>1, <3>1
    <3> QED
      BY <2>3, <3>1, <3>2 DEF IsPrefix
  <2>4. Ahead(0) \/ (Ahead(1) /\ log_mutex # Nobody)
    BY LogAssumption DEF LogInv, Progress, MutexHeld, Holding
  <2> QED
    BY <2>2, <2>3, <2>4
<1> QED
  BY <1>1, LogInvHolds, PTL

\* A call that has returned left its record in server.log, once, whatever becomes of the
\* process.
THEOREM ReturnedCallsStay == LogSpec => []ReturnedAreOnDisk
<1>1. LogInv => ReturnedAreOnDisk
  <2> SUFFICES ASSUME LogInv, NEW n \in returned
               PROVE  \E i \in 1 .. Len(disk) : disk[i] = n /\
                        \A j \in 1 .. Len(disk) : disk[j] = n => i = j
    BY DEF ReturnedAreOnDisk
  <2>1. PICK i \in 1 .. Len(disk) : disk[i] = n
    BY DEF LogInv, RecordsAreOwn, OnDisk
  <2>2. \A j \in 1 .. Len(disk) : disk[j] = n => i = j
    BY <2>1 DEF LogInv, RecordsAreOwn
  <2> QED
    BY <2>1, <2>2
<1> QED
  BY <1>1, LogInvHolds, PTL
=============================================================================
