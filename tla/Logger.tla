------------------------------- MODULE Logger -------------------------------
(***************************************************************************)
(* The log of the server (server/src/logger.c): every record goes to the   *)
(* console and to server.log, under log_mutex.  A thread makes its record, *)
(* timestamp included, before it waits for the mutex.  The process may end *)
(* at any step, with what is in the buffer of the FILE, and be started     *)
(* again on the same server.log.                                           *)
(*                                                                         *)
(* Of a record only which call it is of is kept.                           *)
(***************************************************************************)
EXTENDS Integers, Sequences, SequencesExt

CONSTANTS
  Threads,      \* those that log
  Nobody,
  MaxRecords    \* bound: records

ASSUME LogAssumption == Nobody \notin Threads /\ MaxRecords \in Nat

VARIABLES
  process,      \* "up" or "down"
  log_file,     \* "open", or NULL: "closed"
  log_mutex,    \* the thread that holds it
  at,           \* where each thread is in write_log
  record,       \* the call whose line it has made
  calls,        \* calls so far, of all runs of the process
  console,      \* the records shown since the process started
  buffered,     \* records in the buffer of log_file
  disk,         \* records in server.log
  opened,       \* how many there were when it was opened
  returned      \* the calls that have returned while log_file was open

logVars == <<process, log_file, log_mutex, at, record, calls, console, buffered, disk,
             opened, returned>>

NoRecord == 0

LogInit ==
  /\ process = "down" /\ log_file = "closed" /\ log_mutex = Nobody
  /\ at = [t \in Threads |-> "idle"] /\ record = [t \in Threads |-> NoRecord]
  /\ console = <<>> /\ buffered = <<>>
  /\ calls = 0 /\ disk = <<>> /\ opened = 0 /\ returned = {}

-----------------------------------------------------------------------------
\* Mutant: server.log is opened with "w".
LoggerInitTruncating ==
  /\ process = "down" /\ process' = "up"
  /\ log_file' = "open" /\ opened' = 0 /\ disk' = <<>>
  /\ UNCHANGED <<log_mutex, at, record, calls, console, buffered, returned>>

\* logger_init, before any other thread runs: server.log is opened to append.  When it
\* cannot be opened the process ends.
LoggerInit ==
  /\ process = "down" /\ process' = "up"
  /\ log_file' = "open" /\ opened' = Len(disk)
  /\ UNCHANGED <<log_mutex, at, record, calls, console, buffered, disk, returned>>

\* logger_close; other threads may still log afterwards.
LoggerClose ==
  /\ process = "up" /\ log_mutex = Nobody /\ log_file = "open"
  /\ log_file' = "closed"
  /\ disk' = disk \o buffered /\ buffered' = <<>>
  /\ UNCHANGED <<process, log_mutex, at, record, calls, console, opened, returned>>

\* The process ends, by a signal, a crash or its return.
End ==
  /\ process = "up" /\ process' = "down"
  /\ log_file' = "closed" /\ log_mutex' = Nobody
  /\ at' = [t \in Threads |-> "idle"] /\ record' = [t \in Threads |-> NoRecord]
  /\ console' = <<>> /\ buffered' = <<>>
  /\ UNCHANGED <<calls, disk, opened, returned>>

-----------------------------------------------------------------------------
(* log_sensor, log_http, log_error and log_info. *)

MakeRecord(t) ==
  /\ process = "up" /\ at[t] = "idle" /\ calls < MaxRecords
  /\ calls' = calls + 1
  /\ record' = [record EXCEPT ![t] = calls + 1]
  /\ at' = [at EXCEPT ![t] = "lock"]
  /\ UNCHANGED <<process, log_file, log_mutex, console, buffered, disk, opened, returned>>

Moves(t, from, to) == at[t] = from /\ at' = [at EXCEPT ![t] = to]

\* Mutant: the mutex is not asked for.
LockUnchecked(t) ==
  /\ Moves(t, "lock", "console")
  /\ log_mutex' = t
  /\ UNCHANGED <<process, log_file, record, calls, console, buffered, disk, opened, returned>>

Lock(t) ==
  /\ log_mutex = Nobody
  /\ Moves(t, "lock", "console")
  /\ log_mutex' = t
  /\ UNCHANGED <<process, log_file, record, calls, console, buffered, disk, opened, returned>>

\* printf and fflush.
ShowRecord(t) ==
  /\ Moves(t, "console", IF log_file = "open" THEN "file" ELSE "unlock")
  /\ console' = Append(console, record[t])
  /\ UNCHANGED <<process, log_file, log_mutex, record, calls, buffered, disk, opened, returned>>

PrintFile(t) ==
  /\ Moves(t, "file", "flush")
  /\ buffered' = Append(buffered, record[t])
  /\ UNCHANGED <<process, log_file, log_mutex, record, calls, console, disk, opened, returned>>

\* Mutant: the file is not flushed.
FlushNothing(t) ==
  /\ Moves(t, "flush", "unlock")
  /\ UNCHANGED <<process, log_file, log_mutex, record, calls, console, buffered, disk,
                 opened, returned>>

Flush(t) ==
  /\ Moves(t, "flush", "unlock")
  /\ disk' = disk \o buffered /\ buffered' = <<>>
  /\ UNCHANGED <<process, log_file, log_mutex, record, calls, console, opened, returned>>

Unlock(t) ==
  /\ Moves(t, "unlock", "idle")
  /\ log_mutex' = Nobody
  /\ returned' = IF log_file = "open" THEN returned \cup {record[t]} ELSE returned
  /\ record' = [record EXCEPT ![t] = NoRecord]
  /\ UNCHANGED <<process, log_file, calls, console, buffered, disk, opened>>

WriteLog(t) == Lock(t) \/ ShowRecord(t) \/ PrintFile(t) \/ Flush(t) \/ Unlock(t)

LogNext ==
  \/ LoggerInit \/ LoggerClose \/ End
  \/ \E t \in Threads : MakeRecord(t) \/ WriteLog(t)

LogSpec == LogInit /\ [][LogNext]_logVars

-----------------------------------------------------------------------------
\* A record is in the buffer of the file only between fprintf and fflush.
LogTypeOK ==
  /\ process \in {"up", "down"} /\ log_file \in {"open", "closed"}
  /\ log_mutex \in Threads \cup {Nobody}
  /\ at \in [Threads -> {"idle", "lock", "console", "file", "flush", "unlock"}]
  /\ \A t \in Threads : record[t] \in 0 .. calls
  /\ calls \in 0 .. MaxRecords /\ opened \in 0 .. Len(disk)
  /\ Len(buffered) = IF log_mutex # Nobody /\ at[log_mutex] = "flush" THEN 1 ELSE 0

Added == SubSeq(disk, opened + 1, Len(disk))

\* server.log has what the console shows of this run, in the same order: at most the
\* record that is being written is ahead, and two threads cannot cross in between.
SameRecords ==
  log_file = "open" =>
    IF log_mutex = Nobody THEN Added = console ELSE IsPrefix(Added, console)

\* The record of a call that has returned outlasts the process: it is in server.log, and
\* there once, however often the server ends and starts again.
ReturnedAreOnDisk ==
  \A n \in returned : \E i \in 1 .. Len(disk) : disk[i] = n /\
    \A j \in 1 .. Len(disk) : disk[j] = n => i = j
=============================================================================
