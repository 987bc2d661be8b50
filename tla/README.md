# Verification of IoT Services Monitoring

TLA+ specifications of the monitoring server in `server/`, of the programs and
the service around it, the TLC models that check them on small instances, and
proofs of their main theorems for every number of threads and every table
capacity, checked by TLAPS.

The server keeps one global state (`g_state`) behind one mutex. A thread per
sensor connection serves the text protocol SMP 1.0 and changes that state; a
thread per HTTP request puts an operator page together from it. What is hard is
that **each function of `state.c` is atomic and the operations built from them
are not**: METRIC is up to four critical sections, `/dashboard` is four,
`/alerts` and `/metrics` are two. The project is about what still holds, and
what no longer does, when those interleave, and about what connections,
timeouts, restarts and full buffers do to the rest.

## The system

| Part | State | Operations | What is hard about it |
|---|---|---|---|
| Global state (`state.c`) | sensor table, two circular tables, counts, write indices, mutex | register, find, add metric, add alert, deactivate, set level, four counts | capacities, wrap-around, slots that are never freed, ids stored cut, several ways out of a critical section |
| Anomaly rules (`alerts.c`) | none | `alerts_evaluate`: an alert, then the level | two more critical sections after the value was stored |
| Sensor connections (`sensor_handler.c`) | per connection: the line, a copy of the sensor | REGISTER, METRIC, STATUS, PING, QUIT; end of connection | decisions on a copy, several connections for one sensor, connections that drop |
| Accept loops (`sensor_server.c`, `http_server.c`) | listening socket | a detached thread per connection | failures are logged and skipped |
| Operator console (`http_server.c`) | per request: the page so far | `/`, `/login`, `/dashboard`, `/sensors`, `/alerts`, `/metrics` | pages made of several reads; a body of limited size |
| Line reader and helpers (`utils.c`) | per call: characters so far | `recv_line`, `send_line`, `parse_double`, `safe_strncpy`, `is_valid_timestamp` | empty line and closed connection look alike; long lines are cut |
| Authentication (`auth_client.c`, `auth_service/`) | one connection per login | ask whether a user exists | timeouts and cut answers |
| Logger (`logger.c`) | file, its own mutex | one record at a time | two sinks; the process may end between any two steps |
| Start and end (`main.c`) | two server threads | start, join, tear down | tear-down with one thread running |
| Sensor clients (Python, Java), launcher | a socket, a running flag | register, report, quit; terminate | replies that come late; QUIT for a sensor that is not theirs |
| Mock server (`mock_tcp_server.py`) | per connection: registered id | the same commands | answers differ from the server's |

Interactions: clients and server exchange lines over TCP; handlers and pages
call `state.c`; `handle_metric` calls `alerts_evaluate`, which calls `state.c`;
pages read `g_state` directly under its lock for their rows; `/login` asks the
authentication service. Nothing else is shared, apart from the log.

What makes each part correct:

- *Global state*: a sensor keeps its slot, id and type for good; the count is
  that of the slots in use; no id twice; indices, counts and listing order of
  the circular tables agree, wrapped around or not; what is written statement by
  statement under the lock is seen as one step.
- *Sensor connections and anomaly rules*: what METRIC decided on a copy is still
  true when it acts on it; each anomalous metric has exactly one alert; a sensor's
  level is that of its last value. All together: sensors and operators cannot tell
  the program from a registry by id and two logs.
- *Operator console*: numbers on one page agree with each other, and rows with
  headings; rows that were never written are not listed; no page is cut, but for
  one kind of row.
- *Line reader*: bytes stay in order, a line is served once, whole, and it can be
  told which lines get no reply and which end the loop. *Authentication*: no answer other than
  "exists" logs a user in, and a verdict rests on an answer. *Start and end*:
  nothing that threads still use is destroyed, and no failure stops an accept loop.
  *Logger*: what was logged survives.
  *Clients*: a session ends in QUIT or in a loss that can be told, and leaves no
  sensor ACTIVE for good.

## Modules

| Module | Models |
|---|---|
| `CircularTable` | the three steps of a write to a circular table and the order it is listed in (`state.c`, `http_server.c`) |
| `GlobalState` | `state.c`, `state.h`, the thresholds of `alerts.h`; one operator per function |
| `StateLock` | the same functions statement by statement under `g_state.lock`; implements `GlobalState` |
| `SensorHandler` | `sensor_handler.c` and `alerts_evaluate` over `GlobalState`: the running handlers |
| `SensorService` | the abstract service: a registry and two logs |
| `ServiceRefinement` | the mapping under which `SensorHandler` implements it |
| `HttpPages` | the routes of `http_server.c` composed with the running handlers |
| `PageBody` | the buffer those routes print into, in characters |
| `LineReader` | `recv_line` and `send_line` byte by byte, under the loop of a connection |
| `Login` | `auth_client.c`, `/login` and `auth_service/`, call by call |
| `SensorClients` | the Python and Java programs composed with the running handlers |
| `Lifecycle` | `main.c`, the two server threads with their accept loops |
| `Logger` | `logger.c`, over restarts of the process |
| `MC*` | the small instances TLC checks |
| `GlobalStateProofs` | each function of `state.c` keeps the table invariant |
| `SensorHandlerProofs` | the inductive invariant of the handlers and what follows from it: their logs, sensors with one connection each, and that they implement the service |
| `HttpPagesProofs` | pages made of several reads |
| `StateLockProofs` | the lock, and that the functions act as one step each |
| `SensorClientsProofs` | programs and handlers together |
| `LineReaderProofs` | bytes, lines and replies of a connection |
| `ServerProofs` | start and end, logins, and the buffer of a page |
| `LoggerProofs` | console and file |

How they fit together: `StateLock` justifies the atomic steps of `GlobalState`;
`SensorHandler` extends `GlobalState`; `HttpPages`, `SensorClients` and
`ServiceRefinement` extend `SensorHandler`; `PageBody` says when pages are whole
rows, and `LineReader` when handlers get whole lines. `Login`,
`Lifecycle` and `Logger` share no state with these.

**`GlobalState`** has the variables of `struct GlobalState` under their own names.
A slot is `FreeSlot` (zeroed, `active = 0`) or a record with the fields of
`Sensor`. `FoundAt(s, id)` is the slot where the linear scan stops, `FreeAt(s)`
the slot a new sensor is given. Data: timestamps are kept as reported ("ISO") or
not ("N/A"), thresholds and messages of alerts are not kept, values are integers
or `NaN` (only comparisons with the thresholds and equality matter), and
`StoredId` is what `safe_strncpy` keeps of an id.

**`StateLock`** has for each thread its place in the function (`at`), the function
and arguments (`call`), the `i` of the loop (`slot`), the return value to be
(`result`) and the rows it has listed. `Call` and `Lock` enter; `Scan` looks at
one slot; `Free`, `Count`, `Stamp`, `WriteRow`, `Advance`, `Saturate` are the
writes of `state_register_sensor`, `state_add_metric` and `state_add_alert`, in
the order of the code; `Tally` is one turn of the loop that counts the ACTIVE
sensors, `ReadCount` the read of each of the other three counts; `ListRow` is one
turn of the row loop of `/metrics`; `Unlock` is every way out. `seen` is a history
variable: the state as the last thread to unlock left it. `Atomic` is
`GlobalState` on `seen`, and `CallsAreAtomic` says that each `Unlock` takes `seen`
through the one step of `GlobalState` with the result the function returns, and
that nobody finds the lock free and the tables different from `seen`.

**`SensorHandler`** has, for each member of `Conns`, a program counter, the job (id,
value and the type copied from the table) and the reply about to be sent. Each
call of `state.c` is a step: `MetricFind` (with the checks on the copy),
`MetricAdd`, `RaiseAlert`, `SetLevel`; REGISTER and QUIT are one call each.
STATUS, PING and every refusal change no table. `Respond` sends the reply and
goes back to the loop, or ends it after 200 BYE. `HangUp` is `recv_line` returning
0 or -1: the handler ends and nothing is done about its sensor. A member that is
"closed" stands for the thread of a later connection. `Speaks[c]` is the set of
ids the lines of a connection name; the server does not restrict it.

**`SensorService`** knows no slots, scans, copies, arrays or locks: `registry` is a
function from ids, `metricLog` and `alertLog` are sequences, newest first, that
lose their last row when full, and `due[c]` is what a report still owes. `Join`,
`SetStatus`, `Report`, `Alarm` and `Settle` are its steps. METRIC stays in three
of them because operators can see the states in between. The mapping:
`Registry` is what the scan finds of each id, the logs are the `Listing` of the
circular tables, `Due` is read off the program counter.

**`HttpPages`** adds, for each member of `Readers`, where the request is, the page
so far and its rows. Each critical section is a step: four of `/dashboard`, the
heading and the rows of `/alerts` and `/metrics`, the single one of `/sensors`.
`PageRows` is the number of rows that fit in the body. **`PageBody`** is that body:
`offset` grows by what `snprintf` would have written, `length` is what it wrote,
the loop stops `Reserve` characters before the end, and `/sensors` puts its
numbers in after its rows with `strncat`. Each of the three routes has its own
heading, longest row (`RowMax`) and number of rows (`MaxRows`); `printed` and `row`
are the number of rows so far and the length of the last one. `PrintOutside` is
the footer printed where `offset` has passed the end of the body, after which the
program has no meaning and the model stops.

**`LineReader`**: `sent` are the lines the peer meant to send, of which the last
may lack its end, `wire` the bytes not yet received; `RecvByte` is one turn of
`recv_line` with CR, LF and the full buffer, `RecvEnd` and `RecvError` its other
ways out, `Serve` the handler's reply through `send_line`, or its end. The first
byte of a line says what it is; `Surplus` is by how much `200 REGISTERED <id>` is
longer than `REGISTER <id> <type>`: 1 for TEMP, 2 for VIB, 0 for POWER.
**`Login`**: each call of `auth_check_user` may fail (`Fail`), the service writes
its answer in pieces (`Write`) and may stop and start between any two (`Stop`,
`Start`), `RecvEnd` covers the end of the answer, an error and the timeout, which
the code does not tell apart. **`SensorClients`**: `Begin` is `connect()` and
`register()`, then the metric loop with its replies, `GiveUp` a timeout or an
interruption and the QUIT that `close()` sends after it, `GiveUpQuit` a timeout
there, `Kill` a crash or the launcher's `terminate()`, `Lose` a connection that
breaks with what was under way, the QUIT of a program that has left included;
`Comma` are the Java programs under a locale with a decimal comma, whose values
the server refuses with 422; the handlers are those of `SensorHandler`, given the
lines that arrive. **`Lifecycle`**: `main()` statement by statement with the
failure of each, the set-up of the two servers, connections that wait in a
`backlog` of `ListenBacklog`, accept loops that take the first of them (`Accept`),
allocate what its thread is given (`Prepare` or `NoMemory`) and start the thread
(`HandOver` or `NoThread`), threads in and out of the lock, and `Signal` at any
moment. **`Logger`**: the record is made before the mutex is waited for, then
`Lock`, `ShowRecord`, `PrintFile`, `Flush`, `Unlock`; `LoggerClose` and `End` may
come at any time, and `LoggerInit` opens the same file again.

## What TLC checks

| Run | Instance | Shows |
|---|---|---|
| `table` (`MCTable.cfg`) | 2 handlers, ids a and b, types TEMP and VIB, one value on either side of their thresholds, capacities 2/2/1, fairness | the sensor table is consistent, the copied type is current, rows are explained, no two slots have one id; the handlers implement `SensorService`, and pay what METRIC owes |
| `owned` (`MCOwned.cfg`) | 2 handlers with a sensor each, POWER, values 5, 60, NaN, 2 metrics, 1 alert, fairness | the level follows the value, and settles when it lags behind |
| `dashboard` (`MCDashboard.cfg`) | 2 handlers of 1 sensor, a normal and an anomalous value, 1 request, pages of 1 row, 3 metrics, 2 alerts | each anomaly has one alert until a table wraps around; never more alerts than metrics, in the state or on a page; rows reach their heading, every listed row was written |
| `lock` (`MCLock.cfg`) | 2 threads, ids a and b for 1 slot, 2 metrics, 1 alert, fairness | each function acts as one step, results and the four counts included; every call returns |
| `buffers` (`MCBuffers.cfg`) | 3 lines of 0 to 5 bytes, REGISTER of each type, QUIT, blanks and CR among them, finished or cut, a buffer of 5; or a page of 60 characters, a reserve of 12, rows of up to 13, 15 and 9 on `/sensors`, `/alerts` and `/metrics` | bytes keep their order, lines that fit are served whole, only a REGISTER whose reply is too long gets none, only an empty line or one that fills the buffer ends the connection of a peer that is there, the end is noticed; only a long row of `/alerts` cuts a page |
| `login` (`MCLogin.cfg`) | 2 logins, 4 names (one with a `+`, one that is only a `+`), a service that stops and starts | only operators enter, verdicts rest on answers, every login ends |
| `sessions` (`MCSessions.cfg`) | a Python program and a Java one with a decimal comma, ids a and b, 1 slot, 1 metric per run | no METRIC for an unknown sensor, 200 BYE means INACTIVE, no sensor stays ACTIVE but those of programs that were killed or lost their connection |
| `life` (`MCLife.cfg`) | 3 connections to one server, a backlog of 2, and 1 to the other, ports 9090 and 0, fairness | state and log outlast their users but in one case; a connection that waits is taken, whatever fails for those before it |
| `log` (`MCLog.cfg`) | 3 threads, 6 records, restarts | console and file agree; what was logged survives |

Three more runs each show that something the repository says is not always so.
Each has one property, of which TLC finds a counterexample.

| Run | Said where | What happens |
|---|---|---|
| `long_id` | protocolo/SMP_1_0.md:34 | an id of 64 characters or more is registered and not found |
| `late_quit` | protocolo/SMP_1_0.md:58 | `handle_metric` reads the status in its copy; another connection's QUIT is answered 200 BYE, and the metric is then stored and answered 200 OK although the sensor is INACTIVE, not 403 |
| `refused_quit` | protocolo/SMP_1_0.md:90, sensor.py:185 | a program refused with 409 sends QUIT all the same, and makes the sensor of the one that is registered INACTIVE |

*Bounds.* The races in the handlers are between one METRIC and one other line, so
two handlers show each of them; with two, both may have an alert pending when a
third metric wraps the table around. Two ids and two slots make both scans and the
shared id happen, and a slot fewer than ids the full table. Capacities of 1, 2 and
3 fill and wrap around in a few steps; nothing depends on 64, 256 and 512 beyond
`MAX_ALERTS <= MAX_METRICS`. Every invariant and action property of a passing run is
also proved, for all capacities and numbers of threads, so that the instances
bound nothing but what is checked of liveness; `lock` has one slot, and what a
scan or a count does at its second one is covered by the proof alone. Requests
change no state, so one request meets all that several would. A page of one row is
shorter than the tables it lists. In `buffers` a buffer of 5 keeps four
characters: there are lines of 0, 3 (one less) and 4 (fills it before the line feed)
and of more than that, and replies that fit and that do not, one to a
VIB line so short that a TEMP line of its length would be answered; three lines
let what is left of one run into the next two. `MCBuffers` holds `LineReader` and
`PageBody` side by side; they share nothing, and one rests while the other runs.
Its pages have the proportions of the real ones: a body of 65536, a reserve of
512, a heading of about 7400 (the style sheet is 6221) and a footer of 40. A row
of `/metrics` has at most 457 characters, for a double printed with `"%.2f"` has
at most 313: 457 + 40 fit the reserve. One of `/sensors` has at most about 570,
but there are at most 64 of them. One of `/alerts` has the value twice, the second
time in its message, which is cut at 255: up to 736. In `life` one connection can
be kept waiting behind two others. In `sessions` a program may be run again
without limit, each run with any id; a second metric of a run repeats what the
first one does, and two lines and two replies are all that can be under way. In
`log`, `MaxRecords` is the only bound on a counter; threads beyond the holder and
one that waits repeat the second.

*Symmetry* permutes handlers in `dashboard` and threads in `log`, which check
invariants only and have no constant that tells one from another. Runs with
temporal properties use none.

*Fairness*, and why the code justifies it:

- `SensorHandler`: weak fairness of the three calls a METRIC makes after its checks
  (`MetricAdd`, `RaiseAlert`, `SetLevel`), for each handler. A running thread waits
  for nothing there but the mutex of critical sections that always end. Nothing is
  asked of clients, and nothing of `Respond`: a client that does not read can
  block `send()` for good.
- `StateLock`: weak fairness of a thread inside the lock, and strong fairness of
  `Lock`: a pthread mutex serves in no order, but critical sections are short and a
  thread that waits is not passed over for ever. This is a promise of the system,
  not of the code.
- `LineReader`: `recv_line` runs on; the reply does once the peer has gone, for then
  `send()` cannot block.
- `Login`: the calls of `auth_check_user` return, since the socket has timeouts of
  five seconds. Nothing is asked of the service.
- `SensorClients`: handlers run on, since a connection never holds more than two
  short replies, and programs do, since their sockets have timeouts.
- `Lifecycle`: weak fairness of each accept loop as a whole. Its thread waits for
  nothing but a connection, and where one waits `accept()` does not fail for ever;
  which of its branches it takes is not said, so `malloc` and `pthread_create` may
  fail every time. Nothing is asked of `main`, of peers or of connection threads.
- `HttpPages` and `Logger` check safety only and state none; nor is anything asked
  of `PageBody` in `buffers`.

Deadlock is looked for in every run but `buffers`, where the peer ends the
connection, the handler ends after it, and that is all; and where a page stops
when it is printed outside its body.

*Mutants.* Next to some definitions is a mutated form, marked "Mutant": the
definition with a plausible mistake in it. For every property of a passing run
there is one with which TLC finds that property violated.

### Disagreements without a run

What follows was met while modelling, and is told here rather than as a property
that fails. Of the server:

- An empty line ends the connection (`utils.c:98` returns 0, `sensor_handler.c:61`
  takes it for the end), where docs/pruebas.md:34-36 expects 400. A line of exactly
  4095 characters is served, and its line feed is then read as an empty line.
  `OnlyEmptyLinesEnd` says that nothing else does this. A line a peer did not
  finish is served.
- REGISTER with an id of about 4080 characters gets no reply: `send_line` drops one
  of 4095 characters or more. The reply is longer than the line by one character
  for TEMP and by two for VIB, so a VIB line of 4093 is served and not answered.
- A row of `/alerts` with a value near 1e308 has more than the 512 characters kept
  free for it (`http_server.c:681`), and a page of such rows passes the end of its
  body. `NothingIsCut` has that row as its only exception.
- Reactivation ignores the type asked for (SMP_1_0.md:20-34), as `Register` has it.
- With two connections for one sensor the two may set its level in the other order
  than they stored their values (`alerts.c:60`): it stays that of the older value,
  against alerts.h:18. This is why `LevelMatchesValue` is for one connection per
  sensor.
- After a client is gone without QUIT its sensor is ACTIVE on the pages
  (`http_server.c:510`); `SensorsEndInactive` says for which sensors this may be.
- `nan` is accepted as a value, and is never anomalous (SMP_1_0.md:60).
- A dashboard can show more active sensors than sensors (`http_server.c:505`), and
  `/sensors` an anomalous value as NORMAL (`http_server.c:528`).
- An operator is told that the user does not exist when the answer broke off after
  its headers, where auth_client.h:13-15 keeps an error for it;
  `VerdictsRestOnAnswers` says that this is the only way.
- `main` says that the servers have started when one could not bind (`main.c:153`);
  a port of more than 16 bits is cut without a word (`sensor_server.c:43`); when
  the thread of the console cannot be created, state and log are torn down while
  the sensor server runs (`main.c:146`), which `CleanupIsLast` has as its exception.
- A log record is cut at BUFFER_SIZE (`logger.h:5`).

Of the programs: a late reply is taken for the answer to QUIT (`sensor.py:102`);
`--max-messages 0` sends one metric in Python and none in Java (`sensor.py:175`);
the Java program writes a decimal comma under some locales
(`SensorClient.java:204`), and every metric of it is then refused with 422, as the
programs in `Comma` have it. Of the mock server: it remembers REGISTER by connection
and answers 400 to a type it does not know.

## What is proved

Every invariant and every action property that a run checks is a theorem about
the specification, for arbitrary `Conns` (finite), `Speaks`, `Ids`, `Values`,
`Readers`, `Threads`, `Names`, `Peers`, `Lines`, capacities and sizes. What is
assumed of the constants is named in the module that declares them:

| Assumption | Says |
|---|---|
| `CapacityAssumption` | capacities are at least 1, and no more alerts than metrics are kept |
| `DataAssumption` | the types are those of `SensorType`, NaN is not a number, an id that was cut is not cut again |
| `ConnsAssumption`, `ReadersAssumption` | finitely many handlers; a page has room for a row |
| `LockAssumption`, `LogAssumption` | `Nobody` is no thread |
| `ClientsAssumption` | programs run with ids and values the handlers take; there is an id to run one with |
| `LifeAssumption` | each connection is to one of the two servers; ports are integers |
| `LoginAssumption` | the service looks a user up for each name, and the empty name is no user's |
| `BufferAssumption` | `BUFFER_SIZE` is more than 2; a line has no line feed in it |
| `BodyAssumption` | a row of `/metrics` and the footer fit the reserve, and all rows of `/sensors` the body; nothing of the rows of `/alerts` |

One theorem about handlers, `LevelMatches`, has the hypothesis `DisjointSpeaks`,
that no two connections name one sensor, and four have `IdsFit`, that ids are
shorter than `MAX_ID_LEN`; with two connections for one sensor, or an id that is
cut, the properties can fail, as told above. `RowsWritten` has that no id is
empty. Each invariant is proved by a stronger one that is inductive; the list
names it and says what it adds.

- **Table.** `TableInv` (`GlobalStateProofs`) is the type of the state, the slots
  in use being the first `sensor_count`, stored ids being cut ones, and counts
  agreeing with write indices. Each function of `state.c` is a `TableStep`: it
  keeps `TableInv` and leaves every sensor its slot, id and type.
- **Lock.** `LockIsHeld` and `FunctionsAreAtomic` (`StateLockProofs`). A function
  half way through is no state of `GlobalState`, so `LockInv` says for each label
  what the thread that holds the lock has done to `seen`: at `scan`, nothing, and
  the slots before `slot` do not have the id; after `free`, the first free slot has
  the new sensor but the count is the old one; at `tally`, `result` is the number of
  ACTIVE sensors in the slots before `slot`; at `advance`, the row is written and
  the index is not moved; at `unlock`, the whole step of `GlobalState`. That the
  others cannot disturb it is `HoldersHold`, a part of the invariant.
- **Handlers.** `HandlerInv` (`SensorHandlerProofs`) adds what a handler between
  two calls relies on: its job is complete, the sensor is still where the scan
  stops under the copied type, and it heads for `state_add_alert` only with an
  anomalous value. `CopiedTypeIsCurrent` is not inductive without the table
  step: it needs that nobody else moves, renames or retypes a sensor. From it:
  `TypeCorrect`, `CountsMatch`, `CopiedTypeStaysCurrent`, `SensorsPermanent`, and
  `IdsAreUnique` under `IdsFit`; without it the property is false, as `long_id`
  shows.
- **Service.** `Refinement` (`SensorHandlerProofs`): under `IdsFit`, the initial
  states map to that of `SensorService`, and each step of a handler to a step of
  it or a stutter. It rests on three facts: a scan finds an id where it is and
  nowhere else (`IdsAreUnique`); the listing of a circular table after a write is
  the old listing with the row in front, the last one gone if it was full; and the
  copied type, by which the handler judges, is the one in the registry
  (`CopiedTypeIsCurrent`).
- **Logs.** `RowsExplained` extends the invariant to every row. `EachAnomalyAlerted`
  needs the balance *alerts + pending = anomalous rows* in a form that survives
  the alerts table being full first. `AlertsBounded` needs, besides the balance,
  that a full table of metrics is at least as long as that of alerts.
- **Owned sensors** (`DisjointSpeaks`). `LevelMatches`: nobody else stores a value
  for the sensor of a job between its two calls, so the level it sets is that of
  the last value.
- **Pages.** `DashboardConsistent` and `HeadingReached`: counts only grow, so a
  count read first is a lower bound of one read later; the dashboard is right
  because it reads the alerts before the metrics and `AlertsBounded` holds.
  `PagesAreTyped` and `RowsWritten` need that the slots and entries a loop lists
  are in use, which is `RowsExplained` and the shape of the tables; `RowsWritten`
  assumes that no id is empty, since `strtok_r` returns no empty token.
- **Body.** `RoomIsKept` and `PagesAreWhole` (`ServerProofs`): for each statement an
  upper bound of `offset`, below the size of the buffer. On `/metrics` it is where
  the loop stops and one row more; on `/sensors` that alone would not do, since a
  row may exceed the reserve, and the bound is by the rows `printed`; on `/alerts`
  it is the last `row` itself, so that the one way out of the body is the
  exception of `NothingIsCut`.
- **Programs** (`SensorClientsProofs`). Steps of the composition are steps of the
  handlers or leave them alone, so what is proved of those holds here. `ConnOK`
  says of one connection how many lines and replies can be under way at each
  point of a program, that QUIT is the last line, and that nothing comes after
  200 BYE: `ClientsTyped`. `KnowsOK` adds, under `IdsFit`, that an accepted REGISTER
  on its way back, a program in its loop and a METRIC on its way are each of a
  sensor the server has; since no sensor is ever removed this lasts, and gives
  `NotFoundNever`. `ActiveAccounted` is about all programs together: a sensor is
  ACTIVE only if a run of it has its QUIT still to send or to be served, or was
  killed or cut off. A program that reads 200 BYE and is alone with its id leaves
  no such run, which is `ByeLeavesInactive`.
- **Lines** (`LineReaderProofs`). `BytesStayInOrder`: served, kept and wire are,
  without CR and LF, a prefix of what was sent. `LinesAreWhole` needs to know
  where in the stream the reader is: `StreamOK` says that as long as no line is
  empty or fills the buffer, what is read of a line, followed by the wire, is that
  line, its line feed and the lines after it, up to where the peer stopped.
  `LinesAnswered` follows from the lengths `ReplyLengths` allows. For
  `PeersAreLeftAtEmptyLines` the reader is followed through lines of any length:
  `PlaceOK` says that while the peer is there, the reader has taken some part of
  some line, of which whole buffers were served and the rest is kept, and the wire
  has what follows. A line feed found with nothing kept is then that of a line of
  so many whole buffers, or none. All are about `FlattenSeq`, which is recursive.
  The induction they need is over a number, the length, and is done without the
  library's induction rules: of the lengths at which a claim fails there would be
  a least one (`LeastNat`, from `WFMin`), and the step before it refutes that.
- **Start and end** (`ServerProofs`). `LifeInv` says which servers can have a thread
  and what is open at each statement of `main`: before `pthread_create` there is no
  thread that could use the state, and `main` gets to `state_destroy` either past
  both joins or without a console: `LifeTyped`, `CleanupComesLast`.
- **Logins** (`ServerProofs`). `LoginInv`: what a thread has read is no more than
  the service wrote to its connection, the service ends a connection with its
  answer, and no page is there while the service is being asked. A page is then
  judged by what `Parsed` makes of the pieces read, for each answer of `auth()`:
  `LoginTyped`, `OthersStayOut`, `VerdictsAreAnswers`.
- **Log** (`LoggerProofs`). `LogInv`: only the holder of the mutex is past `Lock`; where
  it is says whether its record is on the console, in the buffer or in the file;
  no other call has that record, and the console is ahead of the file by no more:
  `LogAndConsoleAgree`, `ReturnedCallsStay`.

Only model-checked: what rests on fairness (`PaysItsDues`, `LevelSettles`,
`CallsReturn`, `EndIsNoticed`, `LoginEnds`, `SensorsEndInactive`,
`ConnectionsAreTaken`), which is out of the prover's reach.

## Not modelled, and the plan

Left out:

- `trim`, `tokenize`, `get_timestamp`, `is_valid_timestamp`: pure functions of their
  arguments, which enter as the cases the handlers tell apart.
- The number of sensors in ALERT on `/sensors`; HTML, wording and layout of pages,
  replies and log lines.
- What a page meets past the end of its body, which has no meaning in C.
- Runs of the programs without `--max-messages`, which end only by a failure or a
  signal; a connection that is cut without either end being told.
- Writes to the log that fail: `fprintf` and `fflush` are taken to succeed.
- `/health` of the authentication service, which nothing asks.
- The mock server: a stand-in for trying the programs, with rules of its own, that
  shares no state with the system.
- Command line parsing, sockets below the level of lines, deployment files.
- Composition of `Lifecycle` with the handlers: what a request meets when the
  state is torn down under it is undefined, and `CleanupIsLast` says when that is.

What could follow: `/metrics` and `/alerts` of `HttpPages` over `StateLock` instead
of over single steps; `SensorClients` with lines as `LineReader` cuts them; the
proofs of the handlers restated for any number of types and thresholds.
