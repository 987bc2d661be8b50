------------------------------ MODULE Lifecycle ------------------------------
(***************************************************************************)
(* The life of the server process: main (server/src/main.c), what it opens *)
(* and closes (logger.c, state.c), and the two server threads with their   *)
(* accept loops (sensor_server.c, http_server.c).  The process may be      *)
(* ended by a signal at any time, for it handles none, and be started      *)
(* again.  A connection thread uses g_state under its lock and logs;       *)
(* what it does besides is in the other modules.                           *)
(***************************************************************************)
EXTENDS Integers, Sequences

CONSTANTS
  Peers,        \* connections to one of the two ports
  PortOf,       \* the server whose port each of them is to
  Ports,        \* the numbers given to --sensor-port and --http-port
  ListenBacklog \* LISTEN_BACKLOG

Servers == {"sensor", "http"}

ASSUME LifeAssumption ==
  PortOf \in [Peers -> Servers] /\ Ports \subseteq Int /\ ListenBacklog \in Nat

VARIABLES
  main,         \* what main() does next
  log_file,     \* "open" or NULL, "closed"
  lock,         \* g_state.lock: "none" before state_init, "live", "destroyed"
  config,       \* g_config: the port asked for of each server
  server,       \* where each server thread is
  port,         \* the port its socket listens on
  backlog,      \* the connections that wait for accept() at each socket, in order
  peer          \* how far each connection got

threadVars == <<main, log_file, lock, config, server, port>>
lifeVars == <<threadVars, backlog, peer>>

Mains == {"off", "parse_args", "logger_init", "state_init", "sensor", "http", "join",
          "state_destroy", "logger_close", "return"}

\* setup: up to listen(); listening: in accept(); returned: the thread has ended.
Phases == {"none", "setup", "listening", "returned"}

\* waiting: in the backlog; accepted: by accept(); prepared: what its thread is given has been
\* allocated; served: its thread runs, and is in a call of state.c where it is locked.
PeerStates == {"none", "waiting", "accepted", "prepared", "served", "locked"}

NoProcess ==
  /\ log_file' = "closed" /\ lock' = "none"
  /\ server' = [s \in Servers |-> "none"] /\ backlog' = [s \in Servers |-> <<>>]
  /\ peer' = [p \in Peers |-> "none"]
  /\ config' = [s \in Servers |-> 0] /\ port' = config'

LifeInit ==
  /\ main = "off" /\ log_file = "closed" /\ lock = "none"
  /\ config = [s \in Servers |-> 0] /\ port = config
  /\ server = [s \in Servers |-> "none"] /\ backlog = [s \in Servers |-> <<>>]
  /\ peer = [p \in Peers |-> "none"]

-----------------------------------------------------------------------------
(* main *)

StartProcess ==
  /\ main = "off" /\ main' = "parse_args"
  /\ UNCHANGED <<log_file, lock, config, server, port, backlog, peer>>

\* --help and arguments that are wrong end the process.
ParseArgs ==
  /\ main = "parse_args" /\ main' \in {"logger_init", "return"}
  /\ config' \in [Servers -> Ports]
  /\ UNCHANGED <<log_file, lock, server, port, backlog, peer>>

LoggerInit ==
  /\ main = "logger_init"
  /\ \/ main' = "state_init" /\ log_file' = "open"
     \/ main' = "return" /\ UNCHANGED log_file
  /\ UNCHANGED <<lock, config, server, port, backlog, peer>>

StateInit ==
  /\ main = "state_init" /\ main' = "sensor"
  /\ lock' = "live"
  /\ UNCHANGED <<log_file, config, server, port, backlog, peer>>

\* The thread runs at once, before main goes on to the next one.
CreateThread(s) ==
  /\ main = s
  /\ \/ /\ server' = [server EXCEPT ![s] = "setup"]
        /\ main' = IF s = "sensor" THEN "http" ELSE "join"
     \/ main' = "state_destroy" /\ UNCHANGED server
  /\ UNCHANGED <<log_file, lock, config, port, backlog, peer>>

\* Mutant: only the first thread is waited for.
JoinOne ==
  /\ main = "join" /\ server["sensor"] = "returned"
  /\ main' = "state_destroy"
  /\ UNCHANGED <<log_file, lock, config, server, port, backlog, peer>>

Join ==
  /\ main = "join" /\ \A s \in Servers : server[s] = "returned"
  /\ main' = "state_destroy"
  /\ UNCHANGED <<log_file, lock, config, server, port, backlog, peer>>

StateDestroy ==
  /\ main = "state_destroy" /\ main' = "logger_close"
  /\ lock' = "destroyed"
  /\ UNCHANGED <<log_file, config, server, port, backlog, peer>>

LoggerClose ==
  /\ main = "logger_close" /\ main' = "return"
  /\ log_file' = "closed"
  /\ UNCHANGED <<lock, config, server, port, backlog, peer>>

\* main returns, or a signal ends the process: every thread goes with it.
Return == main = "return" /\ main' = "off" /\ NoProcess

Signal == main # "off" /\ main' = "off" /\ NoProcess

Main ==
  ParseArgs \/ LoggerInit \/ StateInit \/ (\E s \in Servers : CreateThread(s))
    \/ Join \/ StateDestroy \/ LoggerClose \/ Return

-----------------------------------------------------------------------------
(* The server threads: sensor_server_start and http_server_start. *)

\* htons() keeps 16 bits of what atoi() returned; 0 leaves the choice to the kernel.
Listens(s, n) ==
  LET asked == config[s] % 65536 IN IF asked = 0 THEN n \in 32768 .. 32769 ELSE n = asked

Taken(n) == \E s \in Servers : server[s] = "listening" /\ port[s] = n

\* socket, bind and listen; each may fail, and bind must where the port is taken.
Setup(s) ==
  /\ server[s] = "setup"
  /\ \/ /\ \E n \in {config[s] % 65536} \cup 32768 .. 32769 :
             Listens(s, n) /\ ~Taken(n) /\ port' = [port EXCEPT ![s] = n]
        /\ server' = [server EXCEPT ![s] = "listening"]
     \/ server' = [server EXCEPT ![s] = "returned"] /\ UNCHANGED port
  /\ UNCHANGED <<main, log_file, lock, config, backlog, peer>>

Move(p, from, to) ==
  /\ peer[p] = from /\ peer' = [peer EXCEPT ![p] = to]
  /\ UNCHANGED threadVars

MoveOn(p, from, to) == Move(p, from, to) /\ UNCHANGED backlog

\* The first of the backlog, when the loop is done with the one before.  Of an accept()
\* that fails nothing is left but a line in the log.
Accept(p) ==
  LET s == PortOf[p] IN
  /\ server[s] = "listening"
  /\ \A q \in Peers : PortOf[q] = s => peer[q] \notin {"accepted", "prepared"}
  /\ backlog[s] # <<>> /\ p = Head(backlog[s])
  /\ Move(p, "waiting", "accepted")
  /\ backlog' = [backlog EXCEPT ![s] = Tail(@)]

\* Mutant: the loop ends where it should go on with the next connection.
NoMemoryEnding(p) ==
  /\ peer[p] = "accepted" /\ peer' = [peer EXCEPT ![p] = "none"]
  /\ server' = [server EXCEPT ![PortOf[p]] = "returned"]
  /\ UNCHANGED <<main, log_file, lock, config, port, backlog>>

\* malloc(): what the thread is given; without it the connection is closed.
Prepare(p) == MoveOn(p, "accepted", "prepared")

NoMemory(p) == MoveOn(p, "accepted", "none")

\* pthread_create(), and the same where it fails.
HandOver(p) == MoveOn(p, "prepared", "served")

NoThread(p) == MoveOn(p, "prepared", "none")

AcceptLoop(s) ==
  \E p \in Peers : PortOf[p] = s /\
    (Accept(p) \/ Prepare(p) \/ NoMemory(p) \/ HandOver(p) \/ NoThread(p))

-----------------------------------------------------------------------------
(* Peers, and the threads that serve them. *)

\* TCP connects a peer while the backlog has a place, whatever the loop does.
ConnectTo(p) ==
  LET s == PortOf[p] IN
  /\ server[s] = "listening" /\ Len(backlog[s]) < ListenBacklog
  /\ Move(p, "none", "waiting")
  /\ backlog' = [backlog EXCEPT ![s] = Append(@, p)]

Lock(p) == (\A q \in Peers : peer[q] # "locked") /\ MoveOn(p, "served", "locked")

Unlock(p) == MoveOn(p, "locked", "served")

Finish(p) == MoveOn(p, "served", "none")

LifeNext ==
  \/ StartProcess \/ Main \/ Signal
  \/ \E s \in Servers : Setup(s) \/ AcceptLoop(s)
  \/ \E p \in Peers : ConnectTo(p) \/ Lock(p) \/ Unlock(p) \/ Finish(p)

LifeSpec == LifeInit /\ [][LifeNext]_lifeVars

\* The accept loops run on, and accept() does not fail for ever where a connection waits.
FairLifeSpec == LifeSpec /\ \A s \in Servers : WF_lifeVars(AcceptLoop(s))

-----------------------------------------------------------------------------
\* Nothing is served without a process, nor by a server that does not listen.
LifeTypeOK ==
  /\ main \in Mains /\ log_file \in {"open", "closed"} /\ lock \in {"none", "live", "destroyed"}
  /\ config \in [Servers -> Ports \cup {0}] /\ port \in [Servers -> Int]
  /\ server \in [Servers -> Phases] /\ peer \in [Peers -> PeerStates]
  /\ backlog \in [Servers -> Seq(Peers)]
  /\ \A s \in Servers : server[s] # "none" => main \notin {"off", "parse_args", "logger_init"}
  /\ \A p \in Peers : peer[p] # "none" => server[PortOf[p]] = "listening"

\* The threads that may still use the state and write to the log.
Running ==
  \/ \E s \in Servers : server[s] \in {"setup", "listening"}
  \/ \E p \in Peers : peer[p] \in {"served", "locked"}

\* pthread_create failed for the console, and main went on to clean up.
NoConsole == server["http"] = "none" /\ main \in {"logger_close", "return"}

\* The lock of the state and the log outlast every thread that uses them: "Limpieza (se
\* alcanza solo si los servers terminan)" (main.c).  The one way around it is the console
\* that could not be started: the sensor server then runs on until main has returned.
CleanupIsLast == Running => (lock = "live" /\ log_file = "open") \/ NoConsole

\* A connection that waits gets a thread or is closed, however many are before it and
\* whichever of them malloc() or pthread_create() fails for: no failure ends the loop.
ConnectionsAreTaken == \A p \in Peers : peer[p] = "waiting" ~> peer[p] \in {"served", "none"}
=============================================================================
