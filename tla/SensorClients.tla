---------------------------- MODULE SensorClients ----------------------------
(***************************************************************************)
(* The sensor programs (clients/python_sensor/sensor.py and                *)
(* clients/java_sensor/src/SensorClient.java) and the handlers that serve  *)
(* them.  A member of Conns is one run of a program on a connection of its *)
(* own, and later another run, for the same sensor or another one.         *)
(*                                                                         *)
(* The connection keeps lines and replies in order and may be lost with    *)
(* what is under way; it is not part of src/.  A program gives up waiting  *)
(* after its timeout, or when it is interrupted, and then still sends QUIT *)
(* and waits for the answer; it may also be killed, by a crash or by       *)
(* terminate() of sensor_launcher.py.                                      *)
(***************************************************************************)
EXTENDS SensorHandler, Sequences

CONSTANTS
  Type,         \* --type
  Reading,      \* the values generateValue returns
  MaxMessages,  \* --max-messages
  Java,         \* the programs that are SensorClient.java
  Comma         \* those that run under a locale with a decimal comma

ASSUME ClientsAssumption ==
  /\ Type \in Types /\ Speaks = [c \in Conns |-> Ids]
  /\ Reading \subseteq Values /\ MaxMessages \in Nat
  /\ Java \subseteq Conns /\ Comma \subseteq Java /\ Ids # {}

VARIABLES
  client,       \* what each program is doing
  lines,        \* the lines that have not reached its handler
  replies,      \* the replies that have not reached the program
  id,           \* --id of the run
  count,        \* sent_count of the run
  lost          \* the ids of which a run was killed or lost its connection

clientVars == <<client, lines, replies, id, count, lost>>
sessionVars == <<vars, clientVars>>

\* off: no connection; loop: between two metrics; else waiting for that reply.
Doings == {"off", "register", "loop", "metric", "quit"}

RegisterLine == [command |-> "REGISTER", value |-> 0]
QuitLine     == [command |-> "QUIT", value |-> 0]
MetricLine(value) == [command |-> "METRIC", value |-> value]

ClientsInit ==
  /\ Init
  /\ client = [c \in Conns |-> "off"]
  /\ lines = [c \in Conns |-> <<>>] /\ replies = [c \in Conns |-> <<>>]
  /\ id = [c \in Conns |-> CHOOSE i \in Ids : TRUE]
  /\ count = [c \in Conns |-> 0]
  /\ lost = {}

-----------------------------------------------------------------------------
(* The programs. *)

Sends(c, line, doing) ==
  /\ lines' = [lines EXCEPT ![c] = Append(@, line)]
  /\ client' = [client EXCEPT ![c] = doing]

\* What a run makes up for, if no other of that id is still being served.
RunAgain(c, i) ==
  {j \in {i} : \A d \in Conns \ {c} : id[d] = i => pc[d] = "closed"}

\* connect() and register().
Begin(c) ==
  /\ client[c] = "off"
  /\ Accept(c)
  /\ lines' = [lines EXCEPT ![c] = <<RegisterLine>>]
  /\ client' = [client EXCEPT ![c] = "register"]
  /\ \E i \in Ids : id' = [id EXCEPT ![c] = i] /\ lost' = lost \ RunAgain(c, i)
  /\ UNCHANGED <<replies, count>>

Takes(c, doing) ==
  /\ client[c] = doing /\ replies[c] # <<>>
  /\ replies' = [replies EXCEPT ![c] = Tail(@)]

Positive(answer) ==
  answer \in {"200 REGISTERED", "200 OK", "200 STATUS", "200 PONG", "200 BYE"}

\* The loop of SensorClient.java is not entered when it may send nothing.
EntersLoop(c) == c \in Java => MaxMessages > 0

\* Mutant: the answer to REGISTER is not looked at.
TakeRegisterUnchecked(c) ==
  /\ Takes(c, "register")
  /\ client' = [client EXCEPT ![c] = "loop"]
  /\ UNCHANGED <<vars, lines, id, count, lost>>

\* A program that was not registered leaves through close(), which sends QUIT.
TakeRegister(c) ==
  /\ Takes(c, "register")
  /\ IF Positive(Head(replies[c])) /\ EntersLoop(c)
     THEN client' = [client EXCEPT ![c] = "loop"] /\ UNCHANGED lines
     ELSE Sends(c, QuitLine, "quit")
  /\ UNCHANGED <<vars, id, count, lost>>

SendMetric(c) ==
  /\ client[c] = "loop"
  /\ \E value \in Reading : Sends(c, MetricLine(value), "metric")
  /\ UNCHANGED <<vars, replies, id, count, lost>>

\* A refused metric is a warning; the maximum is looked at after a metric was sent.
TakeMetric(c) ==
  /\ Takes(c, "metric")
  /\ count' = [count EXCEPT ![c] = @ + 1]
  /\ IF count[c] + 1 >= MaxMessages
     THEN Sends(c, QuitLine, "quit")
     ELSE client' = [client EXCEPT ![c] = "loop"] /\ UNCHANGED lines
  /\ UNCHANGED <<vars, id, lost>>

\* The socket is closed and the program ends: late replies find nobody.
Leaves(c) ==
  /\ client' = [client EXCEPT ![c] = "off"]
  /\ replies' = [replies EXCEPT ![c] = <<>>]
  /\ count' = [count EXCEPT ![c] = 0]

\* Whatever comes is taken for the answer to QUIT.
TakeQuit(c) ==
  /\ client[c] = "quit" /\ replies[c] # <<>>
  /\ Leaves(c)
  /\ UNCHANGED <<vars, lines, id, lost>>

\* Mutants: after a timeout the program goes on with its loop; or leaves without QUIT.
GiveUpGoingOn(c) ==
  /\ client[c] \in {"register", "loop", "metric"}
  /\ client' = [client EXCEPT ![c] = "loop"]
  /\ UNCHANGED <<vars, lines, replies, id, count, lost>>

GiveUpSilently(c) ==
  /\ client[c] \in {"register", "loop", "metric"}
  /\ Leaves(c)
  /\ UNCHANGED <<vars, lines, id, lost>>

\* A timeout or an interruption: close() sends QUIT, and waits in turn.
GiveUp(c) ==
  /\ client[c] \in {"register", "loop", "metric"}
  /\ Sends(c, QuitLine, "quit")
  /\ UNCHANGED <<vars, replies, id, count, lost>>

GiveUpQuit(c) ==
  /\ client[c] = "quit"
  /\ Leaves(c)
  /\ UNCHANGED <<vars, lines, id, lost>>

Program(c) ==
  TakeRegister(c) \/ SendMetric(c) \/ TakeMetric(c) \/ TakeQuit(c) \/ GiveUp(c) \/ GiveUpQuit(c)

Kill(c) ==
  /\ client[c] # "off"
  /\ Leaves(c)
  /\ lost' = lost \cup {id[c]}
  /\ UNCHANGED <<vars, lines, id>>

-----------------------------------------------------------------------------
(* The connection is lost: both ends get an error, and what was under way is gone, the *)
(* lines of a program that has left too.                                               *)

Lose(c) ==
  /\ client[c] # "off" \/ lines[c] # <<>>
  /\ Leaves(c)
  /\ lines' = [lines EXCEPT ![c] = <<>>]
  /\ lost' = lost \cup {id[c]}
  /\ UNCHANGED <<vars, id>>

-----------------------------------------------------------------------------
(* The handlers, with the lines they get. *)

\* A METRIC line of a program is well formed, and its value a number, but String.format
\* writes the decimal sign of the locale, and parse_double takes no comma.
Metric(c, value) ==
  \/ c \notin Comma /\ MetricFind(c, id[c], value)
  \/ /\ MetricRefused(c, id[c]) /\ reply'[c] # "400 BAD_REQUEST"
     /\ reply'[c] = "422 INVALID_VALUE" => c \in Comma

Receive(c) ==
  /\ lines[c] # <<>>
  /\ LET line == Head(lines[c]) IN
       \/ line.command = "REGISTER" /\ Register(c, id[c], Type)
       \/ line.command = "METRIC" /\ Metric(c, line.value)
       \/ line.command = "QUIT" /\ Quit(c, id[c])
  /\ lines' = [lines EXCEPT ![c] = Tail(@)]
  /\ UNCHANGED <<client, replies, id, count, lost>>

Works(c) ==
  /\ MetricAdd(c) \/ RaiseAlert(c) \/ SetLevel(c)
  /\ UNCHANGED clientVars

Replied(c) ==
  /\ Respond(c)
  /\ replies' = IF client[c] = "off" THEN replies
                ELSE [replies EXCEPT ![c] = Append(@, reply[c])]
  /\ UNCHANGED <<client, lines, id, count, lost>>

Ends(c) ==
  /\ client[c] = "off" /\ lines[c] = <<>>
  /\ HangUp(c)
  /\ UNCHANGED clientVars

Handles(c) == Receive(c) \/ Works(c) \/ Replied(c) \/ Ends(c)

-----------------------------------------------------------------------------
ClientsNext ==
  \E c \in Conns : Begin(c) \/ Program(c) \/ Kill(c) \/ Lose(c) \/ Handles(c)

\* Handlers run on: a connection holds at most two replies, so send() does not block.
\* Programs do too: their timeouts run out, and their sleep() ends.
ClientsSpec ==
  /\ ClientsInit /\ [][ClientsNext]_sessionVars
  /\ \A c \in Conns : WF_sessionVars(Handles(c)) /\ WF_sessionVars(Program(c))

-----------------------------------------------------------------------------
\* At most two lines and two replies are under way, and none is left on a connection
\* whose handler is done.
ClientsTypeOK ==
  /\ TypeOK
  /\ client \in [Conns -> Doings]
  /\ id \in [Conns -> Ids]
  /\ lost \subseteq Ids
  /\ \A c \in Conns :
       /\ Len(lines[c]) <= 2 /\ Len(replies[c]) <= 2
       /\ pc[c] = "closed" => lines[c] = <<>>
       /\ client[c] = "off" => replies[c] = <<>>

\* Programs report only for sensors the server knows: a program whose REGISTER was not
\* answered, or was refused, sends no METRIC.
NeverNotFound == \A c \in Conns : reply[c] # "404 SENSOR_NOT_FOUND"

\* No other run of its id is under way, or was killed.
Alone(c) ==
  /\ id[c] \notin lost
  /\ \A d \in Conns \ {c} : id[d] = id[c] => client[d] = "off" /\ pc[d] = "closed"

\* A program that has read 200 BYE leaves its sensor INACTIVE, unless another run has the
\* same id: no line of its own is served after QUIT.
ByeMeansInactive ==
  [][\A c \in Conns :
       client[c] = "quit" /\ client'[c] = "off" /\ replies[c] # <<>>
           /\ Head(replies[c]) = "200 BYE"
           /\ Alone(c) =>
         \A s \in Slots : Holds(s, id[c]) => sensors[s].status = "INACTIVE"]_sessionVars

Active(s) == sensors[s].active = 1 /\ sensors[s].status = "ACTIVE"

\* Programs leave no sensor ACTIVE for good, though they time out, are refused or share an
\* id: only one that is killed, or loses its connection, does, until it is run again.
SensorsEndInactive ==
  \A s \in Slots : Active(s) ~> ~Active(s) \/ \E i \in lost : Holds(s, i)

-----------------------------------------------------------------------------
(* What documents and comments say of the programs. *)

\* Only QUIT of its own session makes a sensor INACTIVE: "Cierra la sesión del sensor".
RegisteredStaysActive ==
  \A c \in Conns : client[c] = "loop" =>
    \A s \in Slots : Holds(s, id[c]) => sensors[s].status = "ACTIVE"
=============================================================================
