-------------------------------- MODULE Login --------------------------------
(***************************************************************************)
(* GET /login?user=X (route_login of server/src/http_server.c): the thread *)
(* of the request asks the authentication service (auth_check_user of      *)
(* server/src/auth_client.c, auth of auth_service/auth_server.py) over a   *)
(* connection of its own, and makes its page of what it could read.        *)
(*                                                                         *)
(* An answer is the sequence of the pieces the client looks for.  The      *)
(* service writes them one at a time and may stop and start again in       *)
(* between; a call of the client may fail, or time out after five seconds, *)
(* whatever the service does.                                              *)
(***************************************************************************)
EXTENDS Integers, Sequences, SequencesExt

CONSTANTS
  Threads,      \* request threads of the console
  Names,        \* values of user= as route_login cuts them, not empty
  User,         \* the user auth() looks up for a name: decoded and stripped
  Blank,        \* the empty name
  Operators     \* USERS of the service

ASSUME LoginAssumption == Names \cup {Blank} \subseteq DOMAIN User /\ Blank \notin Operators

VARIABLES
  at,           \* where each thread is
  name,         \* the user it asks about
  conn,         \* its connection to the service: "none", "open" or "ended" by the service
  written,      \* pieces the service has written to it
  got,          \* pieces recv() has returned
  page,         \* status of the last page the thread sent, 0 before
  service       \* "up" or "down"

loginVars == <<at, name, conn, written, got, page, service>>

Ats == {"idle", "resolve", "connect", "send", "recv"}

\* auth(): Flask writes the headers, and then the object with its keys in order.
AnswerTo(user) ==
  <<"headers", "gap">> \o
    (IF user = Blank THEN <<"error">>
     ELSE IF user \in Operators THEN <<"exists_true", "role">> ELSE <<"exists_false">>)

Answer(t) == AnswerTo(User[name[t]])

LoginInit ==
  /\ at = [t \in Threads |-> "idle"]
  /\ name = [t \in Threads |-> Blank]
  /\ conn = [t \in Threads |-> "none"]
  /\ written = [t \in Threads |-> 0] /\ got = [t \in Threads |-> 0]
  /\ page = [t \in Threads |-> 0]
  /\ service = "up"

-----------------------------------------------------------------------------
(* The service. *)

Write(t) ==
  /\ service = "up" /\ at[t] = "recv" /\ conn[t] = "open"
  /\ written' = [written EXCEPT ![t] = @ + 1]
  /\ conn' = [conn EXCEPT ![t] = IF written[t] + 1 = Len(Answer(t)) THEN "ended" ELSE @]
  /\ UNCHANGED <<at, name, got, page, service>>

\* The process stops: the connections it has end after what it wrote.
Stop ==
  /\ service = "up" /\ service' = "down"
  /\ conn' = [t \in Threads |-> IF conn[t] = "open" THEN "ended" ELSE conn[t]]
  /\ UNCHANGED <<at, name, written, got, page>>

Start ==
  /\ service = "down" /\ service' = "up"
  /\ UNCHANGED <<at, name, conn, written, got, page>>

-----------------------------------------------------------------------------
(* auth_check_user and the page route_login makes of its result. *)

\* Mutants: the answer is searched whole, headers or not; "true" is not part of the search.
ParsedWithoutGap(pieces) == IF pieces = {} THEN 500 ELSE IF "exists_true" \in pieces THEN 200 ELSE 401

ParsedLoosely(pieces) ==
  IF "gap" \notin pieces THEN 500
  ELSE IF pieces \cap {"exists_true", "exists_false"} # {} THEN 200 ELSE 401

\* result.error, or result.exists: the body starts after the gap.
Parsed(pieces) ==
  IF "gap" \notin pieces THEN 500 ELSE IF "exists_true" \in pieces THEN 200 ELSE 401

\* The page is sent and the thread is done.
SendPage(t, status) ==
  /\ at' = [at EXCEPT ![t] = "idle"]
  /\ conn' = [conn EXCEPT ![t] = "none"]
  /\ page' = [page EXCEPT ![t] = status]

\* route_login starts; without a user it asks nobody.
Request(t, user) ==
  /\ at[t] = "idle"
  /\ name' = [name EXCEPT ![t] = user]
  /\ at' = [at EXCEPT ![t] = "resolve"]
  /\ written' = [written EXCEPT ![t] = 0] /\ got' = [got EXCEPT ![t] = 0]
  /\ page' = [page EXCEPT ![t] = 0]
  /\ UNCHANGED <<conn, service>>

RequestNobody(t) ==
  /\ at[t] = "idle"
  /\ SendPage(t, 400)
  /\ name' = [name EXCEPT ![t] = Blank]
  /\ written' = [written EXCEPT ![t] = 0] /\ got' = [got EXCEPT ![t] = 0]
  /\ UNCHANGED service

\* getaddrinfo, socket, connect or send fails: error = 1.
Fail(t) ==
  /\ at[t] \in {"resolve", "connect", "send"}
  /\ SendPage(t, 500)
  /\ UNCHANGED <<name, written, got, service>>

Resolve(t) ==
  /\ at[t] = "resolve"
  /\ at' = [at EXCEPT ![t] = "connect"]
  /\ UNCHANGED <<name, conn, written, got, page, service>>

Connect(t) ==
  /\ at[t] = "connect" /\ service = "up"
  /\ at' = [at EXCEPT ![t] = "send"]
  /\ conn' = [conn EXCEPT ![t] = "open"]
  /\ UNCHANGED <<name, written, got, page, service>>

Send(t) ==
  /\ at[t] = "send"
  /\ at' = [at EXCEPT ![t] = "recv"]
  /\ UNCHANGED <<name, conn, written, got, page, service>>

\* Mutant: every piece the service will write is taken for read.
RecvPieceUnchecked(t) ==
  /\ at[t] = "recv" /\ got[t] < Len(Answer(t))
  /\ got' = [got EXCEPT ![t] = @ + 1]
  /\ UNCHANGED <<at, name, conn, written, page, service>>

RecvPiece(t) ==
  /\ at[t] = "recv" /\ got[t] < written[t]
  /\ got' = [got EXCEPT ![t] = @ + 1]
  /\ UNCHANGED <<at, name, conn, written, page, service>>

\* Mutant: a timeout of recv() is tried again.
RecvEndRetrying(t) ==
  /\ at[t] = "recv"
  /\ IF conn[t] = "ended" /\ got[t] = written[t]
     THEN SendPage(t, Parsed(ToSet(SubSeq(Answer(t), 1, got[t]))))
     ELSE UNCHANGED <<at, conn, page>>
  /\ UNCHANGED <<name, written, got, service>>

\* recv() returns 0 or -1, at the end of the answer, when the connection breaks, or
\* because what comes next is late; the loop does not ask which.
RecvEnd(t) ==
  /\ at[t] = "recv"
  /\ SendPage(t, Parsed(ToSet(SubSeq(Answer(t), 1, got[t]))))
  /\ UNCHANGED <<name, written, got, service>>

-----------------------------------------------------------------------------
AuthCheckUser(t) == Fail(t) \/ Resolve(t) \/ Connect(t) \/ Send(t) \/ RecvPiece(t) \/ RecvEnd(t)

LoginNext ==
  \/ Stop \/ Start
  \/ \E t \in Threads : Write(t) \/ AuthCheckUser(t) \/ RequestNobody(t)
  \/ \E t \in Threads, user \in Names : Request(t, user)

LoginSpec == LoginInit /\ [][LoginNext]_loginVars

\* The calls of a thread return: each has a timeout.  Nothing is asked of the service.
FairLoginSpec == LoginSpec /\ \A t \in Threads : WF_loginVars(AuthCheckUser(t))

-----------------------------------------------------------------------------
\* A thread has a connection exactly while it sends and receives, and never more of an
\* answer than was written of it.
LoginTypeOK ==
  /\ at \in [Threads -> Ats]
  /\ name \in [Threads -> Names \cup {Blank}]
  /\ page \in [Threads -> {0, 200, 400, 401, 500}]
  /\ service \in {"up", "down"}
  /\ \A t \in Threads :
       /\ conn[t] \in {"none", "open", "ended"}
       /\ conn[t] # "none" <=> at[t] \in {"send", "recv"}
       /\ written[t] \in 0 .. Len(Answer(t)) /\ got[t] \in 0 .. written[t]

\* Whatever is lost, late or cut, only the name of an operator is welcomed.
OnlyOperatorsEnter ==
  \A t \in Threads : page[t] = 200 => User[name[t]] \in Operators

\* A verdict, favourable or not, rests on an answer whose headers were read: as long as
\* the service cannot be reached the operator is told of an error.  An operator is denied
\* by an answer only that broke off right after its headers, although auth_client.h keeps
\* error for "error de red/parsing".
VerdictsRestOnAnswers ==
  \A t \in Threads :
    /\ page[t] \in {200, 401} => got[t] >= 2
    /\ page[t] = 401 /\ User[name[t]] \in Operators => got[t] = 2

\* With the service down for good, stuck or slow, every login still ends with a page.
LoginEnds == \A t \in Threads : at[t] # "idle" ~> at[t] = "idle"
=============================================================================
