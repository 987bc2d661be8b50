----------------------------- MODULE ServerProofs -----------------------------
(***************************************************************************)
(* The process around its modules, for every number of connections, ports, *)
(* request threads, names and sizes: the order in which main opens and     *)
(* cleans up (1, Lifecycle), the login page (2, Login) and the buffer the  *)
(* pages are put together in (3, PageBody).                                *)
(***************************************************************************)
EXTENDS Lifecycle, Login, PageBody, SequenceTheorems, TLAPS

-----------------------------------------------------------------------------
(* 1. The start and the end of the server. *)

NothingStarted == main \in {"off", "parse_args", "logger_init", "state_init", "sensor"}

\* The inductive invariant: how far main is says which threads there are and what is open.
\* main gets to the clean-up with both servers ended, or without a console.
LifeInv ==
  /\ LifeTypeOK
  /\ NothingStarted => \A s \in Servers : server[s] = "none"
  /\ main = "http" => server["http"] = "none"
  /\ main = "state_init" => log_file = "open"
  /\ main \in {"sensor", "http", "join", "state_destroy"} => lock = "live" /\ log_file = "open"
  /\ main \in {"state_destroy", "logger_close", "return"} =>
       server["http"] = "none" \/ \A s \in Servers : server[s] = "returned"

\* A step of main that leaves the threads alone, or ends the process with them.
LEMMA MainKeepsLifeInv ==
  ASSUME LifeInv,
         \/ StartProcess \/ ParseArgs \/ LoggerInit \/ StateInit
         \/ Join \/ StateDestroy \/ LoggerClose \/ Return \/ Signal
  PROVE  LifeInv'
<1> USE LifeAssumption DEF LifeInv, LifeTypeOK, NothingStarted, Mains, Servers
<1>1. CASE StartProcess
  BY <1>1 DEF StartProcess
<1>2. CASE ParseArgs
  <2>1. config' \in [Servers -> Ports \cup {0}]
    BY <1>2 DEF ParseArgs
  <2> QED
    BY <1>2, <2>1 DEF ParseArgs
<1>3. CASE LoggerInit
  BY <1>3 DEF LoggerInit
<1>4. CASE StateInit
  BY <1>4 DEF StateInit
<1>5. CASE Join
  BY <1>5 DEF Join
<1>6. CASE StateDestroy
  BY <1>6 DEF StateDestroy
<1>7. CASE LoggerClose
  BY <1>7 DEF LoggerClose
<1>8. ASSUME main' = "off", NoProcess PROVE LifeInv'
  BY <1>8 DEF NoProcess, Phases, PeerStates
<1> QED
  BY <1>1, <1>2, <1>3, <1>4, <1>5, <1>6, <1>7, <1>8 DEF Return, Signal

\* A server thread is created by main alone, once for each server, and leaves its setup
\* before there is any connection to its port.
LEMMA ThreadsKeepLifeInv ==
  ASSUME LifeInv, NEW s \in Servers, CreateThread(s) \/ Setup(s)
  PROVE  LifeInv'
<1> USE LifeAssumption DEF LifeInv, LifeTypeOK, NothingStarted, Mains, Servers
<1>1. CASE CreateThread(s)
  <2>1. server' \in [Servers -> Phases]
    BY <1>1 DEF CreateThread, Phases
  <2>2. server[s] = "none" /\ s = main
    BY <1>1 DEF CreateThread
  <2>3. \A p \in Peers : peer[p] # "none" => PortOf[p] # s
    BY <2>2
  <2>4. \A p \in Peers : peer'[p] # "none" => server'[PortOf[p]] = "listening"
    BY <1>1, <2>3 DEF CreateThread
  <2> QED
    BY <1>1, <2>1, <2>2, <2>4 DEF CreateThread
<1>2. CASE Setup(s)
  <2>1. server' \in [Servers -> Phases]
    BY <1>2 DEF Setup, Phases
  <2>2. config[s] % 65536 \in Int
    <3>1. config[s] \in Ports \cup {0}
      OBVIOUS
    <3>2. \A n \in Ports \cup {0} : n \in Int
      BY SMT
    <3>3. config[s] \in Int
      BY <3>1, <3>2
    <3> QED
      BY <3>3
  <2>3. port' \in [Servers -> Int]
    BY <1>2, <2>2 DEF Setup, Listens
  <2>4. \A p \in Peers : peer[p] # "none" => PortOf[p] # s
    BY <1>2 DEF Setup
  <2>5. \A p \in Peers : peer'[p] # "none" => server'[PortOf[p]] = "listening"
    BY <1>2, <2>4 DEF Setup
  <2>6. \A r \in Servers : server'[r] # server[r] => r = s /\ server[s] = "setup"
    BY <1>2 DEF Setup
  <2> QED
    BY <1>2, <2>1, <2>3, <2>5, <2>6 DEF Setup
<1> QED
  BY <1>1, <1>2

\* Connections come and go with a server that listens.
LEMMA PeersKeepLifeInv ==
  ASSUME LifeInv, NEW p \in Peers,
         \/ ConnectTo(p) \/ Accept(p) \/ Prepare(p) \/ NoMemory(p) \/ HandOver(p) \/ NoThread(p)
         \/ Lock(p) \/ Unlock(p) \/ Finish(p)
  PROVE  LifeInv'
<1> USE LifeAssumption DEF LifeInv, LifeTypeOK, NothingStarted
<1>1. PICK from \in PeerStates, to \in PeerStates :
        Move(p, from, to) /\ (from = "none" => server[PortOf[p]] = "listening")
  BY DEF ConnectTo, Accept, Prepare, NoMemory, HandOver, NoThread, Lock, Unlock, Finish,
         MoveOn, PeerStates
<1>2. peer' \in [Peers -> PeerStates]
  BY <1>1 DEF Move
<1>3. server[PortOf[p]] = "listening"
  BY <1>1 DEF Move
<1>4. \A q \in Peers : peer'[q] # "none" => server[PortOf[q]] = "listening"
  BY <1>1, <1>3 DEF Move
<1>5. backlog' \in [Servers -> Seq(Peers)]
  <2>1. CASE UNCHANGED backlog
    BY <2>1
  <2>2. CASE ConnectTo(p)
    <3>1. Append(backlog[PortOf[p]], p) \in Seq(Peers)
      BY AppendProperties
    <3> QED
      BY <2>2, <3>1 DEF ConnectTo
  <2>3. CASE Accept(p)
    <3>1. backlog[PortOf[p]] \in Seq(Peers) /\ backlog[PortOf[p]] # <<>>
      BY <2>3 DEF Accept
    <3>2. Tail(backlog[PortOf[p]]) \in Seq(Peers)
      BY <3>1, HeadTailProperties
    <3> QED
      BY <2>3, <3>2 DEF Accept
  <2> QED
    BY <2>1, <2>2, <2>3 DEF Prepare, NoMemory, HandOver, NoThread, Lock, Unlock, Finish, MoveOn
<1> QED
  BY <1>1, <1>2, <1>4, <1>5 DEF Move, threadVars

THEOREM LifeInvHolds == LifeSpec => []LifeInv
<1>1. LifeInit => LifeInv
  BY LifeAssumption
     DEF LifeInit, LifeInv, LifeTypeOK, NothingStarted, Mains, Servers, Phases, PeerStates
<1>2. LifeInv /\ [LifeNext]_lifeVars => LifeInv'
  <2> SUFFICES ASSUME LifeInv, [LifeNext]_lifeVars PROVE LifeInv'
    OBVIOUS
  <2>1. CASE StartProcess \/ Main \/ Signal
    BY <2>1, MainKeepsLifeInv, ThreadsKeepLifeInv DEF Main
  <2>2. CASE \E s \in Servers : Setup(s) \/ AcceptLoop(s)
    BY <2>2, ThreadsKeepLifeInv, PeersKeepLifeInv DEF AcceptLoop
  <2>3. ASSUME NEW p \in Peers, ConnectTo(p) \/ Lock(p) \/ Unlock(p) \/ Finish(p)
        PROVE  LifeInv'
    BY <2>3, PeersKeepLifeInv
  <2>4. CASE UNCHANGED lifeVars
    BY <2>4 DEF lifeVars, threadVars, LifeInv, LifeTypeOK, NothingStarted
  <2> QED
    BY <2>1, <2>2, <2>3, <2>4 DEF LifeNext
<1> QED
  BY <1>1, <1>2, PTL DEF LifeSpec

\* Whatever is in the backlog, with a thread or in a call of state.c belongs to a server
\* that listens, whenever a signal comes.
THEOREM LifeTyped == LifeSpec => []LifeTypeOK
<1>1. LifeInv => LifeTypeOK
  BY DEF LifeInv
<1> QED
  BY <1>1, LifeInvHolds, PTL

\* The lock of g_state and the log file outlast every thread that uses them, unless main
\* could not start the console (pthread_create of main.c).
THEOREM CleanupComesLast == LifeSpec => []CleanupIsLast
<1>1. LifeInv => CleanupIsLast
  <2> SUFFICES ASSUME LifeInv, Running PROVE (lock = "live" /\ log_file = "open") \/ NoConsole
    BY DEF CleanupIsLast
  <2>1. PICK s \in Servers : server[s] \in {"setup", "listening"}
    BY LifeAssumption DEF Running, LifeInv, LifeTypeOK
  <2>2. ~NothingStarted
    BY <2>1 DEF LifeInv
  <2>3. CASE main \in {"http", "join", "state_destroy"}
    BY <2>3 DEF LifeInv
  <2>4. CASE main \in {"logger_close", "return"}
    BY <2>1, <2>4 DEF LifeInv, NoConsole
  <2> QED
    BY <2>2, <2>3, <2>4 DEF LifeInv, LifeTypeOK, NothingStarted, Mains
<1> QED
  BY <1>1, LifeInvHolds, PTL

-----------------------------------------------------------------------------
(* 2. The login page. *)

Pieces == {"headers", "gap", "error", "exists_true", "exists_false", "role"}

\* An answer is its headers, the gap and what follows it.
LEMMA AfterTheGap ==
  ASSUME NEW rest \in Seq(Pieces), NEW answer, answer = <<"headers", "gap">> \o rest
  PROVE  /\ answer \in Seq(Pieces) /\ Len(answer) = 2 + Len(rest)
         /\ answer[1] = "headers" /\ answer[2] = "gap"
         /\ Len(rest) >= 1 => answer[3] = rest[1]
         /\ Len(rest) >= 2 => answer[4] = rest[2]
<1> DEFINE first == <<"headers", "gap">>
<1>1. /\ first \in Seq(Pieces) /\ Len(first) = 2
      /\ first[1] = "headers" /\ first[2] = "gap"
  BY DEF Pieces
<1>2. answer = first \o rest
  OBVIOUS
<1> HIDE DEF first
<1>3. /\ answer \in Seq(Pieces) /\ Len(answer) = 2 + Len(rest)
      /\ \A i \in 1 .. 2 + Len(rest) :
           answer[i] = IF i <= 2 THEN first[i] ELSE rest[i - 2]
  BY <1>1, <1>2, ConcatProperties
<1> QED
  BY <1>1, <1>3

\* An operator is answered with two more pieces, others with one.
LEMMA AnswerPieces ==
  ASSUME NEW user, NEW answer, answer = AnswerTo(user)
  PROVE  /\ answer \in Seq(Pieces)
         /\ answer[1] = "headers" /\ answer[2] = "gap"
         /\ 3 <= Len(answer) /\ Len(answer) <= 4
         /\ user \in Operators => answer[3] = "exists_true" /\ answer[4] = "role"
         /\ user \notin Operators => Len(answer) <= 3 /\ answer[3] \in {"error", "exists_false"}
<1> DEFINE rest == IF user = Blank THEN <<"error">>
                   ELSE IF user \in Operators THEN <<"exists_true", "role">>
                   ELSE <<"exists_false">>
<1>1. answer = <<"headers", "gap">> \o rest
  BY DEF AnswerTo
<1>2. /\ rest \in Seq(Pieces)
      /\ 1 <= Len(rest) /\ Len(rest) <= 2
      /\ user \in Operators => 2 <= Len(rest) /\ rest[1] = "exists_true" /\ rest[2] = "role"
      /\ user \notin Operators => Len(rest) <= 1 /\ rest[1] \in {"error", "exists_false"}
  <2>1. CASE user = Blank
    BY <2>1, LoginAssumption DEF Pieces
  <2>2. CASE user # Blank /\ user \in Operators
    BY <2>2 DEF Pieces
  <2>3. CASE user # Blank /\ user \notin Operators
    BY <2>3 DEF Pieces
  <2> QED
    BY <2>1, <2>2, <2>3
<1> HIDE DEF rest
<1>3. /\ answer \in Seq(Pieces) /\ Len(answer) = 2 + Len(rest)
      /\ answer[1] = "headers" /\ answer[2] = "gap"
      /\ Len(rest) >= 1 => answer[3] = rest[1]
      /\ Len(rest) >= 2 => answer[4] = rest[2]
  BY <1>1, <1>2, AfterTheGap
<1>4. CASE user \in Operators
  BY <1>2, <1>3, <1>4
<1>5. CASE user \notin Operators
  BY <1>2, <1>3, <1>5
<1> QED
  BY <1>4, <1>5

\* What recv() has returned of an answer.
LEMMA FirstPieces ==
  ASSUME NEW S, NEW seq \in Seq(S), NEW n \in 0 .. Len(seq)
  PROVE  /\ SubSeq(seq, 1, n) \in Seq(S) /\ Len(SubSeq(seq, 1, n)) = n
         /\ \A i \in 1 .. n : SubSeq(seq, 1, n)[i] = seq[i]
BY SubSeqProperties

\* What route_login makes of the first n pieces of an answer: welcome only for an
\* operator, a verdict only with the headers, and an operator denied only where the
\* answer ends right after them.
LEMMA ParsedPieces ==
  ASSUME NEW user, NEW n \in 0 .. Len(AnswerTo(user))
  PROVE  LET status == Parsed(ToSet(SubSeq(AnswerTo(user), 1, n))) IN
           /\ status \in {200, 401, 500}
           /\ status \in {200, 401} => n >= 2
           /\ status = 200 => user \in Operators
           /\ status = 401 /\ user \in Operators => n = 2
<1> DEFINE answer == AnswerTo(user)
           read == SubSeq(answer, 1, n)
           pieces == ToSet(read)
<1>1. /\ answer \in Seq(Pieces)
      /\ answer[1] = "headers" /\ answer[2] = "gap"
      /\ 3 <= Len(answer) /\ Len(answer) <= 4
      /\ user \in Operators => answer[3] = "exists_true" /\ answer[4] = "role"
      /\ user \notin Operators => Len(answer) <= 3 /\ answer[3] \in {"error", "exists_false"}
  BY AnswerPieces
<1>2. n \in 0 .. Len(answer)
  OBVIOUS
<1> HIDE DEF answer
<1>3. n \in Nat /\ (n <= 3 \/ (n = 4 /\ user \in Operators))
  <2>1. CASE user \in Operators
    BY <1>1, <1>2, <2>1
  <2>2. CASE user \notin Operators
    BY <1>1, <1>2, <2>2
  <2> QED
    BY <2>1, <2>2
<1>4. read \in Seq(Pieces) /\ Len(read) = n /\ \A i \in 1 .. n : read[i] = answer[i]
  <2> HIDE DEF read
  <2> QED
    BY <1>1, <1>2, FirstPieces DEF read
<1> HIDE DEF read
<1>5. \A piece : piece \in pieces <=> \E i \in 1 .. n : answer[i] = piece
  BY <1>3, <1>4 DEF ToSet
<1> HIDE DEF pieces
<1>6. "gap" \in pieces <=> n >= 2
  BY <1>1, <1>3, <1>5
<1>7. "exists_true" \in pieces <=> n >= 3 /\ user \in Operators
  <2>1. CASE n >= 3 /\ user \in Operators
    BY <1>1, <1>3, <1>5, <2>1
  <2>2. CASE n < 3 \/ user \notin Operators
    <3>1. \A i \in 1 .. n : i = 1 \/ i = 2 \/ (i = 3 /\ user \notin Operators)
      BY <1>3, <2>2
    <3> QED
      BY <1>1, <1>3, <1>5, <2>2, <3>1
  <2> QED
    BY <1>3, <2>1, <2>2
<1>8. Parsed(pieces) =
        IF n < 2 THEN 500 ELSE IF n >= 3 /\ user \in Operators THEN 200 ELSE 401
  BY <1>3, <1>6, <1>7 DEF Parsed
<1> QED
  BY <1>3, <1>8 DEF answer, pieces, read

\* The inductive invariant: while the service is being asked there is no page yet, nothing
\* was read before the question was sent, and a connection ends with its answer.
Asked ==
  \A t \in Threads :
    /\ at[t] # "idle" => page[t] = 0
    /\ at[t] \in {"resolve", "connect", "send"} => written[t] = 0 /\ got[t] = 0
    /\ conn[t] = "open" => written[t] < Len(Answer(t))

LoginInv ==
  /\ conn \in [Threads -> {"none", "open", "ended"}]
  /\ written \in [Threads -> Nat] /\ got \in [Threads -> Nat]
  /\ LoginTypeOK /\ Asked /\ OnlyOperatorsEnter /\ VerdictsRestOnAnswers

\* A thread comes to this state, with nothing of the others changed.
Becomes(t, a, who, c, w, g, status) ==
  /\ a \in Ats /\ who \in Names \cup {Blank}
  /\ at' = [at EXCEPT ![t] = a] /\ name' = [name EXCEPT ![t] = who]
  /\ conn' = [conn EXCEPT ![t] = c] /\ page' = [page EXCEPT ![t] = status]
  /\ written' = [written EXCEPT ![t] = w] /\ got' = [got EXCEPT ![t] = g]
  /\ UNCHANGED service

\* What the invariant says of the thread.
ThreadOK(a, who, c, w, g, status) ==
  /\ c \in {"none", "open", "ended"} /\ w \in Nat /\ g \in 0 .. w
  /\ status \in {0, 200, 400, 401, 500}
  /\ c # "none" <=> a \in {"send", "recv"}
  /\ w <= Len(AnswerTo(User[who]))
  /\ c = "open" => w < Len(AnswerTo(User[who]))
  /\ a # "idle" => status = 0
  /\ a \in {"resolve", "connect", "send"} => w = 0
  /\ status \in {200, 401} => g >= 2
  /\ status = 200 => User[who] \in Operators
  /\ status = 401 /\ User[who] \in Operators => g = 2

LEMMA OneThread ==
  ASSUME LoginInv, NEW t \in Threads, NEW a, NEW who, NEW c, NEW w, NEW g, NEW status,
         Becomes(t, a, who, c, w, g, status), ThreadOK(a, who, c, w, g, status)
  PROVE  LoginInv'
<1> USE DEF Becomes, ThreadOK
<1>1. at' \in [Threads -> Ats] /\ name' \in [Threads -> Names \cup {Blank}]
      /\ page' \in [Threads -> {0, 200, 400, 401, 500}] /\ service' \in {"up", "down"}
      /\ conn' \in [Threads -> {"none", "open", "ended"}]
      /\ written' \in [Threads -> Nat] /\ got' \in [Threads -> Nat]
  BY DEF LoginInv, LoginTypeOK
<1>2. /\ at'[t] = a /\ name'[t] = who /\ page'[t] = status
      /\ conn'[t] = c /\ written'[t] = w /\ got'[t] = g
      /\ Answer(t)' = AnswerTo(User[who])
  BY DEF LoginInv, LoginTypeOK, Answer
<1>3. ASSUME NEW u \in Threads, u # t
      PROVE  /\ at'[u] = at[u] /\ name'[u] = name[u] /\ conn'[u] = conn[u]
             /\ written'[u] = written[u] /\ got'[u] = got[u] /\ page'[u] = page[u]
             /\ Answer(u)' = Answer(u)
  BY <1>3 DEF LoginInv, LoginTypeOK, Answer
<1>4. LoginTypeOK'
  <2> SUFFICES ASSUME NEW u \in Threads
               PROVE  /\ conn'[u] \in {"none", "open", "ended"}
                      /\ conn'[u] # "none" <=> at'[u] \in {"send", "recv"}
                      /\ written'[u] \in 0 .. Len(Answer(u)') /\ got'[u] \in 0 .. written'[u]
    BY <1>1 DEF LoginTypeOK
  <2>1. CASE u = t
    BY <1>2, <2>1
  <2>2. CASE u # t
    BY <1>3, <2>2 DEF LoginInv, LoginTypeOK
  <2> QED
    BY <2>1, <2>2
<1>5. Asked'
  <2> SUFFICES ASSUME NEW u \in Threads
               PROVE  /\ at'[u] # "idle" => page'[u] = 0
                      /\ at'[u] \in {"resolve", "connect", "send"} =>
                           written'[u] = 0 /\ got'[u] = 0
                      /\ conn'[u] = "open" => written'[u] < Len(Answer(u)')
    BY DEF Asked
  <2>1. CASE u = t
    BY <1>2, <2>1
  <2>2. CASE u # t
    BY <1>3, <2>2 DEF LoginInv, Asked
  <2> QED
    BY <2>1, <2>2
<1>6. OnlyOperatorsEnter'
  BY <1>2, <1>3 DEF LoginInv, OnlyOperatorsEnter
<1>7. VerdictsRestOnAnswers'
  BY <1>2, <1>3 DEF LoginInv, VerdictsRestOnAnswers
<1> QED
  BY <1>1, <1>4, <1>5, <1>6, <1>7 DEF LoginInv

\* Every step of a request keeps the invariant.
LEMMA RequestKeepsLoginInv ==
  ASSUME LoginInv, NEW t \in Threads,
         Write(t) \/ AuthCheckUser(t) \/ RequestNobody(t) \/ \E user \in Names : Request(t, user)
  PROVE  LoginInv'
<1>1. /\ at \in [Threads -> Ats] /\ name \in [Threads -> Names \cup {Blank}]
      /\ page \in [Threads -> {0, 200, 400, 401, 500}]
      /\ conn \in [Threads -> {"none", "open", "ended"}]
      /\ written \in [Threads -> Nat] /\ got \in [Threads -> Nat]
      /\ conn[t] # "none" <=> at[t] \in {"send", "recv"}
      /\ written[t] <= Len(AnswerTo(User[name[t]])) /\ got[t] \in 0 .. written[t]
      /\ at[t] # "idle" => page[t] = 0
      /\ at[t] \in {"resolve", "connect", "send"} => written[t] = 0 /\ got[t] = 0
      /\ conn[t] = "open" => written[t] < Len(AnswerTo(User[name[t]]))
  BY DEF LoginInv, LoginTypeOK, Asked, Answer
<1>2. \A user : Len(AnswerTo(user)) \in Nat /\ 3 <= Len(AnswerTo(user))
  BY AnswerPieces
<1>3. /\ at = [at EXCEPT ![t] = at[t]] /\ name = [name EXCEPT ![t] = name[t]]
      /\ conn = [conn EXCEPT ![t] = conn[t]] /\ page = [page EXCEPT ![t] = page[t]]
      /\ written = [written EXCEPT ![t] = written[t]] /\ got = [got EXCEPT ![t] = got[t]]
  BY <1>1
<1>4. CASE Write(t)
  <2> DEFINE c == IF written[t] + 1 = Len(Answer(t)) THEN "ended" ELSE conn[t]
  <2>1. c \in {"none", "open", "ended"} /\ c # "none"
    BY <1>1, <1>4 DEF Write
  <2>2. c = "open" => written[t] + 1 < Len(AnswerTo(User[name[t]]))
    BY <1>1, <1>2, <1>4 DEF Write, Answer
  <2>3. Becomes(t, "recv", name[t], c, written[t] + 1, got[t], 0)
    BY <1>1, <1>3, <1>4 DEF Write, Becomes, Ats
  <2>4. ThreadOK("recv", name[t], c, written[t] + 1, got[t], 0)
    <3> HIDE DEF c
    <3> QED
      BY <1>1, <1>2, <1>4, <2>1, <2>2 DEF Write, ThreadOK
  <2> QED
    BY <2>3, <2>4, OneThread
<1>5. CASE Fail(t)
  <2>1. Becomes(t, "idle", name[t], "none", written[t], got[t], 500)
    BY <1>1, <1>3, <1>5 DEF Fail, SendPage, Becomes, Ats
  <2>2. ThreadOK("idle", name[t], "none", written[t], got[t], 500)
    BY <1>1 DEF ThreadOK
  <2> QED
    BY <2>1, <2>2, OneThread
<1>6. CASE Resolve(t)
  <2>1. Becomes(t, "connect", name[t], conn[t], written[t], got[t], page[t])
    BY <1>1, <1>3, <1>6 DEF Resolve, Becomes, Ats
  <2>2. ThreadOK("connect", name[t], conn[t], written[t], got[t], page[t])
    BY <1>1, <1>6 DEF Resolve, ThreadOK
  <2> QED
    BY <2>1, <2>2, OneThread
<1>7. CASE Connect(t)
  <2>1. Becomes(t, "send", name[t], "open", written[t], got[t], page[t])
    BY <1>1, <1>3, <1>7 DEF Connect, Becomes, Ats
  <2>2. ThreadOK("send", name[t], "open", written[t], got[t], page[t])
    BY <1>1, <1>2, <1>7 DEF Connect, ThreadOK
  <2> QED
    BY <2>1, <2>2, OneThread
<1>8. CASE Send(t)
  <2>1. Becomes(t, "recv", name[t], conn[t], written[t], got[t], page[t])
    BY <1>1, <1>3, <1>8 DEF Send, Becomes, Ats
  <2>2. ThreadOK("recv", name[t], conn[t], written[t], got[t], page[t])
    BY <1>1, <1>8 DEF Send, ThreadOK
  <2> QED
    BY <2>1, <2>2, OneThread
<1>9. CASE RecvPiece(t)
  <2>1. Becomes(t, "recv", name[t], conn[t], written[t], got[t] + 1, page[t])
    BY <1>1, <1>3, <1>9 DEF RecvPiece, Becomes, Ats
  <2>2. ThreadOK("recv", name[t], conn[t], written[t], got[t] + 1, page[t])
    BY <1>1, <1>9 DEF RecvPiece, ThreadOK
  <2> QED
    BY <2>1, <2>2, OneThread
<1>10. CASE RecvEnd(t)
  <2> DEFINE status == Parsed(ToSet(SubSeq(AnswerTo(User[name[t]]), 1, got[t])))
  <2>1. got[t] \in 0 .. Len(AnswerTo(User[name[t]]))
    BY <1>1, <1>2
  <2>2. /\ status \in {200, 401, 500}
        /\ status \in {200, 401} => got[t] >= 2
        /\ status = 200 => User[name[t]] \in Operators
        /\ status = 401 /\ User[name[t]] \in Operators => got[t] = 2
    BY <2>1, ParsedPieces
  <2>3. Becomes(t, "idle", name[t], "none", written[t], got[t], status)
    BY <1>1, <1>3, <1>10 DEF RecvEnd, SendPage, Answer, Becomes, Ats
  <2> HIDE DEF status
  <2>4. ThreadOK("idle", name[t], "none", written[t], got[t], status)
    BY <1>1, <2>2 DEF ThreadOK
  <2> QED
    BY <2>3, <2>4, OneThread
<1>11. CASE RequestNobody(t)
  <2>1. Becomes(t, "idle", Blank, "none", 0, 0, 400)
    BY <1>1, <1>3, <1>11 DEF RequestNobody, SendPage, Becomes, Ats
  <2>2. ThreadOK("idle", Blank, "none", 0, 0, 400)
    BY <1>2 DEF ThreadOK
  <2> QED
    BY <2>1, <2>2, OneThread
<1>12. ASSUME NEW user \in Names, Request(t, user) PROVE LoginInv'
  <2>1. Becomes(t, "resolve", user, conn[t], 0, 0, 0)
    BY <1>1, <1>3, <1>12 DEF Request, Becomes, Ats
  <2>2. ThreadOK("resolve", user, conn[t], 0, 0, 0)
    BY <1>1, <1>2, <1>12 DEF Request, ThreadOK
  <2> QED
    BY <2>1, <2>2, OneThread
<1> QED
  BY <1>4, <1>5, <1>6, <1>7, <1>8, <1>9, <1>10, <1>11, <1>12 DEF AuthCheckUser

\* The connections end with the service, whatever it has written to them.
LEMMA ServiceKeepsLoginInv == ASSUME LoginInv, Stop \/ Start PROVE LoginInv'
<1> USE DEF LoginInv, LoginTypeOK, Asked, OnlyOperatorsEnter, VerdictsRestOnAnswers, Answer
<1>1. CASE Start
  BY <1>1 DEF Start
<1>2. CASE Stop
  <2>1. /\ conn' \in [Threads -> {"none", "open", "ended"}]
        /\ \A t \in Threads : /\ conn'[t] # "open"
                              /\ conn'[t] = "none" <=> conn[t] = "none"
    BY <1>2 DEF Stop
  <2> QED
    BY <1>2, <2>1 DEF Stop
<1> QED
  BY <1>1, <1>2

THEOREM LoginInvHolds == LoginSpec => []LoginInv
<1>1. LoginInit => LoginInv
  <2>1. \A user : Len(AnswerTo(user)) \in Nat /\ 3 <= Len(AnswerTo(user))
    BY AnswerPieces
  <2> QED
    BY <2>1 DEF LoginInit, LoginInv, LoginTypeOK, Asked, OnlyOperatorsEnter,
                VerdictsRestOnAnswers, Answer, Ats
<1>2. LoginInv /\ [LoginNext]_loginVars => LoginInv'
  <2> SUFFICES ASSUME LoginInv, [LoginNext]_loginVars PROVE LoginInv'
    OBVIOUS
  <2>1. CASE LoginNext
    BY <2>1, RequestKeepsLoginInv, ServiceKeepsLoginInv DEF LoginNext
  <2>2. CASE UNCHANGED loginVars
    BY <2>2 DEF loginVars, LoginInv, LoginTypeOK, Asked, OnlyOperatorsEnter,
                VerdictsRestOnAnswers, Answer
  <2> QED
    BY <2>1, <2>2
<1> QED
  BY <1>1, <1>2, PTL DEF LoginSpec

\* A thread has a connection exactly while it sends and receives, and reads no more of an
\* answer than was written.
THEOREM LoginTyped == LoginSpec => []LoginTypeOK
<1>1. LoginInv => LoginTypeOK
  BY DEF LoginInv
<1> QED
  BY <1>1, LoginInvHolds, PTL

\* No failure, delay or restart of the service lets in a user that is not an operator.
THEOREM OthersStayOut == LoginSpec => []OnlyOperatorsEnter
<1>1. LoginInv => OnlyOperatorsEnter
  BY DEF LoginInv
<1> QED
  BY <1>1, LoginInvHolds, PTL

\* Without the headers of an answer there is no verdict, and an operator is denied only by
\* an answer that ends right after them.
THEOREM VerdictsAreAnswers == LoginSpec => []VerdictsRestOnAnswers
<1>1. LoginInv => VerdictsRestOnAnswers
  BY DEF LoginInv
<1> QED
  BY <1>1, LoginInvHolds, PTL

-----------------------------------------------------------------------------
(* 3. The buffer of a page. *)

\* What a page of /sensors may take before each statement, by the rows it has so far.
SensorsRoom ==
  Heading["/sensors"] + printed * RowMax["/sensors"]
    + (IF step \in {"footer", "send"} THEN GrowthMax ELSE 0)
    + (IF step = "send" THEN Footer ELSE 0)

\* How far the others may get: the loop stopped before the reserve, or was not entered
\* again after its last row.
LoopRoom == Size - Reserve - 1 + row + (IF step = "send" THEN Footer ELSE 0)

\* The inductive invariant: what the buffer has is what was printed while that fits, a page
\* of /sensors is held by the places of its table, the others by the test of their loop.
RoomLeft ==
  /\ route \in Routes
  /\ step \in {"heading", "rows", "numbers", "footer", "send", "undefined"}
  /\ offset \in Nat /\ length \in Nat /\ printed \in Nat /\ row \in Nat
  /\ printed <= MaxRows[route] /\ row <= RowMax[route]
  /\ step = "heading" => offset = 0 /\ printed = 0
  /\ offset < Size => length = offset
  /\ IF route = "/sensors"
     THEN step # "undefined" /\ offset <= SensorsRoom
     ELSE step # "numbers" /\ offset <= LoopRoom

BodyTypes ==
  /\ Size \in Nat /\ Reserve \in Nat /\ Footer \in Nat /\ GrowthMax \in Nat
  /\ \A r \in Routes : Heading[r] \in Nat /\ RowMax[r] \in Nat /\ MaxRows[r] \in Nat
  /\ \A r \in Routes : Heading[r] + Reserve < Size
  /\ "/sensors" \in Routes /\ "/metrics" \in Routes

LEMMA BodyTyped == BodyTypes
BY BodyAssumption DEF BodyTypes, Routes

\* The rows printed take no more than all that the table has.
LEMMA RowsOfTable ==
  ASSUME NEW k \in Nat, NEW m \in Nat, NEW width \in Nat, k <= m
  PROVE  /\ k * width \in Nat /\ m * width \in Nat /\ k * width <= m * width
         /\ (k + 1) * width = k * width + width
<1>1. PICK more \in Nat : m = k + more
  <2>1. m - k \in Nat /\ m = k + (m - k)
    OBVIOUS
  <2> QED
    BY <2>1
<1>2. m * width = k * width + more * width /\ more * width \in Nat /\ k * width \in Nat
  BY <1>1
<1> QED
  BY <1>2

\* A page of /sensors fits whatever its rows are.
LEMMA SensorsFit == RoomLeft /\ route = "/sensors" => offset < Size
<1> SUFFICES ASSUME RoomLeft, route = "/sensors" PROVE offset < Size
  OBVIOUS
<1> DEFINE width == RowMax["/sensors"]
           rows == printed * width
           all == MaxRows["/sensors"] * width
<1>1. rows \in Nat /\ all \in Nat /\ rows <= all
  BY BodyTyped, RowsOfTable DEF RoomLeft, BodyTypes
<1>2. Heading["/sensors"] + all + GrowthMax + Footer < Size
  BY BodyAssumption
<1>3. offset <= Heading["/sensors"] + rows + (IF step \in {"footer", "send"} THEN GrowthMax ELSE 0)
                  + (IF step = "send" THEN Footer ELSE 0)
  BY DEF RoomLeft, SensorsRoom
<1>4. offset \in Nat /\ Heading["/sensors"] \in Nat
  BY BodyTyped DEF RoomLeft, BodyTypes
<1> HIDE DEF rows, all
<1> QED
  BY <1>1, <1>2, <1>3, <1>4, BodyTyped DEF BodyTypes

\* The room at every step lies within the buffer, but for the long rows of /alerts.
LEMMA RoomWithinBody == RoomLeft => NothingIsCut
<1> SUFFICES ASSUME RoomLeft PROVE NothingIsCut
  OBVIOUS
<1>1. CASE route = "/sensors"
  BY <1>1, SensorsFit DEF RoomLeft, NothingIsCut
<1>2. CASE route # "/sensors" /\ row + Footer <= Reserve
  <2>1. offset < Size
    BY <1>2, BodyTyped DEF RoomLeft, LoopRoom, BodyTypes
  <2> QED
    BY <2>1 DEF RoomLeft, NothingIsCut
<1>3. CASE route = "/metrics"
  <2>1. row + Footer <= Reserve
    BY <1>3, BodyTyped, BodyAssumption DEF RoomLeft, BodyTypes
  <2> QED
    BY <1>2, <1>3, <2>1
<1>4. CASE route = "/alerts" /\ row + Footer > Reserve
  BY <1>4 DEF NothingIsCut
<1>5. row + Footer > Reserve \/ row + Footer <= Reserve
  BY BodyTyped DEF RoomLeft, BodyTypes
<1> QED
  BY <1>1, <1>2, <1>3, <1>4, <1>5 DEF RoomLeft, Routes

\* A row goes where the loop still has its reserve, and counts for the table it is of.
LEMMA RowKeepsRoom ==
  ASSUME RoomLeft, NEW n \in 1 .. RowMax[route], PrintRow(n)
  PROVE  RoomLeft'
<1>1. /\ step = "rows" /\ printed < MaxRows[route] /\ offset < Size - Reserve
      /\ offset' = offset + n /\ printed' = printed + 1 /\ row' = n
      /\ length' = (IF offset + n < Size THEN offset + n ELSE Size - 1)
      /\ UNCHANGED <<route, step>>
  BY DEF PrintRow, Printed
<1>2. /\ RowMax[route] \in Nat /\ MaxRows[route] \in Nat /\ n \in Nat /\ n <= RowMax[route]
      /\ offset \in Nat /\ printed \in Nat /\ route \in Routes
  BY BodyTyped DEF BodyTypes, RoomLeft
<1>3. route = "/sensors" => offset' <= SensorsRoom'
  <2> SUFFICES ASSUME route = "/sensors" PROVE offset' <= SensorsRoom'
    OBVIOUS
  <2> DEFINE width == RowMax["/sensors"]
             rows == printed * width
             more == (printed + 1) * width
  <2>1. rows \in Nat /\ more = rows + width /\ width \in Nat /\ Heading["/sensors"] \in Nat
    BY <1>2, BodyTyped, RowsOfTable DEF BodyTypes
  <2>2. offset <= Heading["/sensors"] + rows
    BY <1>1, <2>1 DEF RoomLeft, SensorsRoom
  <2>3. SensorsRoom' = Heading["/sensors"] + more + 0 + 0
    BY <1>1 DEF SensorsRoom
  <2> HIDE DEF rows, more
  <2> QED
    BY <1>1, <1>2, <2>1, <2>2, <2>3
<1>4. route # "/sensors" => offset' <= LoopRoom'
  BY <1>1, <1>2, BodyTyped DEF LoopRoom, BodyTypes
<1>5. length' \in Nat /\ (offset' < Size => length' = offset')
  BY <1>1, <1>2, BodyTyped DEF BodyTypes
<1> QED
  BY <1>1, <1>2, <1>3, <1>4, <1>5 DEF RoomLeft

\* The numbers of /sensors are put in a page that has room for them.
LEMMA NumbersKeepRoom ==
  ASSUME RoomLeft, NEW growth \in 0 .. GrowthMax, PutNumbers(growth)
  PROVE  RoomLeft'
<1>1. /\ step = "numbers" /\ step' = "footer" /\ route = "/sensors"
      /\ UNCHANGED <<route, printed, row>>
  BY DEF PutNumbers, RoomLeft
<1>2. offset < Size /\ length = offset
  BY <1>1, SensorsFit DEF RoomLeft
<1>3. /\ growth \in Nat /\ growth <= GrowthMax /\ Size \in Nat /\ GrowthMax \in Nat
      /\ offset \in Nat
  BY BodyTyped DEF BodyTypes, RoomLeft
<1>4. offset' \in Nat /\ offset' <= offset + growth /\ length' = offset'
  BY <1>2, <1>3 DEF PutNumbers
<1>5. offset' <= SensorsRoom'
  <2> DEFINE rows == printed * RowMax["/sensors"]
  <2>1. rows \in Nat /\ Heading["/sensors"] \in Nat
    BY BodyTyped, RowsOfTable DEF RoomLeft, BodyTypes
  <2>2. offset <= Heading["/sensors"] + rows + 0 + 0
    BY <1>1 DEF RoomLeft, SensorsRoom
  <2>3. SensorsRoom' = Heading["/sensors"] + rows + GrowthMax + 0
    BY <1>1 DEF SensorsRoom
  <2> HIDE DEF rows
  <2> QED
    BY <1>3, <1>4, <2>1, <2>2, <2>3
<1> QED
  BY <1>1, <1>4, <1>5 DEF RoomLeft

\* The footer is the last thing printed.
LEMMA FooterKeepsRoom ==
  ASSUME RoomLeft, PrintFooter
  PROVE  RoomLeft'
<1>1. /\ step = "footer" /\ step' = "send" /\ offset' = offset + Footer
      /\ length' = (IF offset + Footer < Size THEN offset + Footer ELSE Size - 1)
      /\ UNCHANGED <<route, printed, row>>
  BY DEF PrintFooter, Printed
<1>2. Footer \in Nat /\ Size \in Nat /\ Size > 0 /\ Reserve \in Nat /\ offset \in Nat
  BY BodyTyped DEF BodyTypes, RoomLeft
<1>3. route = "/sensors" => offset' <= SensorsRoom'
  <2> DEFINE rows == printed * RowMax["/sensors"]
  <2>1. rows \in Nat /\ Heading["/sensors"] \in Nat /\ GrowthMax \in Nat
    BY BodyTyped, RowsOfTable DEF RoomLeft, BodyTypes
  <2>2. route = "/sensors" => offset <= Heading["/sensors"] + rows + GrowthMax + 0
    BY <1>1 DEF RoomLeft, SensorsRoom
  <2>3. SensorsRoom' = Heading["/sensors"] + rows + GrowthMax + Footer
    BY <1>1 DEF SensorsRoom
  <2> HIDE DEF rows
  <2> QED
    BY <1>1, <1>2, <2>1, <2>2, <2>3
<1>4. route # "/sensors" => offset' <= LoopRoom'
  BY <1>1, <1>2 DEF RoomLeft, LoopRoom
<1>5. offset' \in Nat /\ length' \in Nat /\ (offset' < Size => length' = offset')
  BY <1>1, <1>2
<1> QED
  BY <1>1, <1>3, <1>4, <1>5 DEF RoomLeft

\* The room left is kept by every statement of the three routes.
THEOREM RoomIsKept == BodySpec => []RoomLeft
<1> USE BodyTyped DEF BodyTypes
<1>1. BodyInit => RoomLeft
  BY RowsOfTable DEF BodyInit, RoomLeft, SensorsRoom, LoopRoom
<1>2. RoomLeft /\ [BodyNext]_bodyVars => RoomLeft'
  <2> SUFFICES ASSUME RoomLeft, [BodyNext]_bodyVars PROVE RoomLeft'
    OBVIOUS
  <2>1. CASE PrintHeading
    <3>1. offset' = Heading[route] /\ length' = offset' /\ step' = "rows" /\ UNCHANGED <<route, printed, row>>
      BY <2>1 DEF PrintHeading, Printed, RoomLeft
    <3>2. printed = 0 /\ 0 * RowMax["/sensors"] = 0
      BY <2>1 DEF PrintHeading, RoomLeft
    <3>3. route = "/sensors" => offset' <= SensorsRoom'
      BY <3>1, <3>2 DEF SensorsRoom
    <3>4. route # "/sensors" => offset' <= LoopRoom'
      BY <3>1 DEF LoopRoom, RoomLeft
    <3> QED
      BY <3>1, <3>3, <3>4 DEF RoomLeft
  <2>2. ASSUME NEW n \in 1 .. RowMax[route], PrintRow(n) PROVE RoomLeft'
    BY <2>2, RowKeepsRoom
  <2>3. CASE EndRows
    <3>1. UNCHANGED <<route, offset, length, printed, row>> /\ step = "rows"
          /\ step' = IF route = "/sensors" THEN "numbers" ELSE "footer"
      BY <2>3 DEF EndRows
    <3>2. route = "/sensors" => SensorsRoom' = SensorsRoom
      BY <3>1 DEF SensorsRoom
    <3>3. LoopRoom' = LoopRoom
      BY <3>1 DEF LoopRoom
    <3> QED
      BY <3>1, <3>2, <3>3 DEF RoomLeft
  <2>4. ASSUME NEW growth \in 0 .. GrowthMax, PutNumbers(growth) PROVE RoomLeft'
    BY <2>4, NumbersKeepRoom
  <2>5. CASE PrintFooter
    BY <2>5, FooterKeepsRoom
  <2>6. CASE PrintOutside
    <3>1. UNCHANGED <<route, offset, length, printed, row>> /\ step = "footer"
          /\ step' = "undefined" /\ offset > Size
      BY <2>6 DEF PrintOutside
    <3>2. route # "/sensors"
      BY <3>1, SensorsFit DEF RoomLeft
    <3>3. LoopRoom' = LoopRoom
      BY <3>1 DEF LoopRoom
    <3> QED
      BY <3>1, <3>2, <3>3 DEF RoomLeft
  <2>7. CASE SendBody
    BY <2>7, RowsOfTable DEF SendBody, RoomLeft, SensorsRoom, LoopRoom
  <2>8. CASE UNCHANGED bodyVars
    BY <2>8 DEF bodyVars, RoomLeft, SensorsRoom, LoopRoom
  <2> QED
    BY <2>1, <2>2, <2>3, <2>4, <2>5, <2>6, <2>7, <2>8 DEF BodyNext
<1> QED
  BY <1>1, <1>2, PTL DEF BodySpec

\* No page of the console is cut, its last row and footer included, and nothing is printed
\* outside the body, unless the last row of a page of /alerts is longer than the reserve
\* of its loop leaves beside the footer.
THEOREM PagesAreWhole == BodySpec => []NothingIsCut
BY RoomIsKept, RoomWithinBody, PTL
=============================================================================
