------------------------- MODULE SensorClientsProofs -------------------------
(***************************************************************************)
(* Programs and handlers together, for every number of connections,        *)
(* sensors and readings, whatever is late, lost or killed.                 *)
(*                                                                         *)
(* Each step of the composition is a step of the handlers or leaves them   *)
(* alone, so HandlerInv of SensorHandlerProofs holds here too (1).  ConnOK *)
(* is what holds of one connection: how many lines and replies may be      *)
(* under way, and that QUIT is the last of the lines (2).  KnowsOK is what *)
(* its program knows: once REGISTER was accepted the server has the sensor *)
(* (3).  ActiveAccounted is about all of them: the run of an ACTIVE sensor *)
(* will still send QUIT, or was lost (4).                                  *)
(***************************************************************************)
EXTENDS SensorClients, SensorHandlerProofs, SequenceTheorems, TLAPS

ProgramLines ==
  [command : {"REGISTER", "QUIT"}, value : {0}] \cup [command : {"METRIC"}, value : Reading]

LinesTyped ==
  /\ client \in [Conns -> Doings] /\ id \in [Conns -> Ids] /\ lost \subseteq Ids
  /\ lines \in [Conns -> Seq(ProgramLines)]
  /\ replies \in [Conns -> Seq(Replies \cup {NoReply})]

IsBye(answer) == answer = "200 BYE"
IsMissing(answer) == answer = "404 SENSOR_NOT_FOUND"

\* The handler has a line of the connection, or its reply.
Serving == {"add", "alert", "level", "send"}

\* Programs that have not sent QUIT.
Reporting == {"register", "loop", "metric"}

UnderWay(q, r, place) == Len(q) + Len(r) + (IF place \in Serving THEN 1 ELSE 0)

\* QUIT was the last line that was sent.
Quits(q) == q # <<>> /\ q[Len(q)].command = "QUIT"

\* A program that does something, with the lines q and the replies r under way, and its
\* handler at a place with an answer to send.
ConnOK(doing, i, q, r, place, answer, gone) ==
  /\ UnderWay(q, r, place) <= 2
  /\ doing \in {"register", "metric"} => UnderWay(q, r, place) <= 1
  /\ doing = "loop" => UnderWay(q, r, place) <= 0
  /\ doing = "off" => r = <<>>
  /\ doing \in Reporting =>
       /\ place # "closed" /\ ~(place = "send" /\ IsBye(answer))
       /\ \A k \in 1 .. Len(q) : q[k].command # "QUIT"
  /\ place = "closed" => q = <<>>
  /\ place = "send" /\ IsBye(answer) => q = <<>>
  /\ \A k \in 1 .. Len(q) : q[k].command = "QUIT" => k = Len(q)
  /\ doing = "quit" /\ q # <<>> => Quits(q)
  /\ doing = "off" /\ q # <<>> /\ ~Quits(q) => i \in gone
  /\ \A k \in 1 .. Len(r) : IsBye(r[k]) => place = "closed"

\* What a program knows of its sensor, where ids are those the server knows.
KnowsOK(doing, i, q, r, place, answer, known) ==
  /\ doing = "register" =>
       /\ place \notin Working
       /\ \A k \in 1 .. Len(q) : q[k].command = "REGISTER"
       /\ place = "send" /\ Positive(answer) => i \in known
       /\ \A k \in 1 .. Len(r) : Positive(r[k]) => i \in known
  /\ doing \in {"loop", "metric"} => i \in known
  /\ \A k \in 1 .. Len(q) : q[k].command = "METRIC" => i \in known
  /\ ~IsMissing(answer)

KnownIds == {i \in Ids : Known(i)}

ConnsOK ==
  \A c \in Conns : ConnOK(client[c], id[c], lines[c], replies[c], pc[c], reply[c], lost)

ConnsKnow ==
  \A c \in Conns : KnowsOK(client[c], id[c], lines[c], replies[c], pc[c], reply[c], KnownIds)

ToQuit(c) == client[c] \in Reporting \/ Quits(lines[c])

ActiveAccounted ==
  \A s \in Slots : Active(s) =>
    \/ sensors[s].id \in lost
    \/ \E c \in Conns : id[c] = sensors[s].id /\ ToQuit(c)

ClientsInv == HandlerInv /\ LinesTyped /\ ConnsOK

-----------------------------------------------------------------------------
(* Sequences of which one element is added or taken. *)

LEMMA EmptySeqs ==
  ASSUME NEW S, NEW q \in Seq(S)
  PROVE  /\ <<>> \in Seq(S) /\ Len(<<>>) <= 0
         /\ Len(q) \in Nat /\ (q = <<>> <=> Len(q) <= 0)
OBVIOUS

LEMMA Appended ==
  ASSUME NEW S, NEW q \in Seq(S), NEW x \in S, NEW a, a = Append(q, x)
  PROVE  /\ a \in Seq(S) /\ Len(q) \in Nat /\ Len(a) = Len(q) + 1 /\ a # <<>>
         /\ \A k \in 1 .. Len(a) : IF k = Len(a) THEN a[k] = x ELSE k \in 1 .. Len(q) /\ a[k] = q[k]
         /\ a[Len(a)] = x
<1>1. a \in Seq(S) /\ Len(q) \in Nat /\ Len(a) = Len(q) + 1
  BY AppendProperties
<1>2. \A k \in 1 .. Len(q) : a[k] = q[k]
  BY AppendProperties
<1>3. a[Len(q) + 1] = x /\ a # <<>>
  BY AppendProperties
<1> QED
  BY <1>1, <1>2, <1>3

LEMMA HeadTaken ==
  ASSUME NEW S, NEW q \in Seq(S), q # <<>>, NEW a, a = Tail(q)
  PROVE  /\ a \in Seq(S) /\ Len(q) \in Nat /\ Len(q) >= 1 /\ Len(a) = Len(q) - 1
         /\ Head(q) = q[1] /\ Head(q) \in S
         /\ \A k \in 1 .. Len(a) : k + 1 \in 1 .. Len(q) /\ a[k] = q[k + 1]
         /\ a = <<>> <=> Len(q) <= 1
<1>1. /\ a \in Seq(S) /\ Len(q) \in Nat /\ Len(q) >= 1 /\ Len(a) = Len(q) - 1
      /\ Head(q) = q[1] /\ Head(q) \in S
  BY HeadTailProperties
<1>2. \A k \in 1 .. Len(a) : a[k] = q[k + 1]
  BY HeadTailProperties
<1>3. a = <<>> <=> Len(a) <= 0
  BY <1>1, EmptySeqs
<1> QED
  BY <1>1, <1>2, <1>3

-----------------------------------------------------------------------------
(* 1. The handlers of the composition. *)

\* A line that is received, a call of state.c, a reply and the end of a connection are
\* steps of the handler; what programs do is not.
LEMMA HandlersStep ==
  ASSUME LinesTyped, [ClientsNext]_sessionVars
  PROVE  [Next]_vars
<1>1. ASSUME NEW c \in Conns, Receive(c) PROVE HandlerNext(c)
  <2>1. lines[c] \in Seq(ProgramLines) /\ lines[c] # <<>> /\ id[c] \in Speaks[c]
    BY <1>1, ClientsAssumption DEF LinesTyped, Receive
  <2>2. Head(lines[c]) \in ProgramLines
    BY <2>1, HeadTaken
  <2> DEFINE line == Head(lines[c])
  <2>3. line.command = "METRIC" => line.value \in Values
    BY <2>2, ClientsAssumption DEF ProgramLines
  <2>4. \/ Register(c, id[c], Type)
        \/ line.command = "METRIC" /\ (MetricFind(c, id[c], line.value) \/ MetricRefused(c, id[c]))
        \/ Quit(c, id[c])
    BY <1>1 DEF Receive, Metric
  <2> HIDE DEF line
  <2> QED
    BY <2>1, <2>3, <2>4, ClientsAssumption DEF HandlerNext, Line
<1>2. ASSUME NEW c \in Conns, Begin(c) \/ Handles(c) PROVE HandlerNext(c)
  BY <1>1, <1>2 DEF Begin, Handles, Works, Replied, Ends, HandlerNext, Serve
<1>3. ASSUME NEW c \in Conns, Program(c) \/ Kill(c) \/ Lose(c) PROVE UNCHANGED vars
  BY <1>3 DEF Program, TakeRegister, SendMetric, TakeMetric, TakeQuit, GiveUp, GiveUpQuit,
     Kill, Lose
<1>4. UNCHANGED sessionVars => UNCHANGED vars
  BY DEF sessionVars
<1> QED
  BY <1>2, <1>3, <1>4 DEF ClientsNext, Next

LEMMA HandlersKeep ==
  ASSUME HandlerInv, LinesTyped, [ClientsNext]_sessionVars
  PROVE  HandlerInv' /\ TableStep /\ KnownIds \subseteq KnownIds'
<1>1. HandlerInv' /\ TableStep
  BY HandlersStep, HandlerInvNext
<1>2. \A i \in Ids : Known(i) => Known(i)'
  BY <1>1 DEF TableStep, SensorsKept, Known, Holds
<1> QED
  BY <1>1, <1>2 DEF KnownIds

-----------------------------------------------------------------------------
(* 2. One connection: what a step of the program or of its handler makes of ConnOK. *)

\* A program that waits takes the one reply there is, and nothing else is under way.
LEMMA ConnTakes ==
  ASSUME NEW doing \in {"register", "metric"}, NEW i, NEW q \in Seq(ProgramLines),
         NEW S, NEW r \in Seq(S), NEW place, NEW answer, NEW gone,
         ConnOK(doing, i, q, r, place, answer, gone), r # <<>>, NEW t, t = Tail(r)
  PROVE  ConnOK("loop", i, q, t, place, answer, gone)
<1>1. /\ Len(r) >= 1 /\ Len(t) = Len(r) - 1 /\ Len(r) \in Nat /\ Len(q) \in Nat
      /\ q = <<>> <=> Len(q) <= 0
      /\ \A k \in 1 .. Len(t) : k + 1 \in 1 .. Len(r) /\ t[k] = r[k + 1]
  BY HeadTaken, EmptySeqs
<1>2. /\ UnderWay(q, t, place) <= 0 /\ UnderWay(q, t, place) <= 2
      /\ q = <<>> /\ Len(q) <= 0 /\ Len(t) <= 0
  BY <1>1 DEF ConnOK, UnderWay
<1> QED
  BY <1>1, <1>2 DEF ConnOK, Reporting

\* Before QUIT at most one line or reply is under way, so QUIT makes it two.
LEMMA ConnQuits ==
  ASSUME NEW doing \in Reporting, NEW i, NEW q \in Seq(ProgramLines),
         NEW S, NEW r \in Seq(S), NEW place, NEW answer, NEW gone,
         ConnOK(doing, i, q, r, place, answer, gone), NEW a, a = Append(q, QuitLine)
  PROVE  ConnOK("quit", i, a, r, place, answer, gone)
<1>1. QuitLine \in ProgramLines /\ QuitLine.command = "QUIT"
  BY DEF QuitLine, ProgramLines
<1>2. /\ Len(q) \in Nat /\ Len(r) \in Nat /\ Len(a) = Len(q) + 1 /\ a # <<>> /\ a[Len(a)] = QuitLine
      /\ \A k \in 1 .. Len(a) : IF k = Len(a) THEN a[k] = QuitLine
                                ELSE k \in 1 .. Len(q) /\ a[k] = q[k]
  BY <1>1, Appended, EmptySeqs
<1>3. UnderWay(q, r, place) <= 1 /\ UnderWay(a, r, place) <= 2
  BY <1>2 DEF ConnOK, UnderWay, Reporting
<1>4. Quits(a)
  BY <1>1, <1>2 DEF Quits
<1>5. \A k \in 1 .. Len(a) : a[k].command = "QUIT" => k = Len(a)
  BY <1>2 DEF ConnOK
<1> QED
  BY <1>3, <1>4, <1>5 DEF ConnOK, Reporting

LEMMA ConnSends ==
  ASSUME NEW i, NEW q \in Seq(ProgramLines), NEW S, NEW r \in Seq(S),
         NEW place, NEW answer, NEW gone, ConnOK("loop", i, q, r, place, answer, gone),
         NEW line \in ProgramLines, line.command = "METRIC", NEW a, a = Append(q, line)
  PROVE  q = <<>> /\ place \notin Serving /\ ConnOK("metric", i, a, r, place, answer, gone)
<1>1. /\ Len(q) \in Nat /\ Len(r) \in Nat /\ Len(a) = Len(q) + 1 /\ a # <<>>
      /\ q = <<>> <=> Len(q) <= 0
      /\ \A k \in 1 .. Len(a) : IF k = Len(a) THEN a[k] = line
                                ELSE k \in 1 .. Len(q) /\ a[k] = q[k]
  BY Appended, EmptySeqs
<1>2. /\ UnderWay(a, r, place) <= 1 /\ UnderWay(a, r, place) <= 2
      /\ Len(q) <= 0 /\ place \notin Serving
  BY <1>1 DEF ConnOK, UnderWay
<1>3. \A k \in 1 .. Len(a) : a[k].command # "QUIT"
  BY <1>1 DEF ConnOK, Reporting
<1> QED
  BY <1>1, <1>2, <1>3 DEF ConnOK, Reporting

\* A program that ends has sent QUIT, or is one of the lost.
LEMMA ConnLeaves ==
  ASSUME NEW doing, NEW i, NEW q \in Seq(ProgramLines), NEW S, NEW r \in Seq(S),
         NEW place, NEW answer, NEW gone, ConnOK(doing, i, q, r, place, answer, gone),
         NEW later, doing = "quit" \/ i \in later
  PROVE  /\ ConnOK("off", i, q, <<>>, place, answer, later)
         /\ ConnOK("off", i, <<>>, <<>>, place, answer, later)
<1>1. Len(q) \in Nat /\ Len(r) \in Nat /\ Len(<<>>) = 0
  BY EmptySeqs
<1>2. /\ UnderWay(q, <<>>, place) <= 2 /\ UnderWay(<<>>, <<>>, place) <= 2
  BY <1>1 DEF ConnOK, UnderWay
<1> QED
  BY <1>1, <1>2 DEF ConnOK, Reporting

\* QUIT is the last line, so nothing is left after 200 BYE.
LEMMA ConnReceives ==
  ASSUME NEW doing, NEW i, NEW q \in Seq(ProgramLines), NEW S, NEW r \in Seq(S),
         NEW answer, NEW gone, ConnOK(doing, i, q, r, "recv", answer, gone),
         q # <<>>, NEW t, t = Tail(q), NEW place \in Serving, NEW said,
         place = "send" /\ IsBye(said) => q[1].command = "QUIT"
  PROVE  ConnOK(doing, i, t, r, place, said, gone)
<1>1. /\ Len(q) >= 1 /\ Len(t) = Len(q) - 1 /\ Len(r) \in Nat /\ Len(q) \in Nat
      /\ 1 \in 1 .. Len(q) /\ (t = <<>> <=> Len(q) <= 1)
      /\ \A k \in 1 .. Len(t) : k + 1 \in 1 .. Len(q) /\ t[k] = q[k + 1]
  BY HeadTaken, EmptySeqs
<1>2. UnderWay(t, r, place) = UnderWay(q, r, "recv")
  BY <1>1 DEF UnderWay, Serving
<1>3. t # <<>> => (Quits(t) <=> Quits(q))
  BY <1>1 DEF Quits
<1>4. /\ \A k \in 1 .. Len(q) : q[k].command = "QUIT" => k = Len(q)
      /\ doing \in Reporting => \A k \in 1 .. Len(q) : q[k].command # "QUIT"
  BY DEF ConnOK
<1>5. place = "send" /\ IsBye(said) => t = <<>> /\ doing \notin Reporting
  BY <1>1, <1>4
<1>6. ASSUME NEW k \in 1 .. Len(t), t[k].command = "QUIT"
      PROVE  k = Len(t) /\ doing \notin Reporting
  <2>1. k + 1 \in 1 .. Len(q) /\ q[k + 1].command = "QUIT"
    BY <1>1, <1>6
  <2>2. k + 1 = Len(q) /\ doing \notin Reporting
    BY <2>1, <1>4
  <2> QED
    BY <2>2, <1>1
<1>7. /\ \A k \in 1 .. Len(t) : t[k].command = "QUIT" => k = Len(t)
      /\ doing \in Reporting => \A k \in 1 .. Len(t) : t[k].command # "QUIT"
  BY <1>6
<1> QED
  BY <1>1, <1>2, <1>3, <1>5, <1>7 DEF ConnOK, Serving

LEMMA ConnWorks ==
  ASSUME NEW doing, NEW i, NEW q, NEW r, NEW place \in Working, NEW answer, NEW gone,
         ConnOK(doing, i, q, r, place, answer, gone),
         NEW next \in Serving, NEW said, next = "send" => ~IsBye(said)
  PROVE  ConnOK(doing, i, q, r, next, said, gone)
<1>1. UnderWay(q, r, next) = UnderWay(q, r, place)
  BY DEF UnderWay, Working, Serving
<1> QED
  BY <1>1 DEF ConnOK, Working, Serving

LEMMA ConnReplies ==
  ASSUME NEW doing, NEW i, NEW q \in Seq(ProgramLines), NEW S, NEW r \in Seq(S),
         NEW answer \in S, NEW gone, ConnOK(doing, i, q, r, "send", answer, gone),
         NEW place, place = IF IsBye(answer) THEN "closed" ELSE "recv", NEW said,
         NEW a, a = IF doing = "off" THEN r ELSE Append(r, answer)
  PROVE  ConnOK(doing, i, q, a, place, said, gone)
<1>1. place \in {"closed", "recv"} /\ (place = "closed" <=> IsBye(answer))
  OBVIOUS
<1>2. CASE doing = "off"
  <2>1. a = r /\ Len(q) \in Nat /\ Len(r) \in Nat
    BY <1>2, EmptySeqs
  <2>2. UnderWay(q, r, place) <= 2
    BY <1>1, <2>1 DEF UnderWay, Serving, ConnOK
  <2> QED
    BY <1>1, <1>2, <2>1, <2>2 DEF ConnOK, Reporting
<1>3. CASE doing # "off"
  <2>1. a = Append(r, answer)
    BY <1>3
  <2>2. /\ Len(q) \in Nat /\ Len(r) \in Nat /\ Len(a) = Len(r) + 1
        /\ \A k \in 1 .. Len(a) : IF k = Len(a) THEN a[k] = answer
                                  ELSE k \in 1 .. Len(r) /\ a[k] = r[k]
    BY <2>1, Appended, EmptySeqs
  <2>3. UnderWay(q, a, place) = UnderWay(q, r, "send")
    BY <1>1, <2>2 DEF UnderWay, Serving
  <2>4. \A k \in 1 .. Len(a) : IsBye(a[k]) => place = "closed"
    BY <1>1, <2>2 DEF ConnOK
  <2> QED
    BY <1>1, <1>3, <2>3, <2>4 DEF ConnOK, Reporting
<1> QED
  BY <1>2, <1>3

LEMMA ConnEnds ==
  ASSUME NEW i, NEW S, NEW r \in Seq(S), NEW answer, NEW gone,
         ConnOK("off", i, <<>>, r, "recv", answer, gone)
  PROVE  ConnOK("off", i, <<>>, r, "closed", answer, gone)
<1>1. UnderWay(<<>>, r, "closed") = UnderWay(<<>>, r, "recv")
  BY DEF UnderWay, Serving
<1> QED
  BY <1>1 DEF ConnOK, Reporting

LEMMA ConnBegins ==
  ASSUME NEW i, NEW q, NEW S, NEW r \in Seq(S), NEW answer, NEW gone, NEW j, NEW later,
         ConnOK("off", i, q, r, "closed", answer, gone)
  PROVE  ConnOK("register", j, <<RegisterLine>>, r, "recv", answer, later)
<1>1. /\ Len(<<RegisterLine>>) = 1 /\ <<RegisterLine>>[1].command = "REGISTER"
      /\ Len(r) = 0 /\ <<RegisterLine>> # <<>>
  BY DEF RegisterLine, ConnOK
<1>2. /\ UnderWay(<<RegisterLine>>, r, "recv") <= 1
      /\ UnderWay(<<RegisterLine>>, r, "recv") <= 2
  BY <1>1 DEF UnderWay, Serving
<1> QED
  BY <1>1, <1>2 DEF ConnOK, Reporting

-----------------------------------------------------------------------------
(* What each action makes of the connection it is about. *)

Becomes(c, doing, i, q, r, place, said) ==
  /\ client' = [client EXCEPT ![c] = doing] /\ id' = [id EXCEPT ![c] = i]
  /\ lines' = [lines EXCEPT ![c] = q] /\ replies' = [replies EXCEPT ![c] = r]
  /\ pc' = [pc EXCEPT ![c] = place] /\ reply' = [reply EXCEPT ![c] = said]

Typed == HandlerTypes /\ LinesTyped

LEMMA Unaltered ==
  ASSUME Typed, NEW c \in Conns
  PROVE  /\ client = [client EXCEPT ![c] = client[c]] /\ id = [id EXCEPT ![c] = id[c]]
         /\ lines = [lines EXCEPT ![c] = lines[c]] /\ replies = [replies EXCEPT ![c] = replies[c]]
         /\ pc = [pc EXCEPT ![c] = pc[c]] /\ reply = [reply EXCEPT ![c] = reply[c]]
BY DEF Typed, HandlerTypes, LinesTyped

\* Nothing of the handler, and of the program only what it does, has sent or has read.
LEMMA ProgramAlone ==
  ASSUME Typed, NEW c \in Conns, UNCHANGED <<vars, id>>, NEW doing, NEW q, NEW r,
         client' = [client EXCEPT ![c] = doing], lines' = [lines EXCEPT ![c] = q],
         replies' = [replies EXCEPT ![c] = r]
  PROVE  Becomes(c, doing, id[c], q, r, pc[c], reply[c])
<1>1. UNCHANGED <<pc, reply, id>>
  BY DEF vars, handlerVars
<1> QED
  BY <1>1, Unaltered DEF Becomes

LEMMA HandlerAlone ==
  ASSUME Typed, NEW c \in Conns, UNCHANGED <<client, id>>, NEW q, NEW r, NEW place, NEW said,
         lines' = [lines EXCEPT ![c] = q], replies' = [replies EXCEPT ![c] = r],
         pc' = [pc EXCEPT ![c] = place], reply' = [reply EXCEPT ![c] = said]
  PROVE  Becomes(c, client[c], id[c], q, r, place, said)
BY Unaltered DEF Becomes

LEMMA BeginBecomes ==
  ASSUME Typed, NEW c \in Conns, Begin(c)
  PROVE  /\ client[c] = "off" /\ pc[c] = "closed"
         /\ \E i \in Ids : /\ lost' = lost \ RunAgain(c, i)
                           /\ Becomes(c, "register", i, <<RegisterLine>>, replies[c], "recv", reply[c])
<1>1. /\ client[c] = "off" /\ pc[c] = "closed" /\ pc' = [pc EXCEPT ![c] = "recv"]
      /\ reply' = reply /\ replies' = replies
      /\ client' = [client EXCEPT ![c] = "register"] /\ lines' = [lines EXCEPT ![c] = <<RegisterLine>>]
  BY DEF Begin, Accept, Goto
<1>2. PICK i \in Ids : id' = [id EXCEPT ![c] = i] /\ lost' = lost \ RunAgain(c, i)
  BY DEF Begin
<1>3. Becomes(c, "register", i, <<RegisterLine>>, replies[c], "recv", reply[c])
  BY <1>1, <1>2, Unaltered DEF Becomes
<1> QED
  BY <1>1, <1>2, <1>3

LEMMA TakeRegisterBecomes ==
  ASSUME Typed, NEW c \in Conns, TakeRegister(c)
  PROVE  /\ client[c] = "register" /\ replies[c] # <<>> /\ UNCHANGED <<vars, id, lost>>
         /\ \/ /\ Positive(Head(replies[c]))
               /\ Becomes(c, "loop", id[c], lines[c], Tail(replies[c]), pc[c], reply[c])
            \/ Becomes(c, "quit", id[c], Append(lines[c], QuitLine), Tail(replies[c]), pc[c], reply[c])
<1>1. /\ client[c] = "register" /\ replies[c] # <<>> /\ UNCHANGED <<vars, id, lost>>
      /\ replies' = [replies EXCEPT ![c] = Tail(replies[c])]
  BY DEF TakeRegister, Takes
<1>2. \/ /\ Positive(Head(replies[c])) /\ lines' = lines
         /\ client' = [client EXCEPT ![c] = "loop"]
      \/ /\ lines' = [lines EXCEPT ![c] = Append(lines[c], QuitLine)]
         /\ client' = [client EXCEPT ![c] = "quit"]
  BY DEF TakeRegister, Sends
<1> QED
  BY <1>1, <1>2, ProgramAlone, Unaltered

LEMMA TakeMetricBecomes ==
  ASSUME Typed, NEW c \in Conns, TakeMetric(c)
  PROVE  /\ client[c] = "metric" /\ replies[c] # <<>> /\ UNCHANGED <<vars, id, lost>>
         /\ \/ Becomes(c, "loop", id[c], lines[c], Tail(replies[c]), pc[c], reply[c])
            \/ Becomes(c, "quit", id[c], Append(lines[c], QuitLine), Tail(replies[c]), pc[c], reply[c])
<1>1. /\ client[c] = "metric" /\ replies[c] # <<>> /\ UNCHANGED <<vars, id, lost>>
      /\ replies' = [replies EXCEPT ![c] = Tail(replies[c])]
  BY DEF TakeMetric, Takes
<1>2. \/ lines' = lines /\ client' = [client EXCEPT ![c] = "loop"]
      \/ /\ lines' = [lines EXCEPT ![c] = Append(lines[c], QuitLine)]
         /\ client' = [client EXCEPT ![c] = "quit"]
  BY DEF TakeMetric, Sends
<1> QED
  BY <1>1, <1>2, ProgramAlone, Unaltered

LEMMA SendMetricBecomes ==
  ASSUME Typed, NEW c \in Conns, SendMetric(c)
  PROVE  /\ client[c] = "loop" /\ UNCHANGED <<vars, id, lost>>
         /\ \E value \in Reading :
              Becomes(c, "metric", id[c], Append(lines[c], MetricLine(value)), replies[c], pc[c], reply[c])
<1>1. client[c] = "loop" /\ UNCHANGED <<vars, replies, id, lost>>
  BY DEF SendMetric
<1>2. PICK value \in Reading : /\ lines' = [lines EXCEPT ![c] = Append(lines[c], MetricLine(value))]
                               /\ client' = [client EXCEPT ![c] = "metric"]
  BY DEF SendMetric, Sends
<1>3. replies' = [replies EXCEPT ![c] = replies[c]]
  BY <1>1, Unaltered
<1>4. Becomes(c, "metric", id[c], Append(lines[c], MetricLine(value)), replies[c], pc[c], reply[c])
  BY <1>1, <1>2, <1>3, ProgramAlone
<1> QED
  BY <1>1, <1>4

LEMMA GiveUpBecomes ==
  ASSUME Typed, NEW c \in Conns, GiveUp(c)
  PROVE  /\ client[c] \in Reporting /\ UNCHANGED <<vars, id, lost>>
         /\ Becomes(c, "quit", id[c], Append(lines[c], QuitLine), replies[c], pc[c], reply[c])
<1>1. /\ client[c] \in Reporting /\ UNCHANGED <<vars, replies, id, lost>>
      /\ lines' = [lines EXCEPT ![c] = Append(lines[c], QuitLine)]
      /\ client' = [client EXCEPT ![c] = "quit"]
  BY DEF GiveUp, Sends, Reporting
<1>2. replies' = [replies EXCEPT ![c] = replies[c]]
  BY <1>1, Unaltered
<1> QED
  BY <1>1, <1>2, ProgramAlone

LEMMA EndBecomes ==
  ASSUME Typed, NEW c \in Conns, TakeQuit(c) \/ GiveUpQuit(c) \/ Kill(c) \/ Lose(c)
  PROVE  /\ UNCHANGED <<vars, id>>
         /\ \/ /\ client[c] = "quit" /\ lost' = lost
               /\ Becomes(c, "off", id[c], lines[c], <<>>, pc[c], reply[c])
            \/ /\ lost' = lost \cup {id[c]}
               /\ \E q \in {lines[c], <<>>} : Becomes(c, "off", id[c], q, <<>>, pc[c], reply[c])
<1>1. /\ UNCHANGED <<vars, id>>
      /\ client' = [client EXCEPT ![c] = "off"] /\ replies' = [replies EXCEPT ![c] = <<>>]
  BY DEF TakeQuit, GiveUpQuit, Kill, Lose, Leaves
<1>2. \/ client[c] = "quit" /\ lost' = lost /\ lines' = lines
      \/ lost' = lost \cup {id[c]} /\ lines' = lines
      \/ lost' = lost \cup {id[c]} /\ lines' = [lines EXCEPT ![c] = <<>>]
  BY DEF TakeQuit, GiveUpQuit, Kill, Lose
<1> QED
  BY <1>1, <1>2, ProgramAlone, Unaltered

\* What handlers answer to the lines of programs.
LEMMA RegisterReplies ==
  ASSUME NEW result \in {0, -1, -2}
  PROVE  /\ ~IsBye(RegisterReply(result)) /\ ~IsMissing(RegisterReply(result))
         /\ Positive(RegisterReply(result)) => result = 0
<1>1. CASE result = 0
  <2>1. RegisterReply(result) = "200 REGISTERED"
    BY <1>1 DEF RegisterReply
  <2> QED
    BY <2>1, <1>1, Zenon DEF IsBye, IsMissing
<1>2. CASE result # 0 /\ result = -2
  <2>1. RegisterReply(result) = "409 SENSOR_ALREADY_EXISTS"
    BY <1>2 DEF RegisterReply
  <2> QED
    BY <2>1, Zenon DEF IsBye, IsMissing, Positive
<1>3. CASE result # 0 /\ result # -2
  <2>1. RegisterReply(result) = "500 INTERNAL_ERROR"
    BY <1>3 DEF RegisterReply
  <2> QED
    BY <2>1, Zenon DEF IsBye, IsMissing, Positive
<1> QED
  BY <1>1, <1>2, <1>3

LEMMA Refusals ==
  ASSUME NEW c \in Conns, Typed, NEW i, MetricRefused(c, i)
  PROVE  \E said : /\ ~IsBye(said) /\ (IsMissing(said) => ~Known(i))
                   /\ pc' = [pc EXCEPT ![c] = "send"] /\ reply' = [reply EXCEPT ![c] = said]
<1>1. PICK said : /\ pc' = [pc EXCEPT ![c] = "send"] /\ reply' = [reply EXCEPT ![c] = said]
                  /\ \/ ~Known(i) /\ said = "404 SENSOR_NOT_FOUND"
                     \/ said \in {"403 SENSOR_NOT_REGISTERED", "422 INVALID_VALUE", "400 BAD_REQUEST"}
  BY Zenon DEF MetricRefused, Answer, Goto
<1>2. ~IsBye(said) /\ (IsMissing(said) => ~Known(i))
  BY <1>1, Zenon DEF IsBye, IsMissing
<1> QED
  BY <1>1, <1>2

LEMMA ReceiveBecomes ==
  ASSUME Typed, NEW c \in Conns, Receive(c)
  PROVE  /\ pc[c] = "recv" /\ lines[c] # <<>> /\ lost' = lost
         /\ \E place \in Serving : \E said :
              /\ Becomes(c, client[c], id[c], Tail(lines[c]), replies[c], place, said)
              /\ place = "send" /\ IsBye(said) => lines[c][1].command = "QUIT"
              /\ lines[c][1].command = "REGISTER" => place = "send"
<1> DEFINE line == lines[c][1]
<1>1. /\ lines[c] # <<>> /\ lost' = lost /\ UNCHANGED <<client, id>>
      /\ lines' = [lines EXCEPT ![c] = Tail(lines[c])]
      /\ replies' = [replies EXCEPT ![c] = replies[c]]
  BY Unaltered DEF Receive
<1>2. Head(lines[c]) = line
  BY <1>1, HeadTaken DEF Typed, LinesTyped
<1>3. ASSUME NEW place \in Serving, NEW said,
             pc' = [pc EXCEPT ![c] = place], reply' = [reply EXCEPT ![c] = said]
      PROVE  Becomes(c, client[c], id[c], Tail(lines[c]), replies[c], place, said)
  BY <1>1, <1>3, HandlerAlone
<1>4. ASSUME line.command = "REGISTER", Register(c, id[c], Type)
      PROVE  \E said : ~IsBye(said) /\ pc' = [pc EXCEPT ![c] = "send"]
                                    /\ reply' = [reply EXCEPT ![c] = said]
  <2>1. PICK result \in {0, -1, -2} : Answer(c, RegisterReply(result))
    BY <1>4 DEF Register
  <2> QED
    BY <2>1, RegisterReplies DEF Answer, Goto
<1>5. ASSUME line.command = "METRIC", Metric(c, line.value)
      PROVE  \E place \in Serving : \E said :
               /\ place = "send" => ~IsBye(said)
               /\ pc' = [pc EXCEPT ![c] = place] /\ reply' = [reply EXCEPT ![c] = said]
  <2>1. CASE MetricFind(c, id[c], line.value)
    <3>1. pc' = [pc EXCEPT ![c] = "add"] /\ reply' = reply
      BY <2>1 DEF MetricFind, Goto
    <3> QED
      BY <3>1, Unaltered DEF Serving
  <2>2. CASE MetricRefused(c, id[c])
    BY <2>2, Refusals DEF Serving
  <2> QED
    BY <1>5, <2>1, <2>2, Zenon DEF Metric
<1>6. ASSUME Quit(c, id[c])
      PROVE  \E said : pc' = [pc EXCEPT ![c] = "send"] /\ reply' = [reply EXCEPT ![c] = said]
  BY <1>6, Zenon DEF Quit, Answer, Goto
<1>7. pc[c] = "recv"
  BY Zenon DEF Receive, Register, Metric, MetricFind, MetricRefused, Quit
<1>8. \/ line.command = "REGISTER" /\ Register(c, id[c], Type)
      \/ line.command = "METRIC" /\ Metric(c, line.value)
      \/ line.command = "QUIT" /\ Quit(c, id[c])
  BY <1>2 DEF Receive
<1> HIDE DEF line
<1>9. \E place \in Serving : \E said :
        /\ pc' = [pc EXCEPT ![c] = place] /\ reply' = [reply EXCEPT ![c] = said]
        /\ place = "send" /\ IsBye(said) => line.command = "QUIT"
        /\ line.command = "REGISTER" => place = "send"
  BY <1>4, <1>5, <1>6, <1>8 DEF Serving
<1> QED
  BY <1>1, <1>3, <1>7, <1>9 DEF line

LEMMA WorksBecomes ==
  ASSUME Typed, NEW c \in Conns, Works(c)
  PROVE  /\ pc[c] \in Working /\ lost' = lost
         /\ \E place \in Serving : \E said :
              /\ Becomes(c, client[c], id[c], lines[c], replies[c], place, said)
              /\ place = "send" => ~IsBye(said)
              /\ IsMissing(said) => IsMissing(reply[c])
<1>1. UNCHANGED <<client, id, lines, replies, lost>>
  BY DEF Works, clientVars
<1>2. ASSUME NEW place \in Serving, NEW said,
             pc' = [pc EXCEPT ![c] = place], reply' = [reply EXCEPT ![c] = said]
      PROVE  Becomes(c, client[c], id[c], lines[c], replies[c], place, said)
  BY <1>1, <1>2, HandlerAlone, Unaltered
<1>3. CASE MetricAdd(c)
  <2>1. pc[c] \in Working /\ \/ pc' = [pc EXCEPT ![c] = "alert"] /\ reply' = reply
                             \/ pc' = [pc EXCEPT ![c] = "level"] /\ reply' = reply
                             \/ Answer(c, "500 INTERNAL_ERROR")
    BY <1>3, Zenon DEF MetricAdd, Goto, Working
  <2>2. CASE Answer(c, "500 INTERNAL_ERROR")
    <3>1. PICK said : /\ ~IsBye(said) /\ ~IsMissing(said)
                      /\ pc' = [pc EXCEPT ![c] = "send"] /\ reply' = [reply EXCEPT ![c] = said]
      BY <2>2, Zenon DEF Answer, Goto, IsBye, IsMissing
    <3> HIDE <2>2
    <3> QED
      BY <3>1, <2>1, <1>1, <1>2 DEF Serving
  <2>3. CASE reply' = reply /\ \E place \in {"alert", "level"} : pc' = [pc EXCEPT ![c] = place]
    BY <2>1, <2>3, <1>1, <1>2, Unaltered DEF Serving
  <2> QED
    BY <2>1, <2>2, <2>3, Zenon
<1>4. CASE RaiseAlert(c)
  <2>1. pc[c] \in Working /\ pc' = [pc EXCEPT ![c] = "level"] /\ reply' = reply
    BY <1>4 DEF RaiseAlert, Goto, Working
  <2> QED
    BY <2>1, <1>1, <1>2, Unaltered DEF Serving
<1>5. CASE SetLevel(c)
  <2>1. pc[c] \in Working
    BY <1>5, Zenon DEF SetLevel, Working
  <2>2. PICK said : /\ ~IsBye(said) /\ ~IsMissing(said)
                    /\ pc' = [pc EXCEPT ![c] = "send"] /\ reply' = [reply EXCEPT ![c] = said]
    BY <1>5, Zenon DEF SetLevel, Answer, Goto, IsBye, IsMissing
  <2> HIDE <1>5
  <2> QED
    BY <2>1, <2>2, <1>1, <1>2 DEF Serving
<1> QED
  BY <1>3, <1>4, <1>5, Zenon DEF Works

LEMMA RepliedBecomes ==
  ASSUME Typed, NEW c \in Conns, Replied(c)
  PROVE  /\ pc[c] = "send" /\ lost' = lost
         /\ Becomes(c, client[c], id[c], lines[c],
                    IF client[c] = "off" THEN replies[c] ELSE Append(replies[c], reply[c]),
                    IF IsBye(reply[c]) THEN "closed" ELSE "recv", NoReply)
<1>1. /\ pc[c] = "send" /\ UNCHANGED <<client, id, lines, lost>>
      /\ reply' = [reply EXCEPT ![c] = NoReply]
  BY Zenon DEF Replied, Respond
<1>2. pc' = [pc EXCEPT ![c] = IF IsBye(reply[c]) THEN "closed" ELSE "recv"]
  BY Zenon DEF Replied, Respond, Goto, IsBye
<1>3. replies' = [replies EXCEPT ![c] = IF client[c] = "off" THEN replies[c]
                                        ELSE Append(replies[c], reply[c])]
  BY Unaltered DEF Replied
<1> QED
  BY <1>1, <1>2, <1>3, HandlerAlone, Unaltered

LEMMA EndsBecomes ==
  ASSUME Typed, NEW c \in Conns, Ends(c)
  PROVE  /\ client[c] = "off" /\ lines[c] = <<>> /\ pc[c] = "recv" /\ lost' = lost
         /\ Becomes(c, client[c], id[c], lines[c], replies[c], "closed", reply[c])
<1>1. /\ client[c] = "off" /\ lines[c] = <<>> /\ pc[c] = "recv"
      /\ UNCHANGED <<client, id, lines, replies, lost, reply>>
      /\ pc' = [pc EXCEPT ![c] = "closed"]
  BY DEF Ends, HangUp, Goto, clientVars
<1> QED
  BY <1>1, HandlerAlone, Unaltered

-----------------------------------------------------------------------------
(* What becomes of one connection is all that happens to any. *)

LEMMA OneBecomes ==
  ASSUME Typed, NEW c \in Conns, NEW doing, NEW i, NEW q, NEW r, NEW place, NEW said,
         Becomes(c, doing, i, q, r, place, said)
  PROVE  \A d \in Conns :
           IF d = c
           THEN /\ client'[d] = doing /\ id'[d] = i /\ lines'[d] = q /\ replies'[d] = r
                /\ pc'[d] = place /\ reply'[d] = said
           ELSE /\ client'[d] = client[d] /\ id'[d] = id[d] /\ lines'[d] = lines[d]
                /\ replies'[d] = replies[d] /\ pc'[d] = pc[d] /\ reply'[d] = reply[d]
BY DEF Typed, HandlerTypes, LinesTyped, Becomes

\* An id ceases to be lost only when no connection has lines of it left.
ForgivenOnlyIf(c) ==
  /\ lost' \subseteq Ids
  /\ \A d \in Conns : d # c /\ lines[d] # <<>> /\ id[d] \in lost => id[d] \in lost'

LEMMA ConnsKept ==
  ASSUME Typed, ConnsOK, NEW c \in Conns, NEW doing \in Doings, NEW i \in Ids,
         NEW q \in Seq(ProgramLines), NEW r \in Seq(Replies \cup {NoReply}), NEW place, NEW said,
         Becomes(c, doing, i, q, r, place, said),
         ConnOK(doing, i, q, r, place, said, lost'), ForgivenOnlyIf(c)
  PROVE  LinesTyped' /\ ConnsOK'
<1>1. LinesTyped'
  BY DEF Typed, LinesTyped, Becomes, ForgivenOnlyIf
<1>2. ConnOK(client'[c], id'[c], lines'[c], replies'[c], pc'[c], reply'[c], lost')
  BY OneBecomes
<1>3. ASSUME NEW d \in Conns, d # c
      PROVE  ConnOK(client'[d], id'[d], lines'[d], replies'[d], pc'[d], reply'[d], lost')
  <2>1. ConnOK(client[d], id[d], lines[d], replies[d], pc[d], reply[d], lost)
    BY DEF ConnsOK
  <2>2. lines[d] # <<>> /\ id[d] \in lost => id[d] \in lost'
    BY <1>3 DEF ForgivenOnlyIf
  <2>3. ConnOK(client[d], id[d], lines[d], replies[d], pc[d], reply[d], lost')
    BY <2>1, <2>2 DEF ConnOK
  <2> QED
    BY <1>3, <2>3, OneBecomes
<1> QED
  BY <1>1, <1>2, <1>3 DEF ConnsOK

LEMMA LostKept ==
  ASSUME Typed, NEW c \in Conns, lost' = lost \/ lost' = lost \cup {id[c]}
  PROVE  ForgivenOnlyIf(c)
BY DEF Typed, LinesTyped, ForgivenOnlyIf

LEMMA ProgramConns ==
  ASSUME Typed, ConnsOK, NEW c \in Conns, Program(c) \/ Kill(c) \/ Lose(c)
  PROVE  LinesTyped' /\ ConnsOK'
<1> DEFINE q == lines[c]
           r == replies[c]
           t == Tail(r)
           a == Append(q, QuitLine)
<1>t. /\ client[c] \in Doings /\ id[c] \in Ids /\ q \in Seq(ProgramLines)
      /\ r \in Seq(Replies \cup {NoReply}) /\ <<>> \in Seq(ProgramLines)
      /\ <<>> \in Seq(Replies \cup {NoReply})
  BY DEF Typed, LinesTyped
<1>c. ConnOK(client[c], id[c], q, r, pc[c], reply[c], lost)
  BY DEF ConnsOK
<1>a. a \in Seq(ProgramLines)
  <2>1. QuitLine \in ProgramLines
    BY DEF QuitLine, ProgramLines
  <2> QED
    BY <2>1, <1>t, Appended
<1> HIDE DEF q, r, t, a
<1>1. CASE TakeRegister(c) \/ TakeMetric(c)
  <2>1. /\ client[c] \in {"register", "metric"} /\ r # <<>> /\ UNCHANGED lost
        /\ \/ Becomes(c, "loop", id[c], q, t, pc[c], reply[c])
           \/ Becomes(c, "quit", id[c], a, t, pc[c], reply[c])
    BY <1>1, TakeRegisterBecomes, TakeMetricBecomes DEF q, r, t, a
  <2>2. t \in Seq(Replies \cup {NoReply})
    BY <1>t, <2>1, HeadTaken DEF t
  <2>3. ConnOK("loop", id[c], q, t, pc[c], reply[c], lost)
    BY <1>t, <1>c, <2>1, ConnTakes DEF t
  <2>4. ConnOK("quit", id[c], a, t, pc[c], reply[c], lost)
    BY <1>t, <2>2, <2>3, ConnQuits DEF a, Reporting
  <2> QED
    BY <1>t, <1>a, <2>1, <2>2, <2>3, <2>4, LostKept, ConnsKept DEF Doings
<1>2. CASE SendMetric(c)
  <2>1. client[c] = "loop" /\ UNCHANGED lost
    BY <1>2, SendMetricBecomes
  <2>2. PICK value \in Reading : Becomes(c, "metric", id[c], Append(q, MetricLine(value)), r, pc[c], reply[c])
    BY <1>2, SendMetricBecomes DEF q, r
  <2>3. MetricLine(value) \in ProgramLines /\ MetricLine(value).command = "METRIC"
    BY DEF MetricLine, ProgramLines
  <2>4. Append(q, MetricLine(value)) \in Seq(ProgramLines)
    BY <1>t, <2>3, Appended
  <2>5. ConnOK("metric", id[c], Append(q, MetricLine(value)), r, pc[c], reply[c], lost)
    BY <1>t, <1>c, <2>1, <2>3, ConnSends
  <2> QED
    BY <1>t, <2>1, <2>2, <2>4, <2>5, LostKept, ConnsKept DEF Doings
<1>3. CASE GiveUp(c)
  <2>1. /\ client[c] \in Reporting /\ UNCHANGED lost
        /\ Becomes(c, "quit", id[c], a, r, pc[c], reply[c])
    BY <1>3, GiveUpBecomes DEF q, r, a
  <2>2. ConnOK("quit", id[c], a, r, pc[c], reply[c], lost)
    BY <1>t, <1>c, <2>1, ConnQuits DEF a
  <2> QED
    BY <1>t, <1>a, <2>1, <2>2, LostKept, ConnsKept DEF Doings
<1>4. CASE TakeQuit(c) \/ GiveUpQuit(c) \/ Kill(c) \/ Lose(c)
  <2>1. /\ client[c] = "quit" \/ id[c] \in lost'
        /\ lost' = lost \/ lost' = lost \cup {id[c]}
        /\ \/ Becomes(c, "off", id[c], q, <<>>, pc[c], reply[c])
           \/ Becomes(c, "off", id[c], <<>>, <<>>, pc[c], reply[c])
    BY <1>4, EndBecomes DEF q
  <2>2. /\ ConnOK("off", id[c], q, <<>>, pc[c], reply[c], lost')
        /\ ConnOK("off", id[c], <<>>, <<>>, pc[c], reply[c], lost')
    BY <1>t, <1>c, <2>1, ConnLeaves
  <2> QED
    BY <1>t, <2>1, <2>2, LostKept, ConnsKept DEF Doings
<1> QED
  BY <1>1, <1>2, <1>3, <1>4 DEF Program

LEMMA HandlerConns ==
  ASSUME Typed, ConnsOK, NEW c \in Conns, Handles(c)
  PROVE  LinesTyped' /\ ConnsOK'
<1> DEFINE q == lines[c]
           r == replies[c]
           t == Tail(q)
           a == IF client[c] = "off" THEN r ELSE Append(r, reply[c])
           next == IF IsBye(reply[c]) THEN "closed" ELSE "recv"
<1>t. /\ client[c] \in Doings /\ id[c] \in Ids /\ q \in Seq(ProgramLines)
      /\ r \in Seq(Replies \cup {NoReply}) /\ reply[c] \in Replies \cup {NoReply}
  BY DEF Typed, LinesTyped, HandlerTypes
<1>c. ConnOK(client[c], id[c], q, r, pc[c], reply[c], lost)
  BY DEF ConnsOK
<1> HIDE DEF q, r, t, a, next
<1>1. CASE Receive(c)
  <2>1. pc[c] = "recv" /\ q # <<>> /\ lost' = lost
    BY <1>1, ReceiveBecomes DEF q
  <2>2. PICK place \in Serving : \E said :
          /\ Becomes(c, client[c], id[c], t, r, place, said)
          /\ place = "send" /\ IsBye(said) => q[1].command = "QUIT"
    BY <1>1, ReceiveBecomes DEF q, r, t
  <2>3. PICK said : /\ Becomes(c, client[c], id[c], t, r, place, said)
                    /\ place = "send" /\ IsBye(said) => q[1].command = "QUIT"
    BY <2>2
  <2>4. t \in Seq(ProgramLines)
    BY <1>t, <2>1, HeadTaken DEF t
  <2>5. ConnOK(client[c], id[c], t, r, place, said, lost)
    BY <1>t, <1>c, <2>1, <2>3, ConnReceives DEF t
  <2> QED
    BY <1>t, <2>1, <2>3, <2>4, <2>5, LostKept, ConnsKept
<1>2. CASE Works(c)
  <2>1. pc[c] \in Working /\ lost' = lost
    BY <1>2, WorksBecomes
  <2>2. PICK place \in Serving : \E said :
          /\ Becomes(c, client[c], id[c], q, r, place, said)
          /\ place = "send" => ~IsBye(said)
    BY <1>2, WorksBecomes DEF q, r
  <2>3. PICK said : /\ Becomes(c, client[c], id[c], q, r, place, said)
                    /\ place = "send" => ~IsBye(said)
    BY <2>2
  <2>4. ConnOK(client[c], id[c], q, r, place, said, lost)
    BY <1>c, <2>1, <2>3, ConnWorks
  <2> QED
    BY <1>t, <2>1, <2>3, <2>4, LostKept, ConnsKept
<1>3. CASE Replied(c)
  <2>1. /\ pc[c] = "send" /\ lost' = lost
        /\ Becomes(c, client[c], id[c], q, a, next, NoReply)
    BY <1>3, RepliedBecomes DEF q, r, a, next
  <2>2. a \in Seq(Replies \cup {NoReply})
    BY <1>t, Appended DEF a
  <2>3. ConnOK(client[c], id[c], q, a, next, NoReply, lost)
    BY <1>t, <1>c, <2>1, ConnReplies DEF a, next
  <2> QED
    BY <1>t, <2>1, <2>2, <2>3, LostKept, ConnsKept
<1>4. CASE Ends(c)
  <2>1. /\ client[c] = "off" /\ q = <<>> /\ pc[c] = "recv" /\ lost' = lost
        /\ Becomes(c, client[c], id[c], q, r, "closed", reply[c])
    BY <1>4, EndsBecomes DEF q, r
  <2>2. ConnOK(client[c], id[c], q, r, "closed", reply[c], lost)
    BY <1>t, <1>c, <2>1, ConnEnds
  <2> QED
    BY <1>t, <2>1, <2>2, LostKept, ConnsKept
<1> QED
  BY <1>1, <1>2, <1>3, <1>4 DEF Handles

LEMMA BeginConns ==
  ASSUME Typed, ConnsOK, NEW c \in Conns, Begin(c)
  PROVE  LinesTyped' /\ ConnsOK'
<1>t. /\ client[c] = "off" /\ pc[c] = "closed" /\ replies[c] \in Seq(Replies \cup {NoReply})
  BY BeginBecomes DEF Typed, LinesTyped
<1>1. PICK i \in Ids :
        /\ lost' = lost \ RunAgain(c, i)
        /\ Becomes(c, "register", i, <<RegisterLine>>, replies[c], "recv", reply[c])
  BY BeginBecomes
<1>2. ConnOK("register", i, <<RegisterLine>>, replies[c], "recv", reply[c], lost')
  BY <1>t, ConnBegins DEF ConnsOK
<1>3. <<RegisterLine>> \in Seq(ProgramLines)
  BY DEF RegisterLine, ProgramLines
<1>4. ASSUME NEW d \in Conns, d # c, lines[d] # <<>>, id[d] \in lost
      PROVE  id[d] \in lost'
  <2>1. pc[d] # "closed"
    BY <1>4 DEF ConnsOK, ConnOK
  <2>2. id[d] \notin RunAgain(c, i)
    BY <1>4, <2>1 DEF RunAgain
  <2> QED
    BY <1>1, <1>4, <2>2
<1>5. ForgivenOnlyIf(c)
  BY <1>1, <1>4 DEF ForgivenOnlyIf, Typed, LinesTyped
<1> QED
  BY <1>t, <1>1, <1>2, <1>3, <1>5, ConnsKept DEF Doings

-----------------------------------------------------------------------------
LEMMA ClientsInitially == ClientsInit => ClientsInv
<1> SUFFICES ASSUME ClientsInit PROVE ClientsInv
  OBVIOUS
<1>1. HandlerInv /\ pc = [c \in Conns |-> "closed"]
  BY HandlerInitially DEF ClientsInit, Init
<1>2. (CHOOSE i \in Ids : TRUE) \in Ids
  BY ClientsAssumption
<1>3. /\ client = [c \in Conns |-> "off"] /\ lines = [c \in Conns |-> <<>>]
      /\ replies = [c \in Conns |-> <<>>] /\ id = [c \in Conns |-> CHOOSE i \in Ids : TRUE]
      /\ lost = {}
  BY DEF ClientsInit
<1>4. LinesTyped
  BY <1>2, <1>3 DEF LinesTyped, Doings
<1>5. \A c \in Conns : /\ client[c] = "off" /\ lines[c] = <<>> /\ replies[c] = <<>>
                       /\ pc[c] = "closed"
  BY <1>1, <1>3
<1>6. Len(<<>>) = 0 /\ UnderWay(<<>>, <<>>, "closed") <= 2
  BY DEF UnderWay, Serving
<1>7. ConnsOK
  BY <1>5, <1>6 DEF ConnsOK, ConnOK, Reporting
<1> QED
  BY <1>1, <1>4, <1>7 DEF ClientsInv

LEMMA ClientsInvNext == ClientsInv /\ [ClientsNext]_sessionVars => ClientsInv'
<1> SUFFICES ASSUME ClientsInv, [ClientsNext]_sessionVars PROVE ClientsInv'
  OBVIOUS
<1>1. Typed /\ ConnsOK
  BY DEF ClientsInv, HandlerInv, Typed
<1>2. HandlerInv'
  BY HandlersKeep DEF ClientsInv
<1>3. ASSUME NEW c \in Conns, Begin(c) \/ Program(c) \/ Kill(c) \/ Lose(c) \/ Handles(c)
      PROVE  LinesTyped' /\ ConnsOK'
  BY <1>1, <1>3, BeginConns, ProgramConns, HandlerConns
<1>4. ASSUME UNCHANGED sessionVars PROVE LinesTyped' /\ ConnsOK'
  BY <1>1, <1>4 DEF sessionVars, clientVars, vars, handlerVars, Typed, LinesTyped, ConnsOK
<1>5. LinesTyped' /\ ConnsOK'
  BY <1>3, <1>4 DEF ClientsNext
<1> QED
  BY <1>2, <1>5 DEF ClientsInv

THEOREM ClientsInvariant == ClientsSpec => []ClientsInv
BY ClientsInitially, ClientsInvNext, PTL DEF ClientsSpec

\* At most two lines and two replies are under way on a connection, and none is left when
\* its handler is done.
THEOREM ClientsTyped == ClientsSpec => []ClientsTypeOK
<1>1. ASSUME ClientsInv PROVE ClientsTypeOK
  <2>1. TypeOK
    BY <1>1 DEF ClientsInv, HandlerInv, TableInv, HandlerTypes, TypeOK
  <2>2. ASSUME NEW c \in Conns
        PROVE  /\ Len(lines[c]) <= 2 /\ Len(replies[c]) <= 2
               /\ pc[c] = "closed" => lines[c] = <<>>
               /\ client[c] = "off" => replies[c] = <<>>
    <3>1. ConnOK(client[c], id[c], lines[c], replies[c], pc[c], reply[c], lost)
      BY <1>1 DEF ClientsInv, ConnsOK
    <3>2. Len(lines[c]) \in Nat /\ Len(replies[c]) \in Nat
      BY <1>1, EmptySeqs DEF ClientsInv, LinesTyped
    <3>3. Len(lines[c]) + Len(replies[c]) + (IF pc[c] \in Serving THEN 1 ELSE 0) <= 2
      BY <3>1 DEF ConnOK, UnderWay
    <3>4. Len(lines[c]) <= 2 /\ Len(replies[c]) <= 2
      <4> DEFINE n == Len(lines[c])
                 m == Len(replies[c])
      <4> HIDE DEF n, m
      <4>1. n \in Nat /\ m \in Nat /\ n + m + (IF pc[c] \in Serving THEN 1 ELSE 0) <= 2
        BY <3>2, <3>3 DEF n, m
      <4>2. n <= 2 /\ m <= 2
        BY <4>1
      <4> QED
        BY <4>2 DEF n, m
    <3> QED
      BY <3>1, <3>4 DEF ConnOK
  <2> QED
    BY <1>1, <2>1, <2>2 DEF ClientsTypeOK, ClientsInv, LinesTyped
<1> QED
  BY <1>1, ClientsInvariant, PTL

-----------------------------------------------------------------------------
(* 3. What programs know of their sensors, where ids are stored whole. *)

LEMMA KnowsKept ==
  ASSUME Typed, ConnsKnow, NEW c \in Conns, KnownIds \subseteq KnownIds',
         NEW doing, NEW i, NEW q, NEW r, NEW place, NEW said,
         Becomes(c, doing, i, q, r, place, said), KnowsOK(doing, i, q, r, place, said, KnownIds')
  PROVE  ConnsKnow'
<1>1. KnowsOK(client'[c], id'[c], lines'[c], replies'[c], pc'[c], reply'[c], KnownIds')
  BY OneBecomes
<1>2. ASSUME NEW d \in Conns, d # c
      PROVE  KnowsOK(client'[d], id'[d], lines'[d], replies'[d], pc'[d], reply'[d], KnownIds')
  <2>1. KnowsOK(client[d], id[d], lines[d], replies[d], pc[d], reply[d], KnownIds)
    BY DEF ConnsKnow
  <2>2. KnowsOK(client[d], id[d], lines[d], replies[d], pc[d], reply[d], KnownIds')
    BY <2>1 DEF KnowsOK
  <2> QED
    BY <1>2, <2>2, OneBecomes
<1> QED
  BY <1>1, <1>2 DEF ConnsKnow

\* A program that reads a positive answer to REGISTER knows its sensor.
LEMMA KnowsTakes ==
  ASSUME NEW doing \in {"register", "metric"}, NEW i, NEW q, NEW S, NEW r \in Seq(S), r # <<>>,
         NEW place, NEW answer, NEW known, NEW t,
         KnowsOK(doing, i, q, r, place, answer, known), doing = "register" => Positive(Head(r))
  PROVE  KnowsOK("loop", i, q, t, place, answer, known)
<1>1. 1 \in 1 .. Len(r) /\ Head(r) = r[1]
  BY HeadTaken
<1>2. i \in known
  <2>1. CASE doing = "register"
    <3>1. Positive(r[1])
      BY <1>1, <2>1
    <3> QED
      BY <1>1, <2>1, <3>1 DEF KnowsOK
  <2>2. CASE doing = "metric"
    BY <2>2 DEF KnowsOK
  <2> QED
    BY <2>1, <2>2
<1> QED
  BY <1>2 DEF KnowsOK

LEMMA KnowsQuits ==
  ASSUME NEW doing, NEW i, NEW q \in Seq(ProgramLines), NEW r, NEW place, NEW answer,
         NEW known, NEW t, KnowsOK(doing, i, q, r, place, answer, known)
  PROVE  KnowsOK("quit", i, Append(q, QuitLine), t, place, answer, known)
<1> DEFINE a == Append(q, QuitLine)
<1>1. QuitLine \in ProgramLines /\ QuitLine.command = "QUIT"
  BY DEF QuitLine, ProgramLines
<1>2. \A k \in 1 .. Len(a) : IF k = Len(a) THEN a[k] = QuitLine
                             ELSE k \in 1 .. Len(q) /\ a[k] = q[k]
  BY <1>1, Appended
<1> HIDE DEF a
<1>3. \A k \in 1 .. Len(a) : a[k].command = "METRIC" => i \in known
  BY <1>1, <1>2 DEF KnowsOK
<1>4. KnowsOK("quit", i, a, t, place, answer, known)
  BY <1>3 DEF KnowsOK
<1> QED
  BY <1>4 DEF a

LEMMA ProgramKnows ==
  ASSUME Typed, ConnsKnow, NEW c \in Conns, Program(c) \/ Kill(c) \/ Lose(c)
  PROVE  ConnsKnow'
<1> DEFINE q == lines[c]
           r == replies[c]
           t == Tail(r)
           a == Append(q, QuitLine)
<1>t. q \in Seq(ProgramLines) /\ r \in Seq(Replies \cup {NoReply})
  BY DEF Typed, LinesTyped
<1>k. KnowsOK(client[c], id[c], q, r, pc[c], reply[c], KnownIds)
  BY DEF ConnsKnow
<1>s. UNCHANGED vars => KnownIds' = KnownIds
  BY DEF vars, stateVars, KnownIds, Known, Holds
<1> HIDE DEF q, r, t, a
<1>1. CASE TakeRegister(c) \/ TakeMetric(c)
  <2>1. /\ client[c] \in {"register", "metric"} /\ r # <<>> /\ UNCHANGED vars
        /\ \/ /\ client[c] = "register" => Positive(Head(r))
              /\ Becomes(c, "loop", id[c], q, t, pc[c], reply[c])
           \/ Becomes(c, "quit", id[c], a, t, pc[c], reply[c])
    BY <1>1, TakeRegisterBecomes, TakeMetricBecomes DEF q, r, t, a
  <2>2. (client[c] = "register" => Positive(Head(r))) =>
          KnowsOK("loop", id[c], q, t, pc[c], reply[c], KnownIds)
    BY <1>t, <1>k, <2>1, KnowsTakes
  <2>3. KnowsOK("quit", id[c], a, t, pc[c], reply[c], KnownIds)
    BY <1>t, <1>k, KnowsQuits DEF a
  <2> QED
    BY <1>s, <2>1, <2>2, <2>3, KnowsKept
<1>2. CASE SendMetric(c)
  <2>1. client[c] = "loop" /\ UNCHANGED vars
    BY <1>2, SendMetricBecomes
  <2>2. PICK value \in Reading : Becomes(c, "metric", id[c], Append(q, MetricLine(value)), r, pc[c], reply[c])
    BY <1>2, SendMetricBecomes DEF q, r
  <2>3. KnowsOK("metric", id[c], Append(q, MetricLine(value)), r, pc[c], reply[c], KnownIds)
    BY <1>k, <2>1 DEF KnowsOK
  <2> QED
    BY <1>s, <2>1, <2>2, <2>3, KnowsKept
<1>3. CASE GiveUp(c)
  <2>1. UNCHANGED vars /\ Becomes(c, "quit", id[c], a, r, pc[c], reply[c])
    BY <1>3, GiveUpBecomes DEF q, r, a
  <2>2. KnowsOK("quit", id[c], a, r, pc[c], reply[c], KnownIds)
    BY <1>t, <1>k, KnowsQuits DEF a
  <2> QED
    BY <1>s, <2>1, <2>2, KnowsKept
<1>4. CASE TakeQuit(c) \/ GiveUpQuit(c) \/ Kill(c) \/ Lose(c)
  <2>1. /\ UNCHANGED vars
        /\ \/ Becomes(c, "off", id[c], q, <<>>, pc[c], reply[c])
           \/ Becomes(c, "off", id[c], <<>>, <<>>, pc[c], reply[c])
    BY <1>4, EndBecomes DEF q
  <2>2. KnowsOK("off", id[c], q, <<>>, pc[c], reply[c], KnownIds)
    BY <1>k DEF KnowsOK
  <2>3. KnowsOK("off", id[c], <<>>, <<>>, pc[c], reply[c], KnownIds)
    <3>1. Len(<<>>) = 0
      OBVIOUS
    <3> QED
      BY <1>k, <3>1 DEF KnowsOK
  <2> QED
    BY <1>s, <2>1, <2>2, <2>3, KnowsKept
<1> QED
  BY <1>1, <1>2, <1>3, <1>4 DEF Program

\* A sensor that was registered is in the table under the id of the line.
LEMMA RegisteredIsThere ==
  ASSUME IdsFit, HandlerInv, NEW i \in Ids, NEW result, RegisterSensor(i, Type, result), result = 0
  PROVE  Known(i)'
<1>1. \E s \in Slots : sensors'[s].active = 1 /\ sensors'[s].id = i
  <2>0. sensors \in [Slots -> Sensor \cup {FreeSlot}]
    BY DEF HandlerInv, TableInv, StateTypeOK
  <2>1. CASE Reactivate(i)
    <3>1. PICK s \in Slots : FoundAt(s, i) /\ sensors' = [sensors EXCEPT ![s].status = "ACTIVE"]
      BY <2>1 DEF Reactivate
    <3>2. sensors'[s].active = sensors[s].active /\ sensors'[s].id = sensors[s].id
      BY <2>0, <3>1 DEF Sensor, FreeSlot, FoundAt, Holds
    <3> QED
      BY <3>1, <3>2 DEF FoundAt, Holds
  <2>2. CASE AddSensor(i, Type)
    <3>1. PICK s \in Slots : sensors' = [sensors EXCEPT ![s] = NewSensor(i, Type)]
      BY <2>2 DEF AddSensor
    <3>2. sensors'[s] = NewSensor(i, Type)
      BY <2>0, <3>1
    <3> QED
      BY <3>2 DEF NewSensor, IdsFit
  <2> QED
    BY <2>1, <2>2 DEF RegisterSensor
<1> QED
  BY <1>1 DEF Known, Holds

LEMMA ReceiveAnswers ==
  ASSUME IdsFit, HandlerInv, LinesTyped, ConnsKnow, NEW c \in Conns, Receive(c)
  PROVE  /\ ~IsMissing(reply'[c])
         /\ lines[c][1].command = "REGISTER" /\ Positive(reply'[c]) => id[c] \in KnownIds'
<1> DEFINE line == lines[c][1]
<1>t. lines[c] \in Seq(ProgramLines) /\ lines[c] # <<>> /\ id[c] \in Ids /\ Typed
  BY DEF LinesTyped, Receive, HandlerInv, Typed
<1>h. Head(lines[c]) = line /\ 1 \in 1 .. Len(lines[c])
  BY <1>t, HeadTaken
<1>k. KnowsOK(client[c], id[c], lines[c], replies[c], pc[c], reply[c], KnownIds)
  BY DEF ConnsKnow
<1>m. line.command = "METRIC" => Known(id[c])
  BY <1>h, <1>k DEF KnowsOK, KnownIds
<1>r. \A said : reply' = [reply EXCEPT ![c] = said] => reply'[c] = said
  BY DEF HandlerInv, HandlerTypes
<1>a. \/ line.command = "REGISTER" /\ Register(c, id[c], Type)
      \/ line.command = "METRIC" /\ Metric(c, line.value)
      \/ line.command = "QUIT" /\ Quit(c, id[c])
  BY <1>h DEF Receive
<1> HIDE DEF line
<1>1. CASE Register(c, id[c], Type)
  <2>1. PICK result \in {0, -1, -2} :
          RegisterSensor(id[c], Type, result) /\ Answer(c, RegisterReply(result))
    BY <1>1 DEF Register
  <2>2. reply'[c] = RegisterReply(result)
    BY <2>1, <1>r DEF Answer
  <2>3. ~IsMissing(reply'[c]) /\ (Positive(reply'[c]) => result = 0)
    BY <2>2, RegisterReplies
  <2> QED
    BY <1>t, <2>1, <2>3, RegisteredIsThere DEF KnownIds
<1>2. CASE line.command = "METRIC" /\ Metric(c, line.value)
  <2>1. CASE MetricFind(c, id[c], line.value)
    <3>1. reply' = reply
      BY <2>1 DEF MetricFind
    <3> QED
      BY <3>1, <1>2, <1>k DEF KnowsOK, line
  <2>2. CASE MetricRefused(c, id[c])
    <3>1. PICK said : /\ IsMissing(said) => ~Known(id[c])
                      /\ reply' = [reply EXCEPT ![c] = said]
      BY <1>t, <2>2, Refusals
    <3>2. reply'[c] = said
      BY <1>r, <3>1
    <3>3. ~IsMissing(reply'[c])
      BY <1>2, <1>m, <3>1, <3>2
    <3> QED
      BY <3>3, <1>2 DEF line
  <2>3. MetricFind(c, id[c], line.value) \/ MetricRefused(c, id[c])
    BY <1>2, Zenon DEF Metric
  <2> QED
    BY <2>1, <2>2, <2>3
<1>3. CASE line.command = "QUIT" /\ Quit(c, id[c])
  <2>1. PICK said : reply' = [reply EXCEPT ![c] = said] /\ said = "200 BYE"
    BY <1>3, Zenon DEF Quit, Answer
  <2>2. reply' = [reply EXCEPT ![c] = said] /\ ~IsMissing(said)
    BY <2>1, Zenon DEF IsMissing
  <2> QED
    BY <1>3, <1>r, <2>2 DEF line
<1> QED
  BY <1>1, <1>2, <1>3, <1>a

LEMMA HandlerKnows ==
  ASSUME IdsFit, HandlerInv, LinesTyped, ConnsKnow, NEW c \in Conns, Handles(c),
         KnownIds \subseteq KnownIds'
  PROVE  ConnsKnow'
<1> DEFINE q == lines[c]
           r == replies[c]
           t == Tail(q)
           a == IF client[c] = "off" THEN r ELSE Append(r, reply[c])
           next == IF IsBye(reply[c]) THEN "closed" ELSE "recv"
<1>t. /\ Typed /\ q \in Seq(ProgramLines) /\ r \in Seq(Replies \cup {NoReply})
      /\ reply[c] \in Replies \cup {NoReply}
  BY DEF LinesTyped, HandlerInv, Typed, HandlerTypes
<1>k. KnowsOK(client[c], id[c], q, r, pc[c], reply[c], KnownIds)
  BY DEF ConnsKnow
<1> HIDE DEF q, r, t, a, next
<1>1. CASE Receive(c)
  <2>1. q # <<>>
    BY <1>1, <1>t, ReceiveBecomes DEF q
  <2>2. PICK place \in Serving : \E said :
          /\ Becomes(c, client[c], id[c], t, r, place, said)
          /\ q[1].command = "REGISTER" => place = "send"
    BY <1>1, <1>t, ReceiveBecomes DEF q, r, t
  <2>3. PICK said : /\ Becomes(c, client[c], id[c], t, r, place, said)
                    /\ q[1].command = "REGISTER" => place = "send"
    BY <2>2
  <2>4. reply'[c] = said
    BY <1>t, <2>3, OneBecomes
  <2>5. /\ ~IsMissing(said)
        /\ q[1].command = "REGISTER" /\ Positive(said) => id[c] \in KnownIds'
    BY <1>1, <2>4, ReceiveAnswers DEF q
  <2>6. /\ 1 \in 1 .. Len(q)
        /\ \A k \in 1 .. Len(t) : k + 1 \in 1 .. Len(q) /\ t[k] = q[k + 1]
    BY <1>t, <2>1, HeadTaken DEF t
  <2>7. CASE client[c] = "register"
    <3>1. \A k \in 1 .. Len(q) : q[k].command = "REGISTER"
      BY <1>k, <2>7 DEF KnowsOK
    <3>2. \A k \in 1 .. Len(t) : t[k].command = "REGISTER"
      BY <2>6, <3>1
    <3>3. place \notin Working /\ (Positive(said) => id[c] \in KnownIds')
      BY <2>3, <2>5, <2>6, <3>1 DEF Working
    <3>4. \A k \in 1 .. Len(r) : Positive(r[k]) => id[c] \in KnownIds'
      BY <1>k, <2>7 DEF KnowsOK
    <3>5. KnowsOK(client[c], id[c], t, r, place, said, KnownIds')
      BY <2>5, <2>7, <3>2, <3>3, <3>4 DEF KnowsOK
    <3> QED
      BY <1>t, <2>3, <3>5, KnowsKept
  <2>8. CASE client[c] # "register"
    <3>1. \A k \in 1 .. Len(t) : t[k].command = "METRIC" => id[c] \in KnownIds'
      BY <1>k, <2>6 DEF KnowsOK
    <3>2. KnowsOK(client[c], id[c], t, r, place, said, KnownIds')
      BY <1>k, <2>5, <2>8, <3>1 DEF KnowsOK
    <3> QED
      BY <1>t, <2>3, <3>2, KnowsKept
  <2> QED
    BY <2>7, <2>8
<1>2. CASE Works(c)
  <2>1. pc[c] \in Working
    BY <1>2, <1>t, WorksBecomes
  <2>2. PICK place \in Serving : \E said :
          /\ Becomes(c, client[c], id[c], q, r, place, said)
          /\ IsMissing(said) => IsMissing(reply[c])
    BY <1>2, <1>t, WorksBecomes DEF q, r
  <2>3. PICK said : /\ Becomes(c, client[c], id[c], q, r, place, said)
                    /\ IsMissing(said) => IsMissing(reply[c])
    BY <2>2
  <2>4. KnowsOK(client[c], id[c], q, r, place, said, KnownIds')
    BY <1>k, <2>1, <2>3 DEF KnowsOK
  <2> QED
    BY <1>t, <2>3, <2>4, KnowsKept
<1>3. CASE Replied(c)
  <2>1. pc[c] = "send" /\ Becomes(c, client[c], id[c], q, a, next, NoReply)
    BY <1>3, <1>t, RepliedBecomes DEF q, r, a, next
  <2>2. next \notin Working /\ next # "send"
    BY DEF next, Working
  <2>3. client[c] = "register" => \A k \in 1 .. Len(a) : Positive(a[k]) => id[c] \in KnownIds'
    <3> SUFFICES ASSUME client[c] = "register", NEW k \in 1 .. Len(a), Positive(a[k])
                 PROVE  id[c] \in KnownIds'
      OBVIOUS
    <3>1. a = Append(r, reply[c])
      BY DEF a
    <3>2. a[k] = reply[c] \/ (k \in 1 .. Len(r) /\ a[k] = r[k])
      BY <1>t, <3>1, Appended
    <3> QED
      BY <1>k, <2>1, <3>2 DEF KnowsOK
  <2>4. ~IsMissing(NoReply)
    BY Zenon DEF IsMissing, NoReply
  <2>5. KnowsOK(client[c], id[c], q, a, next, NoReply, KnownIds')
    BY <1>k, <2>2, <2>3, <2>4 DEF KnowsOK
  <2> QED
    BY <1>t, <2>1, <2>5, KnowsKept
<1>4. CASE Ends(c)
  <2>1. client[c] = "off" /\ Becomes(c, client[c], id[c], q, r, "closed", reply[c])
    BY <1>4, <1>t, EndsBecomes DEF q, r
  <2>2. KnowsOK(client[c], id[c], q, r, "closed", reply[c], KnownIds')
    BY <1>k, <2>1 DEF KnowsOK
  <2> QED
    BY <1>t, <2>1, <2>2, KnowsKept
<1> QED
  BY <1>1, <1>2, <1>3, <1>4 DEF Handles

LEMMA BeginKnows ==
  ASSUME Typed, ConnsOK, ConnsKnow, NEW c \in Conns, Begin(c), KnownIds \subseteq KnownIds'
  PROVE  ConnsKnow'
<1>1. PICK i \in Ids : Becomes(c, "register", i, <<RegisterLine>>, replies[c], "recv", reply[c])
  BY BeginBecomes
<1>2. replies[c] = <<>>
  BY BeginBecomes DEF ConnsOK, ConnOK
<1>3. Len(<<>>) = 0 /\ Len(<<RegisterLine>>) = 1 /\ <<RegisterLine>>[1].command = "REGISTER"
  BY DEF RegisterLine
<1>4. KnowsOK("register", i, <<RegisterLine>>, <<>>, "recv", reply[c], KnownIds')
  BY <1>3 DEF KnowsOK, Working, ConnsKnow
<1> QED
  BY <1>1, <1>2, <1>4, KnowsKept

LEMMA KnowsNext ==
  IdsFit /\ ClientsInv /\ ConnsKnow /\ [ClientsNext]_sessionVars => ConnsKnow'
<1> SUFFICES ASSUME IdsFit, ClientsInv, ConnsKnow, [ClientsNext]_sessionVars PROVE ConnsKnow'
  OBVIOUS
<1>1. HandlerInv /\ LinesTyped /\ Typed /\ ConnsOK
  BY DEF ClientsInv, HandlerInv, Typed
<1>2. KnownIds \subseteq KnownIds'
  BY <1>1, HandlersKeep
<1>3. ASSUME NEW c \in Conns, Begin(c) \/ Program(c) \/ Kill(c) \/ Lose(c) \/ Handles(c)
      PROVE  ConnsKnow'
  BY <1>1, <1>2, <1>3, BeginKnows, ProgramKnows, HandlerKnows
<1>4. ASSUME UNCHANGED sessionVars PROVE ConnsKnow'
  <2>1. UNCHANGED <<client, id, lines, replies, pc, reply, sensors>>
    BY <1>4 DEF sessionVars, clientVars, vars, handlerVars, stateVars
  <2>2. KnownIds' = KnownIds
    BY <2>1 DEF KnownIds, Known, Holds
  <2> QED
    BY <2>1, <2>2 DEF ConnsKnow
<1> QED
  BY <1>3, <1>4 DEF ClientsNext

\* Where ids are stored whole, no program reports for a sensor the server does not know,
\* whatever was late, lost, repeated or refused.
THEOREM NotFoundNever ==
  ASSUME IdsFit
  PROVE  ClientsSpec => []NeverNotFound
<1>1. ClientsInit => ConnsKnow
  <2> SUFFICES ASSUME ClientsInit, NEW c \in Conns
               PROVE  KnowsOK(client[c], id[c], lines[c], replies[c], pc[c], reply[c], KnownIds)
    BY DEF ConnsKnow
  <2>1. client[c] = "off" /\ lines[c] = <<>> /\ reply[c] = NoReply /\ Len(<<>>) = 0
    BY DEF ClientsInit, Init
  <2>2. ~IsMissing(NoReply)
    BY Zenon DEF IsMissing, NoReply
  <2> QED
    BY <2>1, <2>2 DEF KnowsOK
<1>2. ConnsKnow => \A c \in Conns : ~IsMissing(reply[c])
  BY DEF ConnsKnow, KnowsOK
<1>3. ConnsKnow => NeverNotFound
  BY <1>2, Zenon DEF IsMissing, NeverNotFound
<1>4. ClientsInv /\ ConnsKnow /\ [ClientsNext]_sessionVars => ConnsKnow'
  BY KnowsNext
<1> QED
  BY <1>1, <1>3, <1>4, ClientsInvariant, PTL DEF ClientsSpec

-----------------------------------------------------------------------------
(* 4. Why sensors are ACTIVE, where ids are stored whole. *)

\* Table and id of the sensors that are ACTIVE, as steps of the handlers change them.
NoneActivated == \A s \in Slots : Active(s)' => Active(s) /\ sensors'[s].id = sensors[s].id

LEMMA FieldsSet ==
  ASSUME HandlerInv, NEW i,
         \/ \E value, type : AddMetric(i, value, type)
         \/ \E level : SetAlertLevel(i, level)
         \/ \E value, type : AddAlert(i, value, type)
         \/ UNCHANGED sensors
  PROVE  NoneActivated
<1>1. sensors \in [Slots -> Sensor \cup {FreeSlot}]
  BY DEF HandlerInv, TableInv, StateTypeOK
<1>2. ASSUME NEW s \in Slots
      PROVE  /\ sensors'[s].active = sensors[s].active
             /\ sensors[s].active = 1 => /\ sensors'[s].id = sensors[s].id
                                         /\ sensors'[s].status = sensors[s].status
  <2>1. sensors[s] \in Sensor \/ (sensors[s] = FreeSlot /\ ~FoundAt(s, i))
    BY <1>1 DEF FoundAt, Holds, FreeSlot
  <2>2. CASE \E value, type : AddMetric(i, value, type)
    <3>1. PICK value : sensors'[s] =
            IF FoundAt(s, i)
            THEN [sensors[s] EXCEPT !.last_value = value, !.last_timestamp = "ISO"]
            ELSE sensors[s]
      BY <2>2 DEF AddMetric
    <3> QED
      BY <2>1, <3>1 DEF Sensor
  <2>3. CASE \E level : SetAlertLevel(i, level)
    BY <2>1, <2>3 DEF SetAlertLevel, Sensor, FreeSlot
  <2>4. CASE (\E value, type : AddAlert(i, value, type)) \/ UNCHANGED sensors
    BY <2>4 DEF AddAlert, sensorVars
  <2> QED
    BY <2>2, <2>3, <2>4
<1> QED
  BY <1>2 DEF NoneActivated, Active

\* After QUIT no sensor of that id is ACTIVE.
LEMMA QuitDeactivates ==
  ASSUME HandlerInv, UniqueIds, NEW i, DeactivateSensor(i)
  PROVE  NoneActivated /\ \A s \in Slots : Active(s)' => sensors'[s].id # i
<1>1. sensors \in [Slots -> Sensor \cup {FreeSlot}]
  BY DEF HandlerInv, TableInv, StateTypeOK
<1>2. ASSUME NEW s \in Slots, Active(s)'
      PROVE  Active(s) /\ sensors'[s].id = sensors[s].id /\ sensors[s].id # i
  <2>1. CASE FoundAt(s, i)
    <3>1. sensors'[s] = [sensors[s] EXCEPT !.status = "INACTIVE"] /\ sensors[s] \in Sensor
      BY <1>1, <2>1 DEF DeactivateSensor, FoundAt, Holds, FreeSlot
    <3>2. sensors'[s].status = "INACTIVE"
      BY <3>1 DEF Sensor
    <3> QED
      BY <1>2, <3>2 DEF Active
  <2>2. CASE ~FoundAt(s, i)
    <3>1. sensors'[s] = sensors[s]
      BY <2>2 DEF DeactivateSensor
    <3>2. sensors[s].active = 1 /\ Active(s)
      BY <1>2, <3>1 DEF Active
    <3>3. ASSUME sensors[s].id = i PROVE FALSE
      <4>1. PICK u \in Slots : u < s /\ Holds(u, i)
        BY <2>2, <3>2, <3>3 DEF FoundAt, Holds
      <4>2. u # s
        BY <4>1 DEF Slots
      <4> QED
        BY <3>2, <3>3, <4>1, <4>2 DEF Holds, UniqueIds
    <3> QED
      BY <3>1, <3>2, <3>3
  <2> QED
    BY <2>1, <2>2
<1> QED
  BY <1>2 DEF NoneActivated

\* REGISTER activates no sensor of another id.
LEMMA RegisterActivates ==
  ASSUME IdsFit, HandlerInv, NEW i \in Ids, NEW result, RegisterSensor(i, Type, result)
  PROVE  \A s \in Slots : Active(s)' =>
           (Active(s) /\ sensors'[s].id = sensors[s].id) \/ sensors'[s].id = i
<1>0. sensors \in [Slots -> Sensor \cup {FreeSlot}]
  BY DEF HandlerInv, TableInv, StateTypeOK
<1>1. CASE Reactivate(i)
  <2>1. PICK s \in Slots : FoundAt(s, i) /\ sensors' = [sensors EXCEPT ![s].status = "ACTIVE"]
    BY <1>1 DEF Reactivate
  <2>2. sensors'[s].id = i /\ \A t \in Slots : t # s => sensors'[t] = sensors[t]
    BY <1>0, <2>1 DEF Sensor, FreeSlot, FoundAt, Holds
  <2> QED
    BY <2>2 DEF Active
<1>2. CASE AddSensor(i, Type)
  <2>1. PICK s \in Slots : sensors' = [sensors EXCEPT ![s] = NewSensor(i, Type)]
    BY <1>2 DEF AddSensor
  <2>2. sensors'[s] = NewSensor(i, Type) /\ \A t \in Slots : t # s => sensors'[t] = sensors[t]
    BY <1>0, <2>1
  <2>3. sensors'[s].id = i
    BY <2>2 DEF NewSensor, IdsFit
  <2> QED
    BY <2>2, <2>3 DEF Active
<1>3. CASE UNCHANGED sensors
  BY <1>3 DEF Active
<1> QED
  BY <1>1, <1>2, <1>3 DEF RegisterSensor, sensorVars

-----------------------------------------------------------------------------
AccountedFor(i) == i \in lost \/ \E c \in Conns : id[c] = i /\ ToQuit(c)

LEMMA AccountedForAll ==
  ActiveAccounted <=> \A s \in Slots : Active(s) => AccountedFor(sensors[s].id)
BY DEF ActiveAccounted, AccountedFor

\* What explained a sensor still does, or the connection of the step now does.
LEMMA StillAccounted ==
  ASSUME Typed, NEW c \in Conns, NEW doing, NEW i, NEW q, NEW r, NEW place, NEW said,
         Becomes(c, doing, i, q, r, place, said), NEW j, AccountedFor(j),
         j \in lost \/ (id[c] = j /\ ToQuit(c)) =>
           j \in lost' \/ (i = j /\ (doing \in Reporting \/ Quits(q)))
  PROVE  AccountedFor(j)'
<1>1. CASE j \in lost'
  BY <1>1 DEF AccountedFor
<1>2. CASE i = j /\ (doing \in Reporting \/ Quits(q))
  <2>1. id'[c] = j /\ client'[c] = doing /\ lines'[c] = q
    BY <1>2, OneBecomes
  <2> QED
    BY <1>2, <2>1 DEF AccountedFor, ToQuit
<1>3. CASE \E d \in Conns : d # c /\ id[d] = j /\ ToQuit(d)
  <2>1. PICK d \in Conns : d # c /\ id[d] = j /\ ToQuit(d)
    BY <1>3
  <2>2. id'[d] = id[d] /\ client'[d] = client[d] /\ lines'[d] = lines[d]
    BY <2>1, OneBecomes
  <2> QED
    BY <2>1, <2>2 DEF AccountedFor, ToQuit
<1> QED
  BY <1>1, <1>2, <1>3 DEF AccountedFor

LEMMA ProgramAccounted ==
  ASSUME Typed, ConnsOK, ActiveAccounted, NEW c \in Conns,
         Begin(c) \/ Program(c) \/ Kill(c) \/ Lose(c)
  PROVE  ActiveAccounted'
<1> DEFINE q == lines[c]
           r == replies[c]
           t == Tail(r)
           a == Append(q, QuitLine)
<1>s. UNCHANGED sensors
  BY DEF Begin, Accept, Program, TakeRegister, TakeMetric, SendMetric, GiveUp, TakeQuit,
     GiveUpQuit, Kill, Lose, vars, stateVars
<1>a. q \in Seq(ProgramLines) => Quits(a)
  <2>1. QuitLine \in ProgramLines /\ QuitLine.command = "QUIT"
    BY DEF QuitLine, ProgramLines
  <2> QED
    BY <2>1, Appended DEF Quits
<1>q. q \in Seq(ProgramLines)
  BY DEF Typed, LinesTyped
<1>e. ASSUME NEW j, AccountedFor(j) PROVE AccountedFor(j)'
  <2>u. UNCHANGED lost => (j \in lost => j \in lost')
    OBVIOUS
  <2> HIDE DEF q, r, t, a
  <2>1. CASE Begin(c)
    <3>1. client[c] = "off" /\ lines[c] = <<>>
      BY <2>1, BeginBecomes DEF ConnsOK, ConnOK
    <3>2. PICK i \in Ids :
            /\ lost' = lost \ RunAgain(c, i)
            /\ Becomes(c, "register", i, <<RegisterLine>>, replies[c], "recv", reply[c])
      BY <2>1, BeginBecomes
    <3>3. ~ToQuit(c)
      BY <3>1 DEF ToQuit, Quits, Reporting
    <3>4. j \in lost => j \in lost' \/ i = j
      BY <3>2 DEF RunAgain
    <3> QED
      BY <1>e, <3>2, <3>3, <3>4, StillAccounted DEF Reporting
  <2>2. CASE TakeRegister(c) \/ TakeMetric(c)
    <3>1. /\ UNCHANGED lost
          /\ \/ Becomes(c, "loop", id[c], q, t, pc[c], reply[c])
             \/ Becomes(c, "quit", id[c], a, t, pc[c], reply[c])
      BY <2>2, TakeRegisterBecomes, TakeMetricBecomes DEF q, r, t, a
    <3> QED
      BY <1>e, <1>a, <1>q, <2>u, <3>1, StillAccounted DEF Reporting
  <2>3. CASE SendMetric(c)
    <3>1. PICK value \in Reading :
            Becomes(c, "metric", id[c], Append(q, MetricLine(value)), r, pc[c], reply[c])
      BY <2>3, SendMetricBecomes DEF q, r
    <3>2. UNCHANGED lost
      BY <2>3, SendMetricBecomes
    <3> QED
      BY <1>e, <2>u, <3>1, <3>2, StillAccounted DEF Reporting
  <2>4. CASE GiveUp(c)
    <3>1. UNCHANGED lost /\ Becomes(c, "quit", id[c], a, r, pc[c], reply[c])
      BY <2>4, GiveUpBecomes DEF q, r, a
    <3> QED
      BY <1>e, <1>a, <1>q, <2>u, <3>1, StillAccounted
  <2>5. CASE TakeQuit(c) \/ GiveUpQuit(c) \/ Kill(c) \/ Lose(c)
    <3>1. \/ /\ client[c] = "quit" /\ lost' = lost
             /\ Becomes(c, "off", id[c], q, <<>>, pc[c], reply[c])
          \/ /\ lost' = lost \cup {id[c]}
             /\ \E p \in {q, <<>>} : Becomes(c, "off", id[c], p, <<>>, pc[c], reply[c])
      BY <2>5, EndBecomes DEF q
    <3>2. CASE /\ client[c] = "quit" /\ lost' = lost
               /\ Becomes(c, "off", id[c], q, <<>>, pc[c], reply[c])
      <4>1. ToQuit(c) => Quits(q)
        BY <3>2 DEF ToQuit, Reporting, q
      <4> QED
        BY <1>e, <3>2, <4>1, StillAccounted
    <3>3. CASE /\ lost' = lost \cup {id[c]}
               /\ \E p \in {q, <<>>} : Becomes(c, "off", id[c], p, <<>>, pc[c], reply[c])
      BY <1>e, <3>3, StillAccounted
    <3> QED
      BY <3>1, <3>2, <3>3
  <2> QED
    BY <2>1, <2>2, <2>3, <2>4, <2>5 DEF Program
<1>1. \A s \in Slots : Active(s) => AccountedFor(sensors[s].id)
  BY AccountedForAll
<1>2. \A s \in Slots : (Active(s)' => Active(s)) /\ sensors'[s].id = sensors[s].id
  BY <1>s DEF Active
<1>3. ASSUME NEW s \in Slots, Active(s)'
      PROVE  sensors'[s].id \in lost' \/ \E d \in Conns : id'[d] = sensors'[s].id /\ ToQuit(d)'
  BY <1>1, <1>2, <1>3, <1>e DEF AccountedFor
<1> QED
  BY <1>3 DEF ActiveAccounted

\* A line that is not QUIT is followed by QUIT, or by nothing because of a loss.
LEMMA QuitFollows ==
  ASSUME NEW doing \in Doings, NEW i, NEW q \in Seq(ProgramLines), NEW r, NEW place, NEW answer,
         NEW gone, ConnOK(doing, i, q, r, place, answer, gone), q # <<>>, q[1].command # "QUIT"
  PROVE  doing \in Reporting \/ Quits(Tail(q)) \/ i \in gone
<1> DEFINE t == Tail(q)
<1>0. t = Tail(q)
  OBVIOUS
<1> HIDE DEF t
<1>1. /\ Len(q) >= 1 /\ Len(t) = Len(q) - 1 /\ Len(q) \in Nat
      /\ (t = <<>> <=> Len(q) <= 1)
      /\ \A k \in 1 .. Len(t) : k + 1 \in 1 .. Len(q) /\ t[k] = q[k + 1]
  BY <1>0, HeadTaken
<1>2. Quits(q) => Quits(t)
  <2> SUFFICES ASSUME Quits(q) PROVE Quits(t)
    OBVIOUS
  <2>1. q[Len(q)].command = "QUIT"
    BY DEF Quits
  <2>2. Len(q) >= 2
    BY <1>1, <2>1
  <2>3. t # <<>> /\ Len(t) \in 1 .. Len(t) /\ Len(t) + 1 = Len(q)
    BY <1>1, <2>2
  <2>4. t[Len(t)] = q[Len(q)]
    BY <1>1, <2>3
  <2> QED
    BY <2>1, <2>3, <2>4 DEF Quits
<1>3. doing \in Reporting \/ Quits(q) \/ i \in gone
  BY DEF ConnOK, Doings, Reporting
<1> QED
  BY <1>0, <1>2, <1>3

LEMMA HandlerAccounted ==
  ASSUME IdsFit, HandlerInv, UniqueIds, LinesTyped, ConnsOK, ActiveAccounted,
         NEW c \in Conns, Handles(c)
  PROVE  ActiveAccounted'
<1> DEFINE q == lines[c]
           r == replies[c]
           t == Tail(q)
<1>t. /\ Typed /\ q \in Seq(ProgramLines) /\ client[c] \in Doings /\ id[c] \in Ids
  BY DEF LinesTyped, HandlerInv, Typed
<1>c. ConnOK(client[c], id[c], q, r, pc[c], reply[c], lost)
  BY DEF ConnsOK
<1>a. \A s \in Slots : Active(s) => AccountedFor(sensors[s].id)
  BY AccountedForAll
<1>d. (\A s \in Slots : Active(s)' => sensors'[s].id \in lost'
         \/ \E d \in Conns : id'[d] = sensors'[s].id /\ ToQuit(d)') => ActiveAccounted'
  BY DEF ActiveAccounted
<1> HIDE DEF q, r, t
\* A step after which each sensor is accounted for as before.
<1>s. ASSUME lost' = lost, NEW place, NEW said, NEW p,
             Becomes(c, client[c], id[c], q, p, place, said), NoneActivated
      PROVE  ActiveAccounted'
  <2>1. ASSUME NEW j, AccountedFor(j) PROVE AccountedFor(j)'
    <3>1. ToQuit(c) => client[c] \in Reporting \/ Quits(q)
      BY DEF ToQuit, q
    <3> QED
      BY <1>s, <1>t, <2>1, <3>1, StillAccounted
  <2> QED
    BY <1>a, <1>d, <1>s, <2>1 DEF AccountedFor, NoneActivated
<1>1. CASE Receive(c)
  <2>1. q # <<>> /\ lost' = lost
    BY <1>1, <1>t, ReceiveBecomes DEF q
  <2>2. PICK place \in Serving : \E said :
          Becomes(c, client[c], id[c], t, r, place, said)
    BY <1>1, <1>t, ReceiveBecomes DEF q, r, t
  <2>3. PICK said : Becomes(c, client[c], id[c], t, r, place, said)
    BY <2>2
  <2>4. Head(q) = q[1]
    BY <1>t, <2>1, HeadTaken
  <2>5. \/ q[1].command = "REGISTER" /\ Register(c, id[c], Type)
        \/ q[1].command = "METRIC" /\ Metric(c, q[1].value)
        \/ q[1].command = "QUIT" /\ Quit(c, id[c])
    BY <1>1, <2>4 DEF Receive, q
  <2>6. CASE q[1].command = "QUIT" /\ Quit(c, id[c])
    <3>1. DeactivateSensor(id[c])
      BY <2>6, Zenon DEF Quit
    <3>2. NoneActivated /\ \A s \in Slots : Active(s)' => sensors'[s].id # id[c]
      BY <3>1, QuitDeactivates
    <3>3. ASSUME NEW j, AccountedFor(j), j # id[c] PROVE AccountedFor(j)'
      BY <1>t, <2>1, <2>3, <3>3, StillAccounted
    <3> QED
      BY <1>a, <1>d, <3>2, <3>3 DEF AccountedFor, NoneActivated
  <2>7. CASE q[1].command # "QUIT"
    <3>1. client[c] \in Reporting \/ Quits(t) \/ id[c] \in lost
      BY <1>t, <1>c, <2>1, <2>7, QuitFollows DEF t
    <3>2. ASSUME NEW j, AccountedFor(j) PROVE AccountedFor(j)'
      BY <1>t, <2>1, <2>3, <3>1, <3>2, StillAccounted
    <3>3. id[c] \in lost' \/ \E d \in Conns : id'[d] = id[c] /\ ToQuit(d)'
      <4>1. client'[c] = client[c] /\ id'[c] = id[c] /\ lines'[c] = t
        BY <1>t, <2>3, OneBecomes
      <4> QED
        BY <2>1, <3>1, <4>1 DEF ToQuit
    <3>4. \A s \in Slots : Active(s)' =>
            (Active(s) /\ sensors'[s].id = sensors[s].id) \/ sensors'[s].id = id[c]
      <4>1. CASE Register(c, id[c], Type)
        <5>1. PICK result \in {0, -1, -2} : RegisterSensor(id[c], Type, result)
          BY <4>1, Zenon DEF Register
        <5> QED
          BY <1>t, <5>1, RegisterActivates
      <4>2. CASE Metric(c, q[1].value)
        <5>1. UNCHANGED stateVars
          BY <4>2, Zenon DEF Metric, MetricFind, MetricRefused
        <5>2. UNCHANGED sensors
          BY <5>1 DEF stateVars
        <5> QED
          BY <5>2 DEF Active
      <4> QED
        BY <2>5, <2>7, <4>1, <4>2
    <3>5. \A s \in Slots : Active(s)' => sensors'[s].id \in lost'
            \/ \E d \in Conns : id'[d] = sensors'[s].id /\ ToQuit(d)'
      BY <1>a, <3>2, <3>3, <3>4 DEF AccountedFor
    <3> QED
      BY <1>d, <3>5
  <2> QED
    BY <2>5, <2>6, <2>7
<1>2. CASE Works(c)
  <2>1. lost' = lost
    BY <1>2, <1>t, WorksBecomes
  <2>2. PICK place \in Serving : \E said : Becomes(c, client[c], id[c], q, r, place, said)
    BY <1>2, <1>t, WorksBecomes DEF q, r
  <2>3. PICK said : Becomes(c, client[c], id[c], q, r, place, said)
    BY <2>2
  <2>4. \/ \E value, type : AddMetric(job[c].id, value, type)
        \/ \E level : SetAlertLevel(job[c].id, level)
        \/ \E value, type : AddAlert(job[c].id, value, type)
    BY <1>2, Zenon DEF Works, MetricAdd, RaiseAlert, SetLevel
  <2>5. NoneActivated
    BY <2>4, FieldsSet
  <2> QED
    BY <1>s, <2>1, <2>3, <2>5
<1>3. CASE Replied(c) \/ Ends(c)
  <2>1. lost' = lost /\ \E p, place, said : Becomes(c, client[c], id[c], q, p, place, said)
    BY <1>3, <1>t, RepliedBecomes, EndsBecomes DEF q, r
  <2>2. UNCHANGED stateVars
    BY <1>3, Zenon DEF Replied, Respond, Ends, HangUp
  <2>3. NoneActivated
    BY <2>2, FieldsSet DEF stateVars
  <2> QED
    BY <1>s, <2>1, <2>3
<1> QED
  BY <1>1, <1>2, <1>3 DEF Handles

LEMMA AccountedNext ==
  ASSUME IdsFit, ClientsInv, UniqueIds, ActiveAccounted, [ClientsNext]_sessionVars
  PROVE  ActiveAccounted' /\ UniqueIds'
<1>1. HandlerInv /\ LinesTyped /\ Typed /\ ConnsOK
  BY DEF ClientsInv, HandlerInv, Typed
<1>2. UniqueIds'
  BY <1>1, HandlersStep, UniqueIdsNext
<1>3. ASSUME NEW c \in Conns, Begin(c) \/ Program(c) \/ Kill(c) \/ Lose(c) \/ Handles(c)
      PROVE  ActiveAccounted'
  BY <1>1, <1>3, ProgramAccounted, HandlerAccounted
<1>4. ASSUME UNCHANGED sessionVars PROVE ActiveAccounted'
  <2>1. UNCHANGED <<client, id, lines, lost, sensors>>
    BY <1>4 DEF sessionVars, clientVars, vars, stateVars
  <2> QED
    BY <2>1 DEF ActiveAccounted, Active, ToQuit
<1> QED
  BY <1>2, <1>3, <1>4 DEF ClientsNext

\* A program that has read 200 BYE, alone with its id, leaves its sensor INACTIVE: an ACTIVE
\* sensor has a run that will still quit, or one that was lost.
THEOREM ByeLeavesInactive ==
  ASSUME IdsFit
  PROVE  ClientsSpec => ByeMeansInactive
<1>1. ClientsInit => UniqueIds /\ ActiveAccounted
  BY DEF ClientsInit, Init, StateInit, UniqueIds, FreeSlot, ActiveAccounted, Active
<1>2. ClientsInv /\ (UniqueIds /\ ActiveAccounted) /\ [ClientsNext]_sessionVars
        => (UniqueIds /\ ActiveAccounted)'
  BY AccountedNext
<1>3. ASSUME ClientsInv, UniqueIds /\ ActiveAccounted, NEW c \in Conns, client[c] = "quit",
             replies[c] # <<>>, IsBye(Head(replies[c])), Alone(c),
             NEW s \in Slots, Holds(s, id[c])
      PROVE  sensors[s].status = "INACTIVE"
  <2>1. /\ \A d \in Conns : ConnOK(client[d], id[d], lines[d], replies[d], pc[d], reply[d], lost)
        /\ replies[c] \in Seq(Replies \cup {NoReply})
    BY <1>3 DEF ClientsInv, ConnsOK, LinesTyped
  <2>2. IsBye(replies[c][1]) /\ 1 \in 1 .. Len(replies[c])
    BY <1>3, <2>1, HeadTaken
  <2>3. lines[c] = <<>>
    BY <2>1, <2>2 DEF ConnOK
  <2>4. ASSUME NEW d \in Conns, id[d] = id[c] PROVE ~ToQuit(d)
    <3>1. CASE d = c
      BY <1>3, <2>3, <3>1 DEF ToQuit, Quits, Reporting
    <3>2. CASE d # c
      <4>1. client[d] = "off" /\ pc[d] = "closed"
        BY <1>3, <2>4, <3>2 DEF Alone
      <4>2. lines[d] = <<>>
        BY <2>1, <4>1 DEF ConnOK
      <4> QED
        BY <4>1, <4>2 DEF ToQuit, Quits, Reporting
    <3> QED
      BY <3>1, <3>2
  <2>5. ~Active(s)
    BY <1>3, <2>4 DEF ActiveAccounted, Alone, Holds
  <2>6. sensors[s] \in Sensor
    BY <1>3 DEF ClientsInv, HandlerInv, TableInv, StateTypeOK, Holds, FreeSlot
  <2> QED
    BY <1>3, <2>5, <2>6 DEF Active, Holds, Sensor
<1>4. ASSUME ClientsInv, UniqueIds /\ ActiveAccounted, NEW c \in Conns, client[c] = "quit",
             replies[c] # <<>>, Head(replies[c]) = "200 BYE", Alone(c)
      PROVE  \A s \in Slots : Holds(s, id[c]) => sensors[s].status = "INACTIVE"
  BY <1>3, <1>4, Zenon DEF IsBye
<1>5. ClientsInv /\ (UniqueIds /\ ActiveAccounted) =>
        \A c \in Conns :
          client[c] = "quit" /\ client'[c] = "off" /\ replies[c] # <<>>
              /\ Head(replies[c]) = "200 BYE"
              /\ Alone(c) =>
            \A s \in Slots : Holds(s, id[c]) => sensors[s].status = "INACTIVE"
  BY <1>4, Zenon
<1> QED
  BY <1>1, <1>2, <1>5, ClientsInvariant, PTL DEF ClientsSpec, ByeMeansInactive
=============================================================================
