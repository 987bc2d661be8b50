----------------------------- MODULE LineReader -----------------------------
(***************************************************************************)
(* One sensor connection byte by byte: recv_line and send_line             *)
(* (server/src/utils.c) under the loop of handle_sensor_connection.        *)
(*                                                                         *)
(* The peer sends lines, may stop in the middle of one, and ends or loses  *)
(* the connection.  TCP delivers the bytes in order and then the end, so   *)
(* what is under way is one sequence; it is not part of src/.  Of a line   *)
(* only the first byte tells commands apart: "T", "V" and "P" begin a      *)
(* REGISTER of a sensor of type TEMP, VIB or POWER, "Q" is a QUIT that is  *)
(* well formed, "_" a blank.                                               *)
(***************************************************************************)
EXTENDS Integers, Sequences, SequencesExt

CONSTANTS
  Lines,        \* the lines peers send, without their line feed
  BufferSize,   \* BUFFER_SIZE
  MaxLines      \* bound: lines the peer sends

\* By how much "200 REGISTERED <id>" is longer than "REGISTER <id> <type>".
Surplus == [T |-> 1, V |-> 2, P |-> 0]

Bytes == DOMAIN Surplus \cup {"Q", "a", "_", "CR", "LF"}

\* A buffer has room for two characters; the shortest replies have more.
ASSUME BufferAssumption ==
  /\ BufferSize \in Nat /\ BufferSize > 2 /\ MaxLines \in Nat
  /\ Lines \subseteq Seq(Bytes \ {"LF"})

VARIABLES
  sent,         \* the lines the peer meant to send
  whole,        \* how many of them it sent with their line feed
  wire,         \* the bytes that have not been received yet
  peer,         \* "open", "closed" in order, or the connection was "reset"
  at,           \* the handler is in recv_line ("recv"), has a line ("serve") or is "done"
  buf,          \* what recv_line has put in its buffer
  served,       \* the lines recv_line returned to the handler
  answers       \* the lines, by their place in served, whose reply was sent

peerVars == <<sent, whole, wire, peer>>
readerVars == <<peerVars, at, buf, served, answers>>

ReaderInit ==
  /\ sent = <<>> /\ whole = 0 /\ wire = <<>> /\ peer = "open"
  /\ at = "recv" /\ buf = <<>> /\ served = <<>> /\ answers = {}

-----------------------------------------------------------------------------
(* The peer. *)

Send(line) ==
  /\ peer = "open" /\ Len(sent) < MaxLines
  /\ sent' = Append(sent, line) /\ whole' = whole + 1
  /\ wire' = wire \o line \o <<"LF">>
  /\ UNCHANGED <<peer, at, buf, served, answers>>

\* The process dies in the middle of a line, or the rest of it is never sent.
SendCut(line, n) ==
  /\ peer = "open" /\ Len(sent) < MaxLines
  /\ sent' = Append(sent, line)
  /\ wire' = wire \o SubSeq(line, 1, n)
  /\ peer' = "closed"
  /\ UNCHANGED <<whole, at, buf, served, answers>>

EndConnection ==
  /\ peer = "open"
  /\ peer' \in {"closed", "reset"}
  /\ UNCHANGED <<sent, whole, wire, at, buf, served, answers>>

-----------------------------------------------------------------------------
\* Mutant: the handler goes back to recv_line when it got 0 bytes.
ReturnRetrying(line) ==
  /\ buf' = <<>>
  /\ IF line = <<>>
     THEN UNCHANGED <<at, served>>
     ELSE at' = "serve" /\ served' = Append(served, line)

\* recv_line returns to the handler, which leaves its loop when it gets 0 bytes.
Return(line) ==
  /\ buf' = <<>>
  /\ IF line = <<>>
     THEN at' = "done" /\ UNCHANGED served
     ELSE at' = "serve" /\ served' = Append(served, line)

\* Mutants: the size of the buffer is not checked; the byte there is no place for is lost.
StoredUnchecked(byte) == buf' = Append(buf, byte) /\ UNCHANGED <<at, served>>

StoredLosing(byte) ==
  IF Len(buf) + 1 < BufferSize - 1
  THEN buf' = Append(buf, byte) /\ UNCHANGED <<at, served>>
  ELSE Return(buf)

\* A byte is kept, and the loop ends when only the place of the '\0' is left.
Stored(byte) ==
  IF Len(buf) + 1 < BufferSize - 1
  THEN buf' = Append(buf, byte) /\ UNCHANGED <<at, served>>
  ELSE Return(Append(buf, byte))

\* Mutants: the carriage return ends the line, or is kept.
RecvByteEndingAtCR ==
  /\ at = "recv" /\ wire # <<>>
  /\ wire' = Tail(wire)
  /\ IF Head(wire) \in {"CR", "LF"} THEN Return(buf) ELSE Stored(Head(wire))
  /\ UNCHANGED <<sent, whole, peer, answers>>

RecvByteKeepingCR ==
  /\ at = "recv" /\ wire # <<>>
  /\ wire' = Tail(wire)
  /\ IF Head(wire) = "LF" THEN Return(buf) ELSE Stored(Head(wire))
  /\ UNCHANGED <<sent, whole, peer, answers>>

\* One turn of the loop of recv_line.
RecvByte ==
  /\ at = "recv" /\ wire # <<>>
  /\ wire' = Tail(wire)
  /\ CASE Head(wire) = "LF" -> Return(buf)
       [] Head(wire) = "CR" -> UNCHANGED <<at, buf, served>>
       [] OTHER             -> Stored(Head(wire))
  /\ UNCHANGED <<sent, whole, peer, answers>>

\* recv() returned 0: what was read so far is returned as if it were a line.
RecvEnd ==
  /\ at = "recv" /\ wire = <<>> /\ peer = "closed"
  /\ Return(buf)
  /\ UNCHANGED <<peerVars, answers>>

\* recv() returned -1, whatever had arrived before.
RecvError ==
  /\ at = "recv" /\ peer = "reset"
  /\ at' = "done"
  /\ UNCHANGED <<peerVars, buf, served, answers>>

\* How many bytes the reply to a line may have.  That to a REGISTER which is accepted is as
\* long as said above, shorter if there were more blanks, and cut to the size of its
\* buffer; every other reply is short, for the ids STATUS repeats are those of a slot.
ReplyLengths(line) ==
  IF Head(line) \in DOMAIN Surplus
  THEN {length \in 1 .. BufferSize - 1 : length <= Len(line) + Surplus[Head(line)]}
  ELSE {1}

\* Mutant: a place too many is kept for the line feed.
SendLineFitsShort(length) == length + 2 < BufferSize

\* send_line gives up on a reply that fills its buffer; its callers do not look.
SendLineFits(length) == length + 1 < BufferSize

\* The handler serves a line: one reply, and the end of the connection after QUIT.
Serve ==
  /\ at = "serve"
  /\ \E length \in ReplyLengths(Last(served)) :
       answers' = IF SendLineFits(length) /\ peer # "reset"
                  THEN answers \cup {Len(served)} ELSE answers
  /\ at' = IF Head(Last(served)) = "Q" THEN "done" ELSE "recv"
  /\ UNCHANGED <<peerVars, buf, served>>

-----------------------------------------------------------------------------
PeerNext ==
  \/ \E line \in Lines : Send(line) \/ \E n \in 0 .. Len(line) : SendCut(line, n)
  \/ EndConnection

Recv == RecvByte \/ RecvEnd \/ RecvError

ReaderNext == PeerNext \/ Recv \/ Serve

ReaderSpec == ReaderInit /\ [][ReaderNext]_readerVars

\* The handler runs on.  Its send() cannot block for good once the peer has gone, but
\* may while the peer is there and does not read.
ReaderFairness == WF_readerVars(Recv) /\ WF_readerVars(Serve /\ peer # "open")

FairReaderSpec == ReaderSpec /\ ReaderFairness

-----------------------------------------------------------------------------
\* recv_line never writes past its buffer: the '\0' has a place of its own.
ReaderTypeOK ==
  /\ sent \in Seq(Lines) /\ Len(sent) <= MaxLines
  /\ whole \in Len(sent) - 1 .. Len(sent)
  /\ wire \in Seq(Bytes)
  /\ peer \in {"open", "closed", "reset"}
  /\ at \in {"recv", "serve", "done"}
  /\ buf \in Seq(Bytes \ {"CR", "LF"}) /\ Len(buf) < BufferSize - 1
  /\ \A k \in 1 .. Len(served) : Len(served[k]) \in 1 .. BufferSize - 1
  /\ answers \subseteq 1 .. Len(served)

\* The bytes without line feeds and carriage returns.
Visible(bytes) ==
  FlattenSeq([n \in 1 .. Len(bytes) |->
                IF bytes[n] \in {"CR", "LF"} THEN <<>> ELSE <<bytes[n]>>])

\* Cut, long and empty lines included, no byte is lost, doubled or moved: what was
\* served, what is in the buffer and what is under way is a piece of what was sent.
BytesInOrder ==
  IsPrefix(FlattenSeq(served) \o buf \o Visible(wire), Visible(FlattenSeq(sent)))

\* A line recv_line takes whole: not empty and with room for the line feed.
Takes(line) == Len(Visible(line)) \in 1 .. BufferSize - 2

QuitServed == served # <<>> /\ Head(Last(served)) = "Q"

AllTaken(n) == \A k \in 1 .. n : k <= Len(sent) => Takes(sent[k])

\* As long as peers send such lines, each is served once, whole and in order; of the one a
\* peer did not finish the beginning is served as if it were a line.
LinesServedWhole ==
  \A k \in 1 .. Len(served) : AllTaken(k) =>
    /\ k <= Len(sent)
    /\ k <= whole => served[k] = Visible(sent[k])
    /\ k > whole  => IsPrefix(served[k], Visible(sent[k]))

\* Each line a handler serves is answered before the next one is read, those that fill the
\* buffer included: only the reply to a REGISTER can be lost, if it does not fit with its
\* line feed and '\0' in the buffer of send_line.
LinesAreAnswered ==
  at = "recv" /\ peer # "reset" =>
    \A k \in (1 .. Len(served)) \ answers :
      /\ Head(served[k]) \in DOMAIN Surplus
      /\ Len(served[k]) + Surplus[Head(served[k])] >= BufferSize - 1

\* A line that fills the buffer no times, or once or more and ends where it is full: its
\* line feed is found alone.
FillsBuffer(line) ==
  LET length == Len(Visible(line))
  IN  \E times \in 0 .. length : length = times * (BufferSize - 1)

\* A handler leaves a peer that is there and did not quit only at such a line: for
\* recv_line's caller it looks like the end of the connection.  Lines that are cut, cut
\* several times or served in pieces end nothing.
OnlyEmptyLinesEnd ==
  at = "done" /\ peer = "open" /\ ~QuitServed =>
    \E k \in 1 .. Len(sent) : FillsBuffer(sent[k])

\* A handler notices that its peer has gone, and ends.
EndIsNoticed == peer # "open" ~> at = "done"
=============================================================================
