------------------------------ MODULE MCBuffers ------------------------------
(***************************************************************************)
(* Small instances of the two programs around a buffer of fixed size:      *)
(* LineReader, with room for four characters, so that lines that fill it,  *)
(* and longer ones, are short, and PageBody, where the rows of /sensors    *)
(* are longer than the reserve but few, those of /metrics just fit in it,  *)
(* and those of /alerts do not.  One of the two runs, the other rests      *)
(* where it starts: they share nothing.                                    *)
(***************************************************************************)
EXTENDS LineReader, PageBody

ShortLines == {<<"a">>, <<"V", "_">>, <<"Q", "CR">>, <<"P", "a", "a">>, <<"CR", "a", "a", "a">>}
AllLines   == ShortLines \cup
  {<<>>, <<"CR">>, <<"_">>, <<"T", "a", "a">>, <<"a", "Q", "a", "a">>, <<"V", "a", "a", "a", "Q">>}

PerRoute(sensors, alerts, metrics) ==
  [r \in Routes |-> CASE r = "/sensors" -> sensors [] r = "/alerts" -> alerts [] OTHER -> metrics]

Headings   == PerRoute(11, 9, 8)
RowLengths == PerRoute(13, 15, 9)
RowCounts  == PerRoute(2, 3, 9)

ReaderRests == sent = <<>> /\ peer = "open"
BodyRests   == route = "/sensors" /\ step = "heading"

BuffersInit == ReaderInit /\ BodyInit
BuffersNext ==
  \/ ReaderNext /\ BodyRests /\ UNCHANGED bodyVars
  \/ BodyNext /\ ReaderRests /\ UNCHANGED readerVars

BuffersSpec ==
  BuffersInit /\ [][BuffersNext]_<<readerVars, bodyVars>> /\ ReaderFairness
=============================================================================
