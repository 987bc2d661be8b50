------------------------------ MODULE PageBody ------------------------------
(***************************************************************************)
(* The body buffer of route_sensors, route_alerts and route_metrics        *)
(* (server/src/http_server.c), in characters.  offset grows by what        *)
(* snprintf would have written, which is more than it wrote when the       *)
(* buffer is full, and the loop of the rows stops where fewer than Reserve *)
(* characters are left.  HttpPages takes from here when a page is made of  *)
(* whole rows.                                                             *)
(***************************************************************************)
EXTENDS Integers

CONSTANTS
  Size,         \* HTTP_RESPONSE_MAX
  Reserve,      \* 512
  Heading,      \* of each route: characters up to the first row
  Footer,       \* characters after the last one
  RowMax,       \* of each route: characters of the longest row, for any double
  MaxRows,      \* of each route: MAX_SENSORS, MAX_ALERTS, MAX_METRICS
  GrowthMax     \* what the numbers of /sensors add to the zeros they replace

Routes == {"/sensors", "/alerts", "/metrics"}

\* A row of /metrics fits, with the footer, where the loop stops.  A row of /sensors need
\* not, but all that its table holds fit in the body.  Nothing is assumed of a row of
\* /alerts, which has "%.2f" of a double, up to 313 characters, twice.
ASSUME BodyAssumption ==
  /\ Size \in Nat /\ Reserve \in Nat /\ Footer \in Nat /\ GrowthMax \in Nat
  /\ Heading \in [Routes -> Nat] /\ RowMax \in [Routes -> Nat] /\ MaxRows \in [Routes -> Nat]
  /\ Footer <= Reserve /\ \A r \in Routes : Heading[r] + Reserve < Size
  /\ RowMax["/metrics"] + Footer <= Reserve
  /\ Heading["/sensors"] + MaxRows["/sensors"] * RowMax["/sensors"] + GrowthMax + Footer < Size

VARIABLES
  route,        \* the page that is built
  step,         \* the statement that is next; "undefined" after a print outside the body
  offset,
  length,       \* strlen(body)
  printed,      \* how many rows were printed
  row           \* the characters of the last of them

bodyVars == <<route, step, offset, length, printed, row>>

BodyInit ==
  /\ route \in Routes
  /\ step = "heading" /\ offset = 0 /\ length = 0 /\ printed = 0 /\ row = 0

\* snprintf(body + offset, sizeof(body) - offset, ...) of n characters.
Printed(n) ==
  /\ offset' = offset + n
  /\ length' = IF offset + n < Size THEN offset + n ELSE Size - 1

PrintHeading ==
  /\ step = "heading" /\ step' = "rows"
  /\ Printed(Heading[route])
  /\ UNCHANGED <<route, printed, row>>

\* Mutant: the loop goes on as long as there is any place.
PrintRowUnreserved(n) ==
  /\ step = "rows" /\ printed < MaxRows[route] /\ offset < Size
  /\ Printed(n)
  /\ printed' = printed + 1 /\ row' = n
  /\ UNCHANGED <<route, step>>

PrintRow(n) ==
  /\ step = "rows" /\ printed < MaxRows[route] /\ offset < Size - Reserve
  /\ Printed(n)
  /\ printed' = printed + 1 /\ row' = n
  /\ UNCHANGED <<route, step>>

\* There are no more rows, or no place for them.
EndRows ==
  /\ step = "rows"
  /\ step' = IF route = "/sensors" THEN "numbers" ELSE "footer"
  /\ UNCHANGED <<route, offset, length, printed, row>>

\* The numbers of /sensors are known after its rows: strncat puts the body together
\* again around them, and offset is its length.
PutNumbers(growth) ==
  /\ step = "numbers" /\ step' = "footer"
  /\ length' = IF length + growth < Size THEN length + growth ELSE Size - 1
  /\ offset' = length'
  /\ UNCHANGED <<route, printed, row>>

PrintFooter ==
  /\ step = "footer" /\ offset <= Size
  /\ step' = "send"
  /\ Printed(Footer)
  /\ UNCHANGED <<route, printed, row>>

\* snprintf gets a place past the body, and a size that wrapped: what it does then has no
\* meaning in C, and the model stops.
PrintOutside ==
  /\ step = "footer" /\ offset > Size
  /\ step' = "undefined"
  /\ UNCHANGED <<route, offset, length, printed, row>>

\* http_log_and_send, and the next page.
SendBody ==
  /\ step = "send" /\ step' = "heading"
  /\ route' \in Routes
  /\ offset' = 0 /\ length' = 0 /\ printed' = 0 /\ row' = 0

BodyNext ==
  \/ PrintHeading \/ EndRows \/ PrintFooter \/ PrintOutside \/ SendBody
  \/ \E n \in 1 .. RowMax[route] : PrintRow(n)
  \/ \E growth \in 0 .. GrowthMax : PutNumbers(growth)

BodySpec == BodyInit /\ [][BodyNext]_bodyVars

-----------------------------------------------------------------------------
\* No page is cut, its last row and its footer included, and no snprintf starts past the
\* end of the body: offset is always the length of what was written.  The exception is a
\* last row of /alerts that does not fit, with the footer, in the reserve the loop keeps.
NothingIsCut ==
  (offset < Size /\ length = offset) \/ (route = "/alerts" /\ row + Footer > Reserve)
=============================================================================
