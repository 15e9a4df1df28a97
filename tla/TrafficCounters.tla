--------------------------- MODULE TrafficCounters ---------------------------
(***************************************************************************)
(* The traffic of the network console                                      *)
(* (security_connectors/traffic_counters.py, _enrich_connections and       *)
(* _network_payload of the router): cumulative counters of the sockets of  *)
(* a process, and what a poll reports of the time since the last one.      *)
(*                                                                         *)
(* Two polls of two pages may both have read the counters before either    *)
(* stores them.  The counters of a socket go with it, and a process id is  *)
(* given again: a sum may fall.                                            *)
(***************************************************************************)
EXTENDS Integers, FiniteSets

CONSTANTS
  Reader,        \* the polls
  Socket,        \* the sockets a process may have at once
  MaxBytes,      \* bound on the bytes moved
  MaxReadings    \* bound on the readings of the counters

ASSUME TrafficAssumption == MaxBytes \in Nat /\ MaxReadings \in Nat

VARIABLES
  opened,        \* the open sockets of the process
  carried,       \* carried[s]: the bytes the open socket s has moved, by number
  moved,         \* history: bytes moved in all, numbered as they move
  baseline,      \* _last_sample: the sum of the process, -1 if not in it
  reader,        \* reader[q]: the poll q
  readings       \* readings made

trafficVars == <<opened, carried, moved, baseline, reader, readings>>

None == -1
Amount == 0 .. MaxBytes
Reading == [sum : Amount \cup {None}, at : Amount, number : 0 .. MaxReadings]
Reputation == {"unreachable", "listed", "clear"}
Suspicion == {"unknown", "yes", "no"}
\* bytes is what the row shows; over (what really moved since the reading they
\* are counted from) and late (that reading was the younger one) are history.
Shown == [bytes : Amount \cup {None}, over : Int, late : BOOLEAN, suspicious : Suspicion]
NoReading == [sum |-> None, at |-> 0, number |-> 0]
NoRow == [bytes |-> None, over |-> 0, late |-> FALSE, suspicious |-> "unknown"]
IdleReader == [pc |-> "idle", now |-> NoReading, row |-> NoRow]

TrafficInit ==
  /\ opened = {} /\ carried = [s \in Socket |-> {}] /\ moved = 0
  /\ baseline = NoReading /\ reader = [q \in Reader |-> IdleReader] /\ readings = 0

\* The sum over the sockets of a process (nettop -P, ss by pid); a process
\* without one is not in the answer of the tool.
Counted == UNION {carried[s] : s \in opened}
_cumulative_counters_for_current_platform ==
  IF opened = {} THEN None ELSE Cardinality(Counted)

(***************************************************************************)
(* TrafficCounterRegistry.sample: the reading is awaited, the difference   *)
(* and the new baseline follow without giving way.                         *)
(***************************************************************************)

ReadCounters(q) ==
  /\ reader[q].pc = "idle" /\ readings < MaxReadings
  /\ readings' = readings + 1
  /\ reader' = [reader EXCEPT ![q] =
                  [pc |-> "read", row |-> NoRow,
                   now |-> [sum |-> _cumulative_counters_for_current_platform, at |-> moved,
                            number |-> readings + 1]]]
  /\ UNCHANGED <<opened, carried, moved, baseline>>

\* A tool that is missing, fails or is refused: no rows, and the baseline stays.
ReadingFails(q) ==
  /\ reader[q].pc = "read"
  /\ reader' = [reader EXCEPT ![q] = IdleReader]
  /\ UNCHANGED <<opened, carried, moved, baseline, readings>>

\* A sum that fell is counted from nothing.
DeltaFromZero(new, old) ==
  IF old = None \/ new = None THEN None ELSE IF new < old THEN new ELSE new - old

\* A first sight has no baseline; a sum that fell is no traffic.
Delta(new, old) == IF old = None \/ new = None \/ new < old THEN None ELSE new - old

\* The row is marked only if CrowdSec has answered, with or without a
\* decision on the remote address.
is_suspicious(reputation) ==
  CASE reputation = "unreachable" -> "unknown"
    [] reputation = "listed" -> "yes"
    [] reputation = "clear" -> "no"

StoreSample(q) ==
  /\ reader[q].pc = "read"
  /\ LET now == reader[q].now IN
     /\ \E reputation \in Reputation :
          reader' = [reader EXCEPT ![q] =
                       [pc |-> "idle", now |-> NoReading,
                        row |-> [bytes |-> Delta(now.sum, baseline.sum),
                                 over |-> now.at - baseline.at,
                                 late |-> now.number < baseline.number,
                                 suspicious |-> is_suspicious(reputation)]]]
     /\ baseline' = now
  /\ UNCHANGED <<opened, carried, moved, readings>>

(***************************************************************************)
(* The processes, and the end of the panel.                                *)
(***************************************************************************)

OpenSocket(s) ==
  /\ s \notin opened /\ opened' = opened \cup {s}
  /\ UNCHANGED <<carried, moved, baseline, reader, readings>>

CloseSocket(s) ==
  /\ s \in opened /\ opened' = opened \ {s} /\ carried' = [carried EXCEPT ![s] = {}]
  /\ UNCHANGED <<moved, baseline, reader, readings>>

Transfer(s) ==
  /\ s \in opened /\ moved < MaxBytes
  /\ moved' = moved + 1 /\ carried' = [carried EXCEPT ![s] = @ \cup {moved + 1}]
  /\ UNCHANGED <<opened, baseline, reader, readings>>

CountersEnd ==
  /\ baseline' = NoReading /\ reader' = [q \in Reader |-> IdleReader]
  /\ UNCHANGED <<opened, carried, moved, readings>>

TrafficNext ==
  \/ \E q \in Reader : ReadCounters(q) \/ ReadingFails(q) \/ StoreSample(q)
  \/ \E s \in Socket : OpenSocket(s) \/ CloseSocket(s) \/ Transfer(s)
  \/ CountersEnd

TrafficSpec == TrafficInit /\ [][TrafficNext]_trafficVars

-----------------------------------------------------------------------------
TrafficTypeOK ==
  /\ opened \subseteq Socket /\ carried \in [Socket -> SUBSET (1 .. moved)]
  /\ moved \in Amount /\ baseline \in Reading
  /\ reader \in [Reader -> [pc : {"idle", "read"}, now : Reading, row : Shown]]
  /\ readings \in 0 .. MaxReadings

\* The bytes shown for a process are at most the bytes it moved since the
\* reading they are counted from, whatever sockets closed and process ids were
\* given again in between ("never a real negative traffic answer", sample).
\* Only the row of a poll that met a baseline younger than its own reading is
\* spared: the rows before and after it are real.
TrafficIsReal ==
  \A q \in Reader : ~reader[q].row.late => reader[q].row.bytes <= reader[q].row.over
=============================================================================
