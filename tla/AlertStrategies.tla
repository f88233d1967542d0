---------------------------- MODULE AlertStrategies ----------------------------
(***************************************************************************)
(* workers/alerting/strategies.ts and alert-strategy.resolver.ts: the         *)
(* severity that a signal gives the incident it creates.  Of the payload only  *)
(* the fields that a strategy asks for are kept; a field that is absent, or     *)
(* anything else that JavaScript takes for false, is 0.                         *)
(***************************************************************************)
EXTENDS Integers

\* severity_level of the database; SeverityLevel of the DTO.
Severity == {"P0", "P1", "P2", "P3"}

\* ServiceType: the keys of the resolver's map.
Registered == {"RDBMS", "API", "MCP_HOST", "DISTRIBUTED_CACHE", "ASYNC_QUEUE", "NOSQL"}

\* SignalContext.  The stream names any service; the producer's severity may be absent.
Signal == [service : STRING, raw : Severity \cup {"absent"}, timedOut : BOOLEAN,
           miss_rate_percent : Int, missRate : Int, current_lag : Int]

\* miss_rate_percent || missRate
MissRate(signal) ==
  IF signal.miss_rate_percent # 0 THEN signal.miss_rate_percent ELSE signal.missRate

\* DefaultAlertStrategy.
DefaultSeverity(signal) == IF signal.raw = "absent" THEN "P3" ELSE signal.raw

\* resolve(service_type).determineSeverity(signal).
SeverityOf(signal) ==
  CASE signal.service = "RDBMS"             -> "P0"
    [] signal.service = "API"               -> IF signal.timedOut THEN "P1" ELSE "P2"
    [] signal.service = "MCP_HOST"          -> "P1"
    [] signal.service = "DISTRIBUTED_CACHE" -> IF MissRate(signal) > 50 THEN "P1" ELSE "P2"
    [] signal.service = "ASYNC_QUEUE"       -> IF signal.current_lag > 100000 THEN "P1" ELSE "P2"
    [] signal.service = "NOSQL"             -> "P2"
    [] OTHER                                -> DefaultSeverity(signal)

Urgency(severity) == CASE severity = "P0" -> 3 [] severity = "P1" -> 2
                       [] severity = "P2" -> 1 [] severity = "P3" -> 0
=============================================================================
