------------------------------ MODULE MCRcaGraph ------------------------------
(* One run with evidence for one or two of the three roles; an id that is  *)
(* not among the run's evidence is what a model may invent.                *)
EXTENDS RcaGraph, TLC

CONSTANTS m, t

Metrics == "metrics"
LogsTrace == "logs_trace"
Change == "change"

MCRole == {Metrics, LogsTrace, Change}
MCRoleOf == m :> Metrics @@ t :> LogsTrace
===============================================================================
