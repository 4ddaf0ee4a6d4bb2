------------------------------ MODULE Exporter ------------------------------
(***************************************************************************)
(* The metric exporter, pkg/metrics/exporter.go: on every tick it takes    *)
(* the aggregations of an aggregator and sends them to a backend, or       *)
(* updates a Prometheus gauge for each key.                                *)
(*                                                                         *)
(* The format may be changed at any time. A read of it that races with a   *)
(* change may see anything, which is as if the format had been unknown for *)
(* a while. The client for InfluxDB and the server for Prometheus are      *)
(* there only if that was the format at the beginning: without the one an  *)
(* export fails, without the other nobody can read the gauges; neither     *)
(* changes what is modelled here.                                          *)
(*                                                                         *)
(* The registry of client_golang panics when a gauge is registered under a *)
(* name that is taken or not valid.  Sanitizing may make one name of two   *)
(* keys, and leaves most characters that are not valid as they are.        *)
(***************************************************************************)
EXTENDS FiniteSets

CONSTANTS
  Keys          \* the keys of the aggregator

VARIABLES
  aggregations, \* the keys the aggregator has aggregations of; read only
  names,        \* the sanitized name of each key, or "invalid"
  format,       \* e.format
  exporting,    \* what Start is at
  snapshot,     \* the keys of the export under way
  gauges,       \* e.metrics: the keys that have a gauge
  panicked      \* did an export panic, and end the process?

vars == <<names, format, exporting, snapshot, gauges, panicked>>

(* The formats.  One that export does not know is an error, which leaves   *)
(* nothing behind: it is like "json" here.                                 *)
Format == {"json", "prometheus", "influxdb"}

(* The names there are: two keys have the same one or not, and one may not *)
(* be valid.                                                               *)
Naming == [Keys -> Keys \cup {"invalid"}]

TypeOK ==
  /\ aggregations \subseteq Keys
  /\ names \in Naming
  /\ format \in Format
  /\ panicked \in BOOLEAN
  /\ exporting \in {"new", "waiting", "export", "returned"}
  /\ snapshot \subseteq Keys /\ gauges \subseteq Keys

(* NewExporter.                                                            *)
Init ==
  /\ names \in Naming
  /\ format \in Format
  /\ exporting = "new" /\ snapshot = {}
  /\ gauges = {} /\ panicked = FALSE
-----------------------------------------------------------------------------
Start ==
  /\ exporting = "new"
  /\ exporting' = "waiting"
  /\ UNCHANGED <<names, format, snapshot, gauges, panicked>>

(* The ticker fires, and export takes the aggregations there are ...       *)
Tick ==
  /\ exporting = "waiting"
  /\ exporting' = "export"
  /\ snapshot' = aggregations
  /\ UNCHANGED <<names, format, gauges, panicked>>

Sent ==
  /\ exporting' = "waiting" /\ snapshot' = {}
  /\ UNCHANGED <<names, format, gauges, panicked>>

(* ... to send them away in one request, or key by key until one fails.    *)
(* Neither an error nor what was sent is kept.                             *)
ExportJSON == exporting = "export" /\ format = "json" /\ Sent

ExportInfluxDB == exporting = "export" /\ format = "influxdb" /\ Sent

(* Registering all of keys panics.                                         *)
Unregistrable(keys) ==
  \E k \in keys :
    names[k] = "invalid" \/ \E l \in keys \ {k} : names[l] = names[k]

(* Mutant: new keys are looked for in the first export only.               *)
UpdatePrometheusMetrics_Once ==
  /\ exporting = "export" /\ format = "prometheus"
  /\ IF Unregistrable(snapshot)
     THEN panicked' = TRUE /\ UNCHANGED <<gauges, exporting, snapshot>>
     ELSE /\ gauges' = IF gauges = {} THEN snapshot ELSE gauges
          /\ exporting' = "waiting" /\ snapshot' = {}
          /\ UNCHANGED panicked
  /\ UNCHANGED <<names, format>>

(* ... or to update their gauges, creating those that are missing: one     *)
(* whose name is taken or not valid ends the process.  The gauges of keys  *)
(* that are no longer there stay as they are.                              *)
UpdatePrometheusMetrics ==
  /\ exporting = "export" /\ format = "prometheus"
  /\ IF Unregistrable(gauges \cup snapshot)
     THEN panicked' = TRUE /\ UNCHANGED <<gauges, exporting, snapshot>>
     ELSE /\ gauges' = gauges \cup snapshot
          /\ exporting' = "waiting" /\ snapshot' = {}
          /\ UNCHANGED panicked
  /\ UNCHANGED <<names, format>>

SetExportFormat(f) ==
  /\ f # format
  /\ format' = f
  /\ UNCHANGED <<names, exporting, snapshot, gauges, panicked>>

(* The context of Start is done between two exports.                       *)
Return ==
  /\ exporting = "waiting"
  /\ exporting' = "returned"
  /\ UNCHANGED <<names, format, snapshot, gauges, panicked>>

Exporting ==
  Tick \/ ExportJSON \/ ExportInfluxDB \/ UpdatePrometheusMetrics

Next ==
  /\ ~ panicked
  /\ \/ Start \/ Exporting \/ Return
     \/ \E f \in Format : SetExportFormat(f)

(* The ticker goes on firing, and exports end: the HTTP client has a       *)
(* timeout.                                                                *)
Fairness == WF_vars(~ panicked /\ Exporting)
-----------------------------------------------------------------------------
(* Under the Prometheus format every key the aggregator has gets its       *)
(* gauge, those that come late included, unless it is cleared before, or   *)
(* the names of the keys end the process.                                  *)
Exported ==
  \A k \in Keys :
    exporting # "new" /\ format = "prometheus" /\ k \in aggregations
      ~> \/ k \in gauges \/ k \notin aggregations
         \/ format # "prometheus" \/ exporting = "returned"
         \/ panicked /\ Unregistrable(Keys)
=============================================================================
