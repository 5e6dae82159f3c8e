------------------------------ MODULE Metrics ------------------------------
(***************************************************************************)
(* PrometheusRegistry of packages/observability, and what GET /metrics     *)
(* answers.  Label sets are values, of which the policy permits some; that *)
(* two of them have different keys is the serialisation's part.  A call    *)
(* with another label set, or for a metric that is not registered, throws  *)
(* before it changes anything and is left out.                             *)
(***************************************************************************)
EXTENDS Naturals, FiniteSets, SequencesExt

CONSTANTS Labels, Allowed,
          Buckets,           \* the upper bounds histograms are registered with
          Value,             \* observed values
          MaxWrites          \* bound: how often a metric is written

Metric == [kind : {"counter", "gauge", "histogram"}, name : {"standard", "other"}]

ASSUME MetricsAssumption ==
  /\ Allowed \subseteq Labels /\ Value \subseteq Nat
  /\ Buckets \subseteq Nat /\ IsFiniteSet(Buckets)

VARIABLES
  registered,   \* the metrics, each kind in a map of its own
  values,       \* counters and gauges: by metric and labels
  records,      \* histograms: by metric and labels
  scrape,       \* the samples of the last getMetricsText
  seen          \* history: the values observed since the last reset

metricsVars == <<registered, values, records, scrape, seen>>

MetricsInit ==
  /\ registered = {m \in Metric : m.name = "standard"}
  /\ values = << >> /\ records = << >> /\ scrape = {}
  /\ seen = << >>

-----------------------------------------------------------------------------

Register(m) ==
  /\ registered' = registered \cup {m}
  /\ UNCHANGED <<values, records, scrape, seen>>

\* A Map.set.
Write(map, key, value) == [k \in DOMAIN map \cup {key} |-> IF k = key THEN value ELSE map[k]]
Lookup(map, key, default) == IF key \in DOMAIN map THEN map[key] ELSE default

Writable(m, kind, labels) == m \in registered /\ m.kind = kind /\ labels \in Allowed

IncrementCounter(m, labels) ==
  /\ Writable(m, "counter", labels)
  /\ Lookup(values, <<m, labels>>, 0) < MaxWrites
  /\ values' = Write(values, <<m, labels>>, Lookup(values, <<m, labels>>, 0) + 1)
  /\ UNCHANGED <<registered, records, scrape, seen>>

SetGauge(m, labels, value) ==
  /\ Writable(m, "gauge", labels)
  /\ values' = Write(values, <<m, labels>>, value)
  /\ UNCHANGED <<registered, records, scrape, seen>>

\* registerHistogram sorts the bounds.
Bounds == CHOOSE s \in [1..Cardinality(Buckets) -> Buckets] :
            \A i, j \in DOMAIN s : i < j => s[i] < s[j]
NewRecord == [buckets |-> [i \in DOMAIN Bounds |-> 0], sum |-> 0, count |-> 0]

\* Mutant: a value that equals an upper bound is not in the bucket.
CountedBelow(buckets, value) ==
  [i \in DOMAIN buckets |-> IF value < Bounds[i] THEN buckets[i] + 1 ELSE buckets[i]]
\* Every bucket with the value under its bound counts it, not the first only.
Counted(buckets, value) ==
  [i \in DOMAIN buckets |-> IF value <= Bounds[i] THEN buckets[i] + 1 ELSE buckets[i]]

ObserveHistogram(m, labels, value) ==
  LET record == Lookup(records, <<m, labels>>, NewRecord) IN
  /\ Writable(m, "histogram", labels)
  /\ record.count < MaxWrites
  /\ records' = Write(records, <<m, labels>>,
       [buckets |-> Counted(record.buckets, value), sum |-> record.sum + value,
        count |-> record.count + 1])
  /\ seen' = Write(seen, <<m, labels>>, Append(Lookup(seen, <<m, labels>>, << >>), value))
  /\ UNCHANGED <<registered, values, scrape>>

\* The samples of a record: the exporter adds up the buckets, +Inf is the count.
Cumulative(counts, i) == SumFunction(SubSeq(counts, 1, i))
Sample(key, kind, le, value) == [metric |-> key, kind |-> kind, le |-> le, value |-> value]
Samples(key, record) ==
  {Sample(key, "bucket", Bounds[i], Cumulative(record.buckets, i)) : i \in DOMAIN Bounds}
  \cup {Sample(key, "+Inf", 0, record.count), Sample(key, "sum", 0, record.sum),
        Sample(key, "count", 0, record.count)}

\* A metric without a value is reported as zero, with no labels.
Silent == {m \in registered : \A l \in Labels : <<m, l>> \notin DOMAIN values \cup DOMAIN records}
Zeroes(m) == IF m.kind = "histogram" THEN Samples(<<m, "none">>, NewRecord)
             ELSE {Sample(<<m, "none">>, "value", 0, 0)}

GetMetricsText ==
  /\ scrape' = (UNION {Samples(k, records[k]) : k \in DOMAIN records})
               \cup {Sample(k, "value", 0, values[k]) : k \in DOMAIN values}
               \cup (UNION {Zeroes(m) : m \in Silent})
  /\ UNCHANGED <<registered, values, records, seen>>

ResetMetrics ==
  /\ values' = << >> /\ records' = << >> /\ seen' = << >>
  /\ UNCHANGED <<registered, scrape>>

-----------------------------------------------------------------------------
MetricsNext ==
  \/ \E m \in Metric :
       \/ Register(m)
       \/ \E labels \in Labels :
            \/ IncrementCounter(m, labels)
            \/ \E value \in Value : SetGauge(m, labels, value) \/ ObserveHistogram(m, labels, value)
  \/ GetMetricsText
  \/ ResetMetrics

MetricsSpec == MetricsInit /\ [][MetricsNext]_metricsVars

-----------------------------------------------------------------------------
(* Properties                                                              *)

Observed(key, le) == Cardinality({i \in DOMAIN seen[key] : seen[key][i] <= le})

\* A scrape tells the first bucket, the sum and the count of every histogram as they
\* were observed since the last reset, and no bucket less than its cumulative count.
ScrapeIsTrue ==
  [][scrape' # scrape =>
       \A key \in DOMAIN records :
         \A sample \in {s \in scrape' : s.metric = key} :
           CASE sample.kind = "bucket" ->
                  /\ sample.value >= Observed(key, sample.le)
                  /\ sample.le = Bounds[1] => sample.value = Observed(key, sample.le)
             [] sample.kind = "sum" -> sample.value = SumFunction(seen[key])
             [] OTHER -> sample.value = Len(seen[key])]_metricsVars
=============================================================================
