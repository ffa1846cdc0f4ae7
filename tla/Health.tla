-------------------------------- MODULE Health --------------------------------
(***************************************************************************)
(* The scored reports of src/diagnostics/health.cpp.  Each evaluation is a *)
(* list of checks in the order of the code; a check is << >> when it       *)
(* passes, else the one signal it raises.  Wording is left out.            *)
(***************************************************************************)
EXTENDS Integers, Sequences, SequencesExt, FiniteSetsExt

Rank(level) == CASE level = "healthy" -> 0 [] level = "degraded" -> 1 [] level = "failed" -> 2

Combine(a, b) == IF Rank(a) >= Rank(b) THEN a ELSE b

Signal(code, level, weight) == [ code |-> code, level |-> level, weight |-> weight ]

Check(raised, code, level, weight) == IF raised THEN << Signal(code, level, weight) >> ELSE << >>

CappedWeight(count, each, cap) == Min({ count * each, cap })

-----------------------------------------------------------------------------
(* record_healthy, add_signal, finalize_report *)

Fresh ==
  [ level |-> "healthy", score |-> 100, healthy |-> 0, degraded |-> 0, failed |-> 0,
    signals |-> << >> ]

(* No signal weighs nothing and none is healthy. *)
AddSignal(report, signal) ==
  [ report EXCEPT
      !.signals = Append(@, signal),
      !.level = Combine(@, signal.level),
      !.score = Max({ 0, @ - signal.weight }),
      !.failed = @ + (IF signal.level = "failed" THEN 1 ELSE 0),
      !.degraded = @ + (IF signal.level = "degraded" THEN 1 ELSE 0) ]

AddCheck(report, check) ==
  IF check = << >> THEN [ report EXCEPT !.healthy = @ + 1 ] ELSE AddSignal(report, check[1])

(* The level follows the checks and bounds the score. *)
Finalize(report) ==
  IF report.failed # 0 THEN [ report EXCEPT !.level = "failed", !.score = Min({ @, 49 }) ]
  ELSE IF report.degraded # 0 THEN [ report EXCEPT !.level = "degraded", !.score = Min({ @, 89 }) ]
  ELSE [ report EXCEPT !.level = "healthy", !.score = Max({ @, 90 }) ]

Evaluated(checks) == Finalize(FoldLeft(AddCheck, Fresh, checks))

-----------------------------------------------------------------------------
(* evaluate_stream_health, with the default options, from the numbers of   *)
(* an inspection.                                                          *)
StreamHealth(frames, dataFrames, errors, decoderErrors, warnings, eof, payloadBytes, bytes) ==
  Evaluated(<<
    Check(frames = 0, "stream_empty", "failed", 35),
    Check(errors > 0,
          IF decoderErrors > 0 THEN "stream_decoder_errors" ELSE "stream_policy_errors",
          "failed", CappedWeight(errors, 18, 60)),
    Check(warnings > 8, "stream_warnings", "degraded", CappedWeight(warnings - 8, 3, 18)),
    Check(~ eof, "stream_eof_missing", "degraded", 8),
    Check(frames # 0 /\ dataFrames = 0, "stream_control_only", "degraded", 5),
    Check(bytes # 0 /\ (payloadBytes * 100) \div bytes > 85,
          "stream_payload_pressure", "degraded", 7) >>)

(* Mutant: diagnostics raise no signal. *)
DiagnosticsCheckNone(summary) == << >>

DiagnosticsCheck(summary) ==
  Check(summary.diagnostics # 0, "connection_diagnostics", "degraded",
        CappedWeight(summary.diagnostics, 4, 24))

(* evaluate_connection_health, with the default options. *)
ConnectionHealth(summary) ==
  IF summary.total = 0 THEN Evaluated(<< Check(TRUE, "connection_not_negotiated", "failed", 40) >>)
  ELSE Evaluated(<<
    Check(summary.negotiated = 0, "connection_not_negotiated", "failed", 30),
    Check(summary.payload_bytes # 0 /\ summary.delivered = 0,
          "connection_no_delivery", "degraded", 12),
    DiagnosticsCheck(summary),
    Check(summary.resets # 0, "connection_resets", "degraded", CappedWeight(summary.resets, 5, 20)),
    Check(summary.closed # 0 /\ summary.delivered = 0, "connection_closed", "degraded", 8),
    Check(summary.timers > summary.total \div 2 /\ summary.timers > 2,
          "connection_timer_pressure", "degraded", CappedWeight(summary.timers, 2, 18)) >>)

(* evaluate_route_policy_health, with the default options, for a policy of *)
(* which validation has so many complaints and otherwise so many routes go *)
(* back to their source or have no payload, and so many families more than *)
(* one route.  That there are routes, and how many, is never complained    *)
(* of: validation refuses a policy without any.                            *)
PolicyHealth(complaints, loopbacks, emptyPayloads, sharedFamilies) ==
  IF complaints > 0
  THEN Evaluated([ i \in 1 .. complaints |-> Check(TRUE, "route_policy_invalid", "failed", 25) ])
  ELSE Evaluated(
    << << >>, << >>, << >> >>
      \o (IF loopbacks = 0 THEN << << >> >>
          ELSE [ i \in 1 .. loopbacks |-> Check(TRUE, "route_policy_loopback", "failed", 20) ])
      \o << Check(emptyPayloads # 0, "route_policy_sparse", "degraded",
                  CappedWeight(emptyPayloads, 3, 15)),
            Check(sharedFamilies # 0, "route_policy_duplicate_family", "degraded",
                  CappedWeight(sharedFamilies, 2, 10)) >>)

(* merge_health_reports *)
Merge(reports) ==
  LET Total(field(_)) == FoldLeft(LAMBDA sum, r : sum + field(r), 0, reports)
      failed   == Total(LAMBDA r : r.failed)
      degraded == Total(LAMBDA r : r.degraded)
      merged ==
        [ level    |-> FoldLeft(LAMBDA level, r : Combine(level, r.level), "healthy", reports),
          score    |-> Total(LAMBDA r : r.score) \div Len(reports),
          healthy  |-> Total(LAMBDA r : r.healthy),
          degraded |-> degraded, failed |-> failed,
          signals  |-> FlattenSeq([ i \in DOMAIN reports |-> reports[i].signals ]) ]
  IN
  IF reports = << >> THEN Evaluated(<< Check(TRUE, "aggregate_failure", "failed", 50) >>)
  ELSE Finalize(AddCheck(merged,
         IF failed # 0 THEN Check(TRUE, "aggregate_failure", "failed", 10)
         ELSE Check(degraded # 0, "aggregate_failure", "degraded", 4)))

-----------------------------------------------------------------------------
(* filter_health_signals, summarize_health_signals *)

AtLeast(report, level) == SelectSeq(report.signals, LAMBDA s : Rank(s.level) >= Rank(level))

Bucket(report, code) ==
  LET signals == SelectSeq(report.signals, LAMBDA s : s.code = code) IN
  [ code |-> code, count |-> Len(signals),
    strongest |-> FoldLeft(LAMBDA level, s : Combine(level, s.level), "healthy", signals),
    weight |-> FoldLeft(LAMBDA sum, s : sum + s.weight, 0, signals) ]

(* One bucket per code, the strongest and heaviest first (equal ones in    *)
(* the order of their codes, which is left open here).                     *)
Buckets(report) ==
  LET codes == { s.code : s \in Range(report.signals) }
      Before(b, c) == IF b.strongest # c.strongest THEN Rank(b.strongest) > Rank(c.strongest)
                      ELSE b.weight > c.weight
  IN  SetToSortSeq({ Bucket(report, code) : code \in codes }, Before)

(* What every report promises its readers: its level is that of its        *)
(* strongest signal, the score lies in the band of the level, each check   *)
(* that failed or degraded it has left its signal, and the buckets count   *)
(* every signal once, those of the level of the report first.              *)
Coherent(report) ==
  LET buckets == Buckets(report) IN
  /\ report.level = FoldLeft(LAMBDA level, s : Combine(level, s.level), "healthy", report.signals)
  /\ report.score \in CASE report.level = "healthy"  -> 90 .. 100
                        [] report.level = "degraded" -> 0 .. 89
                        [] report.level = "failed"   -> 0 .. 49
  /\ Len(AtLeast(report, "failed")) = report.failed
  /\ Len(AtLeast(report, "degraded")) = report.failed + report.degraded
  /\ FoldLeft(LAMBDA sum, b : sum + b.count, 0, buckets) = Len(report.signals)
  /\ report.signals # << >> => buckets[1].strongest = report.level
=============================================================================
