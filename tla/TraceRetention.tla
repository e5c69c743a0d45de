---------------------------- MODULE TraceRetention ----------------------------
(***************************************************************************)
(* What runtime-node/src/server.ts exports of a trace the head sampler did  *)
(* not choose.  RecordUnsampledSampler records such spans all the same;     *)
(* ErrorTraceRetentionProcessor buffers them when they end and exports the  *)
(* whole trace once it shows an error or a slow request.  A capture rides   *)
(* on the active span if that span records, else on a span of its own,      *)
(* which the always-on tracer exports.                                      *)
(***************************************************************************)
EXTENDS Integers, SequencesExt

CONSTANTS
    SdkSpan, TraceOf,   \* spans, and the trace of each
    Capture,            \* calls of the capture functions
    RetainErrors,       \* retainTracesOnError
    RetainSlow,         \* retainTracesAboveMs > 0
    TraceCap,           \* RETENTION_MAX_SPANS_PER_TRACE
    BufferCap,          \* RETENTION_MAX_BUFFERED_SPANS, of spans and of traces
    TraceTTL, SweepEvery,
    MaxTraceTime,       \* bound: the clock
    NoSpan

ASSUME RetentionAssumption ==
    /\ {RetainErrors, RetainSlow} \subseteq BOOLEAN /\ (RetainErrors \/ RetainSlow)
    /\ {TraceCap, BufferCap, TraceTTL, SweepEvery} \subseteq Nat \ {0} /\ MaxTraceTime \in Nat
    /\ NoSpan \notin SdkSpan

VARIABLES
    traceTime,
    sdkSpans,       \* state, sampled flag, local root, error recorded on it
    retention,      \* traces (the Map, in its order) and bufferedSpans
    capturedOn,     \* history: the kind of each capture, the span it rides on
    forwardedSpans, \* history: how often retention forwarded a span
    forgotten       \* history: the spans it let go

retentionVars == <<traceTime, sdkSpans, retention, capturedOn, forwardedSpans, forgotten>>

SpanUnborn == [st |-> "none", sampled |-> FALSE, root |-> FALSE, error |-> FALSE]

RetentionInit ==
    /\ traceTime = 0 /\ sdkSpans = [s \in SdkSpan |-> SpanUnborn]
    /\ retention = [traces |-> <<>>, buffered |-> 0]
    /\ capturedOn = [c \in Capture |-> NoSpan]
    /\ forwardedSpans = [s \in SdkSpan |-> 0] /\ forgotten = {}

-----------------------------------------------------------------------------
(* The Map of entries `m.traces' and the count `m.buffered' of their spans. *)
EntryOf(m, t) == SelectInSeq(m.traces, LAMBDA e : e.trace = t)
BufferOf(m) == UNION {ToSet(m.traces[i].spans) : i \in DOMAIN m.traces}

(* Mutant of DropEntry: the count is not lowered. *)
DropEntryOnly(m, i) == [m EXCEPT !.traces = RemoveAt(@, i)]

(* drop() *)
DropEntry(m, i) == [traces |-> RemoveAt(m.traces, i), buffered |-> m.buffered - Len(m.traces[i].spans)]

(* entryFor(): a new trace may push out the oldest one, marker or not. *)
EntryFor(m, t) ==
    LET room == IF Len(m.traces) >= BufferCap THEN DropEntry(m, 1) ELSE m IN
    IF EntryOf(m, t) # 0 THEN m
    ELSE [room EXCEPT !.traces =
             Append(@, [trace |-> t, spans |-> <<>>, retained |-> FALSE, since |-> traceTime])]

(* Mutant of Promoted: the buffered spans are forwarded and kept. *)
PromotedKept(m, i) == [m EXCEPT !.traces[i].retained = TRUE]

(* retained = true, and flush(): the buffer of the entry is empty from now on. *)
Promoted(m, i) ==
    [traces |-> [m.traces EXCEPT ![i].retained = TRUE, ![i].spans = <<>>],
     buffered |-> m.buffered - Len(m.traces[i].spans)]

(* The span is buffered, unless its trace has its full share; then          *)
(* evictIfOverBudget(): the oldest trace that has spans goes as a whole.    *)
Push(m, i, s) ==
    LET pushed == [traces |-> [m.traces EXCEPT ![i].spans = Append(@, s)], buffered |-> m.buffered + 1] IN
    IF Len(m.traces[i].spans) >= TraceCap THEN m
    ELSE IF pushed.buffered <= BufferCap THEN pushed
    ELSE DropEntry(pushed, SelectInSeq(pushed.traces, LAMBDA e : e.spans # <<>>))

(* The entries at some places of the Map, in its order. *)
EntriesAt(entries, places) ==
    [k \in 1..Cardinality(places) |->
        entries[CHOOSE i \in places : Cardinality({j \in places : j < i}) = k - 1]]

(* sweep() *)
Swept(m, now) ==
    LET old == {i \in DOMAIN m.traces : m.traces[i].since <= now - TraceTTL} IN
    [traces |-> EntriesAt(m.traces, DOMAIN m.traces \ old),
     buffered |-> m.buffered - MapThenSumSet(LAMBDA i : Len(m.traces[i].spans), old)]

(* The buffer becomes `m'; `sent' are forwarded, with the sampled flag. *)
Retention(m, sent, ended) ==
    /\ retention' = m
    /\ forwardedSpans' = [s \in SdkSpan |-> forwardedSpans[s] + Cardinality({i \in DOMAIN sent : sent[i] = s})]
    /\ forgotten' = forgotten \cup ((BufferOf(retention) \cup ended) \ (BufferOf(m) \cup ToSet(sent)))

-----------------------------------------------------------------------------

(* spanIndicatesError(): its status, or an exception event on it. *)
IndicatesError(s, failed) == RetainErrors /\ (failed \/ sdkSpans[s].error)

(* onEnd() of a span the head sampler did not choose. *)
EndUnsampled(s, failed, slow) ==
    LET t == TraceOf[s]
        m == EntryFor(retention, t)
        i == EntryOf(m, t)
        kept == Push(m, i, s)
        healthy == IF sdkSpans[s].root /\ EntryOf(kept, t) # 0 THEN DropEntry(kept, EntryOf(kept, t)) ELSE kept
    IN  IF m.traces[i].retained THEN Retention(m, <<s>>, {s})
        ELSE IF IndicatesError(s, failed) \/ (RetainSlow /\ slow)
             THEN Retention(Promoted(m, i), Append(m.traces[i].spans, s), {s})
             ELSE Retention(healthy, <<>>, {s})

(* retainActiveTrace(): the trace of the active span, unless head-sampled. *)
RetainActiveTrace(active) ==
    IF active = NoSpan THEN Retention(retention, <<>>, {})
    ELSE IF sdkSpans[active].sampled THEN Retention(retention, <<>>, {})
    ELSE LET m == EntryFor(retention, TraceOf[active])
             i == EntryOf(m, TraceOf[active])
         IN  IF m.traces[i].retained THEN Retention(m, <<>>, {})
             ELSE Retention(Promoted(m, i), m.traces[i].spans, {})

-----------------------------------------------------------------------------
(* The tracer: LlmAwareSampler samples an LLM span whatever its parent is;  *)
(* a local root is a span without any parent.                               *)
StartSpan(s, sampled, root) ==
    /\ sdkSpans[s].st = "none"
    /\ root => \A o \in SdkSpan : TraceOf[o] = TraceOf[s] => ~sdkSpans[o].root
    /\ sdkSpans' = [sdkSpans EXCEPT ![s] = [st |-> "open", sampled |-> sampled, root |-> root, error |-> FALSE]]
    /\ UNCHANGED <<traceTime, retention,
                   capturedOn, forwardedSpans, forgotten>>

EndSpan(s, failed, slow) ==
    /\ sdkSpans[s].st = "open" /\ sdkSpans' = [sdkSpans EXCEPT ![s].st = "ended"]
    /\ \/ sdkSpans[s].sampled /\ Retention(retention, <<>>, {})
       \/ ~sdkSpans[s].sampled /\ EndUnsampled(s, failed, slow)
    /\ UNCHANGED <<traceTime, capturedOn>>

(* The span a capture is recorded on: the active one, if it records. *)
Reused(active) == IF active = NoSpan THEN NoSpan ELSE IF sdkSpans[active].st = "open" THEN active ELSE NoSpan

(* captureException() and reportOutcome() ("exception"), captureHandled()   *)
(* with its severity: a degraded fallback (a warning) retains no trace.     *)
CaptureOn(c, active, kind) ==
    /\ capturedOn[c] = NoSpan
    /\ active = NoSpan \/ (active # NoSpan /\ sdkSpans[active].st # "none")
    /\ capturedOn' = [capturedOn EXCEPT ![c] = [kind |-> kind, on |-> Reused(active)]]
    /\ sdkSpans' = [s \in SdkSpan |-> IF s = Reused(active) THEN [sdkSpans[s] EXCEPT !.error = TRUE] ELSE sdkSpans[s]]
    /\ \/ kind = "warning" /\ Retention(retention, <<>>, {})
       \/ kind # "warning" /\ RetainActiveTrace(active)
    /\ UNCHANGED <<traceTime>>

(* captureMessage(): always a span of its own. *)
CaptureMessage(c, active, kind) ==
    /\ capturedOn[c] = NoSpan
    /\ active = NoSpan \/ (active # NoSpan /\ sdkSpans[active].st # "none")
    /\ capturedOn' = [capturedOn EXCEPT ![c] = [kind |-> kind, on |-> NoSpan]]
    /\ \/ kind = "warning" /\ Retention(retention, <<>>, {})
       \/ kind = "error" /\ RetainActiveTrace(active)
    /\ UNCHANGED <<traceTime, sdkSpans>>

(* Time passes; the sweeper runs every SweepEvery. *)
TraceTick ==
    /\ traceTime < MaxTraceTime /\ traceTime' = traceTime + 1
    /\ \/ traceTime' % SweepEvery # 0
          /\ UNCHANGED <<retention, forwardedSpans, forgotten>>
       \/ traceTime' % SweepEvery = 0
          /\ Retention(Swept(retention, traceTime + 1), <<>>, {})
    /\ UNCHANGED <<sdkSpans, capturedOn>>

RetentionNext ==
    \/ \E s \in SdkSpan, a, b \in BOOLEAN : StartSpan(s, a, b) \/ EndSpan(s, a, RetainSlow /\ b)
    \/ \E c \in Capture, s \in SdkSpan \cup {NoSpan} :
          \/ \E kind \in {"exception", "error", "warning"} : CaptureOn(c, s, kind)
          \/ \E kind \in {"error", "warning"} : CaptureMessage(c, s, kind)
    \/ TraceTick

-----------------------------------------------------------------------------
RetentionTypeOK ==
    /\ \A s \in SdkSpan : sdkSpans[s].st \in {"none", "open", "ended"}
    /\ \A i \in DOMAIN retention.traces : Len(retention.traces[i].spans) <= TraceCap
    /\ Len(retention.traces) <= BufferCap /\ retention.buffered <= BufferCap
    /\ retention.buffered \in Nat

(* A span that ended unsampled is in one place: the buffer of its trace, or *)
(* forwarded once, or let go; a retained trace buffers nothing, and the     *)
(* count of buffered spans is exact, whatever was evicted, swept, promoted. *)
SpansInOnePlace ==
    /\ \A s \in SdkSpan : ~sdkSpans[s].sampled /\ sdkSpans[s].st = "ended" =>
          forwardedSpans[s] + (IF s \in BufferOf(retention) THEN 1 ELSE 0) + (IF s \in forgotten THEN 1 ELSE 0) = 1
    /\ retention.buffered = Cardinality(BufferOf(retention))
    /\ \A i \in DOMAIN retention.traces : retention.traces[i].retained => retention.traces[i].spans = <<>>

(* runtime-node/README.md:211: captured exceptions leave at 100 %.  One that *)
(* rides on a request's span is exported with it, although the sampler did   *)
(* not choose it, and although its trace was evicted or expired meanwhile.   *)
ExceptionsExported ==
    \A c \in Capture : capturedOn[c] # NoSpan =>
        LET on == capturedOn[c].on IN
        capturedOn[c].kind = "exception" /\ on # NoSpan =>
            sdkSpans[on].st = "open" \/ sdkSpans[on].sampled \/ forwardedSpans[on] > 0
=============================================================================
