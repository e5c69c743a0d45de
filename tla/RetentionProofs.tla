---------------------------- MODULE RetentionProofs ----------------------------
(***************************************************************************)
(* The buffers of spans of the two server SDKs: the trace retention of the   *)
(* Node SDK and the tail processor of the Python adapter.  No span is in two  *)
(* places or gone without being counted as dropped, for any traces, spans,   *)
(* bounds and workers.                                                       *)
(***************************************************************************)
EXTENDS TraceRetention, PythonTracing, SumLemmas

-----------------------------------------------------------------------------
(***************************************************************************)
(* The trace retention of the Node SDK.                                     *)
(***************************************************************************)
RetentionSpec == RetentionInit /\ [][RetentionNext]_retentionVars

RetentionEntry == [trace : {TraceOf[s] : s \in SdkSpan}, spans : Seq(SdkSpan), retained : BOOLEAN, since : Nat]
SpanState == [st : {"none", "open", "ended"}, sampled : BOOLEAN, root : BOOLEAN, error : BOOLEAN]

(* A buffer of the processor: its count is that of the spans it holds.       *)
BufferSound(m) ==
    /\ m \in [traces : Seq(RetentionEntry), buffered : Int]
    /\ TidyEntries(m.traces, TraceOf)
    /\ IsFiniteSet(BufferOf(m)) /\ m.buffered = Cardinality(BufferOf(m)) /\ Len(m.traces) <= BufferCap
    /\ \A i \in DOMAIN m.traces : Len(m.traces[i].spans) <= TraceCap

EndedUnsampled(s) == sdkSpans[s].st = "ended" /\ ~sdkSpans[s].sampled

(* Where each span is that has ended unsampled; the others are nowhere.      *)
RetentionPlaces ==
    \A s \in SdkSpan :
        forwardedSpans[s] + (IF s \in BufferOf(retention) THEN 1 ELSE 0) + (IF s \in forgotten THEN 1 ELSE 0)
            = IF EndedUnsampled(s) THEN 1 ELSE 0

(* A capture marks the span it rides on, and a marked span is forwarded when  *)
(* it ends, whatever became of its trace.                                    *)
CapturesRide ==
    /\ DOMAIN capturedOn = Capture
    /\ \A c \in Capture : capturedOn[c] # NoSpan =>
          LET on == capturedOn[c].on IN
          on # NoSpan => on \in SdkSpan /\ sdkSpans[on].st # "none" /\ sdkSpans[on].error
MarkedForwarded ==
    RetainErrors => \A s \in SdkSpan : EndedUnsampled(s) /\ sdkSpans[s].error => forwardedSpans[s] > 0

RetentionInv ==
    /\ traceTime \in Nat /\ sdkSpans \in [SdkSpan -> SpanState]
    /\ BufferSound(retention) /\ retention.buffered <= BufferCap
    /\ forwardedSpans \in [SdkSpan -> Nat] /\ RetentionPlaces /\ CapturesRide /\ MarkedForwarded

LEMMA BufferIsHeld == ASSUME NEW m PROVE BufferOf(m) = SpansHeld(m.traces)
  BY DEF BufferOf, SpansHeld, SpansHeldAt

LEMMA EntryFacts ==
    ASSUME NEW m, BufferSound(m), NEW i \in DOMAIN m.traces
    PROVE  /\ i \in 1..Len(m.traces) /\ Len(m.traces) \in Nat /\ m.traces[i] \in RetentionEntry
           /\ m.traces[i].spans \in Seq(SdkSpan) /\ Injective(m.traces[i].spans)
           /\ IsFiniteSet(ToSet(m.traces[i].spans))
           /\ Cardinality(ToSet(m.traces[i].spans)) = Len(m.traces[i].spans)
           /\ ToSet(m.traces[i].spans) \subseteq BufferOf(m)
           /\ m.buffered \in Nat
<1>1. m.traces \in Seq(RetentionEntry)
  BY DEF BufferSound
<1>2. i \in 1..Len(m.traces) /\ Len(m.traces) \in Nat /\ m.traces[i] \in RetentionEntry
  BY <1>1, ElementOfSeq
<1>3. m.traces[i].spans \in Seq(SdkSpan)
  BY <1>2 DEF RetentionEntry
<1>4. Injective(m.traces[i].spans)
  BY DEF BufferSound, TidyEntries, EntryTidy
<1>5. /\ IsFiniteSet(ToSet(m.traces[i].spans))
      /\ Cardinality(ToSet(m.traces[i].spans)) = Len(m.traces[i].spans)
  BY <1>3, <1>4, InjectiveCount
<1>6. ToSet(m.traces[i].spans) \subseteq BufferOf(m)
  BY DEF BufferOf
<1>7. m.buffered \in Nat
  BY FS_CardinalityType DEF BufferSound
<1> QED
  BY <1>2, <1>3, <1>4, <1>5, <1>6, <1>7

(* An entry that goes takes its spans along. *)
LEMMA DropEntryFacts ==
    ASSUME NEW m, BufferSound(m), NEW i \in DOMAIN m.traces
    PROVE  /\ BufferSound(DropEntry(m, i)) /\ Len(DropEntry(m, i).traces) = Len(m.traces) - 1
           /\ BufferOf(DropEntry(m, i)) = BufferOf(m) \ ToSet(m.traces[i].spans)
           /\ DropEntry(m, i).buffered = m.buffered - Len(m.traces[i].spans)
           /\ \A j \in DOMAIN DropEntry(m, i).traces : \E k \in DOMAIN m.traces \ {i} :
                 DropEntry(m, i).traces[j] = m.traces[k]
<1> DEFINE q == m.traces
           r == RemoveAt(q, i)
           g == [j \in DOMAIN r |-> IF j < i THEN j ELSE j + 1]
           n == DropEntry(m, i)
<1>1. q \in Seq(RetentionEntry) /\ TidyEntries(q, TraceOf) /\ i \in 1..Len(q) /\ Len(q) \in Nat /\ DOMAIN q = 1..Len(q)
  BY EntryFacts DEF BufferSound
<1>2. /\ r \in Seq(RetentionEntry) /\ Len(r) = Len(q) - 1
      /\ \A j \in 1..Len(q) - 1 : r[j] = IF j < i THEN q[j] ELSE q[j + 1]
  BY <1>1, RemoveAtFacts
<1> HIDE DEF q, r
<1>3. DOMAIN r = 1..Len(q) - 1
  BY <1>1, <1>2
<1>4. /\ g \in [DOMAIN r -> DOMAIN q] /\ \A k, l \in DOMAIN r : g[k] = g[l] => k = l
      /\ \A k \in DOMAIN r : r[k] = q[g[k]] /\ g[k] # i
  BY <1>1, <1>2, <1>3
<1>5. {g[k] : k \in DOMAIN r} = DOMAIN q \ {i}
  <2>1. ASSUME NEW j \in DOMAIN q \ {i} PROVE \E k \in DOMAIN r : g[k] = j
    <3>1. CASE j < i
      BY <1>1, <1>3, <3>1
    <3>2. CASE ~(j < i)
      <4>1. j - 1 \in DOMAIN r /\ ~(j - 1 < i) /\ j - 1 + 1 = j
        BY <1>1, <1>3, <3>2
      <4>2. g[j - 1] = j
        BY <4>1
      <4> QED
        BY <4>1, <4>2
    <3> QED
      BY <3>1, <3>2
  <2> HIDE DEF g
  <2> QED
    BY <1>4, <2>1
<1>6. TidyEntries(r, TraceOf) /\ SpansHeld(r) = SpansHeldAt(q, DOMAIN q \ {i})
  <2> HIDE DEF g
  <2>1. (\A k, l \in DOMAIN r : g[k] = g[l] => k = l) /\ \A k \in DOMAIN r : r[k] = q[g[k]]
    BY <1>4
  <2>0. g \in [DOMAIN r -> DOMAIN q] /\ TidyEntries(q, TraceOf)
    BY <1>1, <1>4
  <2>2. TidyEntries(r, TraceOf) /\ SpansHeld(r) = SpansHeldAt(q, {g[k] : k \in DOMAIN r})
    BY <2>0, <2>1, SomeOfTidy
  <2> QED
    BY <1>5, <2>2
<1>7. SpansHeldAt(q, DOMAIN q \ {i}) = SpansHeld(q) \ SpansHeldAt(q, {i}) /\ SpansHeldAt(q, {i}) = ToSet(q[i].spans)
  <2>1. {i} \in SUBSET (DOMAIN q)
    BY <1>1
  <2>2. SpansHeldAt(q, {i}) = ToSet(q[i].spans)
    BY DEF SpansHeldAt
  <2> QED
    BY <1>1, <2>1, <2>2, HeldLess
<1>8. n.traces = r /\ n.buffered = m.buffered - Len(q[i].spans) /\ n = [traces |-> r, buffered |-> n.buffered]
  BY DEF DropEntry, q, r
<1>9. BufferOf(n) = BufferOf(m) \ ToSet(q[i].spans)
  BY <1>6, <1>7, <1>8, BufferIsHeld DEF q
<1>10. /\ IsFiniteSet(BufferOf(m)) /\ m.buffered = Cardinality(BufferOf(m)) /\ m.buffered \in Nat
       /\ ToSet(q[i].spans) \subseteq BufferOf(m) /\ Cardinality(ToSet(q[i].spans)) = Len(q[i].spans)
       /\ Len(q[i].spans) \in Nat /\ Len(q) <= BufferCap
  BY EntryFacts DEF q, BufferSound
<1>11. IsFiniteSet(BufferOf(n)) /\ n.buffered = Cardinality(BufferOf(n))
  <2>1. BufferOf(m) \cap ToSet(q[i].spans) = ToSet(q[i].spans)
    BY <1>10
  <2>2. /\ IsFiniteSet(BufferOf(m) \ ToSet(q[i].spans))
        /\ Cardinality(BufferOf(m) \ ToSet(q[i].spans))
              = Cardinality(BufferOf(m)) - Cardinality(BufferOf(m) \cap ToSet(q[i].spans))
    BY <1>10, FS_Difference
  <2> QED
    BY <1>8, <1>9, <1>10, <2>1, <2>2
<1>12. \A j \in DOMAIN r : \E k \in DOMAIN q \ {i} : r[j] = q[k]
  <2> HIDE DEF g
  <2> QED
    BY <1>4
<1>13. \A j \in DOMAIN n.traces : Len(n.traces[j].spans) <= TraceCap
  BY <1>8, <1>12 DEF BufferSound, q
<1>14. n \in [traces : Seq(RetentionEntry), buffered : Int]
  BY <1>2, <1>8, <1>10
<1>15. Len(n.traces) <= BufferCap
  BY <1>1, <1>2, <1>8, <1>10, RetentionAssumption
<1>16. BufferSound(n)
  BY <1>6, <1>8, <1>11, <1>13, <1>14, <1>15 DEF BufferSound
<1> QED
  BY <1>2, <1>8, <1>9, <1>12, <1>16 DEF q

(* Where the entry of a trace is, if it has one.                             *)
LEMMA EntryOfFacts ==
    ASSUME NEW m, m.traces \in Seq(RetentionEntry), NEW t
    PROVE  \/ EntryOf(m, t) = 0 /\ \A i \in DOMAIN m.traces : m.traces[i].trace # t
           \/ EntryOf(m, t) # 0 /\ EntryOf(m, t) \in DOMAIN m.traces /\ m.traces[EntryOf(m, t)].trace = t
<1> DEFINE q == m.traces
           I == {i \in 1..Len(q) : q[i].trace = t}
<1>1. EntryOf(m, t) = IF I # {} THEN Min(I) ELSE 0
  BY DEF EntryOf, SelectInSeq
<1>2. DOMAIN q = 1..Len(q) /\ I \in SUBSET Nat /\ Len(q) \in Nat
  OBVIOUS
<1>3. CASE I = {}
  BY <1>1, <1>2, <1>3
<1>4. CASE I # {}
  <2>1. Min(I) \in I
    <3> HIDE DEF I
    <3> QED
      BY <1>2, <1>4, MinIsLeast
  <2> QED
    BY <1>1, <1>2, <1>4, <2>1
<1> QED
  BY <1>3, <1>4

(* entryFor(): the trace has an entry, and no span is new.                   *)
LEMMA EntryForFacts ==
    ASSUME NEW m, BufferSound(m), NEW t \in {TraceOf[s] : s \in SdkSpan}, traceTime \in Nat
    PROVE  /\ BufferSound(EntryFor(m, t)) /\ BufferOf(EntryFor(m, t)) \subseteq BufferOf(m)
           /\ EntryFor(m, t).buffered <= m.buffered
           /\ EntryOf(EntryFor(m, t), t) \in DOMAIN EntryFor(m, t).traces
           /\ EntryFor(m, t).traces[EntryOf(EntryFor(m, t), t)].trace = t
<1> DEFINE n == EntryFor(m, t)
           room == IF Len(m.traces) >= BufferCap THEN DropEntry(m, 1) ELSE m
           e == [trace |-> t, spans |-> <<>>, retained |-> FALSE, since |-> traceTime]
<1>1. m.traces \in Seq(RetentionEntry) /\ Len(m.traces) \in Nat /\ Len(m.traces) <= BufferCap /\ m.buffered \in Nat
  BY FS_CardinalityType DEF BufferSound
<1>2. CASE EntryOf(m, t) # 0
  <2>1. n = m
    BY <1>2 DEF EntryFor
  <2>2. EntryOf(m, t) \in DOMAIN m.traces /\ m.traces[EntryOf(m, t)].trace = t
    BY <1>1, <1>2, EntryOfFacts
  <2> HIDE DEF n
  <2>3. BufferSound(n) /\ BufferOf(n) \subseteq BufferOf(m) /\ EntryOf(n, t) \in DOMAIN n.traces
        /\ n.traces[EntryOf(n, t)].trace = t /\ n.buffered <= m.buffered
    BY <1>1, <2>1, <2>2
  <2> QED
    BY <2>3 DEF n
<1>3. CASE EntryOf(m, t) = 0
  <2>1. \A i \in DOMAIN m.traces : m.traces[i].trace # t
    BY <1>1, <1>3, EntryOfFacts
  <2>2. /\ BufferSound(room) /\ BufferOf(room) \subseteq BufferOf(m) /\ Len(room.traces) < BufferCap
        /\ room.buffered <= m.buffered
        /\ \A i \in DOMAIN room.traces : room.traces[i].trace # t
    <3>1. CASE Len(m.traces) >= BufferCap
      <4>1. 1 \in DOMAIN m.traces /\ BufferCap \in Nat
        BY <1>1, <3>1, RetentionAssumption
      <4>2. /\ BufferSound(DropEntry(m, 1)) /\ Len(DropEntry(m, 1).traces) = Len(m.traces) - 1
            /\ BufferOf(DropEntry(m, 1)) = BufferOf(m) \ ToSet(m.traces[1].spans)
            /\ \A j \in DOMAIN DropEntry(m, 1).traces : \E k \in DOMAIN m.traces \ {1} :
                  DropEntry(m, 1).traces[j] = m.traces[k]
        BY <4>1, DropEntryFacts
      <4>3. \A i \in DOMAIN DropEntry(m, 1).traces : DropEntry(m, 1).traces[i].trace # t
        BY <2>1, <4>2
      <4>4. DropEntry(m, 1).buffered <= m.buffered
        BY <4>1, DropEntryFacts, EntryFacts, <1>1
      <4> QED
        BY <1>1, <3>1, <4>1, <4>2, <4>3, <4>4
    <3>2. CASE ~(Len(m.traces) >= BufferCap)
      BY <1>1, <3>2, RetentionAssumption, <2>1
    <3> QED
      BY <3>1, <3>2
  <2>3. n = [room EXCEPT !.traces = Append(@, e)]
    BY <1>3 DEF EntryFor
  <2> HIDE DEF room, n
  <2>4. room \in [traces : Seq(RetentionEntry), buffered : Int] /\ TidyEntries(room.traces, TraceOf)
    BY <2>2 DEF BufferSound
  <2>5. e \in RetentionEntry /\ e.spans = <<>> /\ e.trace = t
    BY DEF RetentionEntry
  <2> HIDE DEF e
  <2>6. n.traces = Append(room.traces, e) /\ n.buffered = room.buffered
        /\ n \in [traces : Seq(RetentionEntry), buffered : Int]
    <3>1. \A a \in Seq(RetentionEntry) : \A r \in [traces : Seq(RetentionEntry), buffered : Int] :
             /\ [r EXCEPT !.traces = a].traces = a /\ [r EXCEPT !.traces = a].buffered = r.buffered
             /\ [r EXCEPT !.traces = a] \in [traces : Seq(RetentionEntry), buffered : Int]
      OBVIOUS
    <3>2. room.traces \in Seq(RetentionEntry) /\ n = [room EXCEPT !.traces = Append(room.traces, e)]
      BY <2>3, <2>4
    <3>3. Append(room.traces, e) \in Seq(RetentionEntry)
      BY <2>5, <3>2
    <3> QED
      BY <2>4, <3>1, <3>2, <3>3
  <2>7. TidyEntries(n.traces, TraceOf) /\ SpansHeld(n.traces) = SpansHeld(room.traces)
    BY <2>2, <2>4, <2>5, <2>6, AppendTidy
  <2>8. BufferOf(n) = BufferOf(room)
    BY <2>7, BufferIsHeld
  <2>9. /\ Len(n.traces) = Len(room.traces) + 1 /\ n.traces[Len(n.traces)] = e
        /\ \A i \in 1..Len(room.traces) : n.traces[i] = room.traces[i]
    BY <2>4, <2>5, <2>6, AppendProperties
  <2>10. Len(room.traces) \in Nat /\ DOMAIN n.traces = 1..Len(room.traces) + 1 /\ DOMAIN room.traces = 1..Len(room.traces)
    BY <2>4, <2>6, <2>9
  <2>11. \A i \in DOMAIN n.traces : Len(n.traces[i].spans) <= TraceCap
    <3>1. ASSUME NEW i \in 1..Len(room.traces) PROVE Len(n.traces[i].spans) <= TraceCap
      BY <2>2, <2>9, <2>10 DEF BufferSound
    <3>2. Len(n.traces[Len(room.traces) + 1].spans) <= TraceCap
      BY <2>5, <2>9, RetentionAssumption
    <3> QED
      BY <2>10, <3>1, <3>2
  <2>12. Len(n.traces) <= BufferCap
    BY <2>2, <2>9, <2>10, RetentionAssumption
  <2>13. BufferSound(n)
    BY <2>2, <2>6, <2>7, <2>8, <2>11, <2>12 DEF BufferSound
  <2>14. \E i \in DOMAIN n.traces : n.traces[i].trace = t
    BY <2>5, <2>9, <2>10
  <2>15. EntryOf(n, t) \in DOMAIN n.traces /\ n.traces[EntryOf(n, t)].trace = t
    BY <2>6, <2>14, EntryOfFacts
  <2> QED
    BY <2>2, <2>6, <2>8, <2>13, <2>15 DEF n
<1> QED
  BY <1>2, <1>3

(* flush(): what the entry held is in no buffer any more. *)
LEMMA PromotedFacts ==
    ASSUME NEW m, BufferSound(m), NEW i \in DOMAIN m.traces
    PROVE  /\ BufferSound(Promoted(m, i)) /\ Promoted(m, i).buffered <= m.buffered
           /\ BufferOf(Promoted(m, i)) = BufferOf(m) \ ToSet(m.traces[i].spans)
<1> DEFINE q == m.traces
           n == Promoted(m, i)
           e == [q[i] EXCEPT !.retained = TRUE, !.spans = <<>>]
           r == [q EXCEPT ![i] = e]
<1>1. /\ q \in Seq(RetentionEntry) /\ TidyEntries(q, TraceOf) /\ i \in 1..Len(q) /\ q[i] \in RetentionEntry
      /\ m.buffered \in Nat /\ Cardinality(ToSet(q[i].spans)) = Len(q[i].spans)
      /\ ToSet(q[i].spans) \subseteq BufferOf(m) /\ q[i].spans \in Seq(SdkSpan)
      /\ IsFiniteSet(BufferOf(m)) /\ m.buffered = Cardinality(BufferOf(m))
      /\ Len(q) \in Nat /\ Len(q) <= BufferCap
  BY EntryFacts DEF BufferSound
<1> HIDE DEF q
<1>2. e \in RetentionEntry /\ e.retained /\ e.spans = <<>> /\ e.trace = q[i].trace
  BY EmptySeq, <1>1 DEF RetentionEntry
<1>3. n.traces = r /\ n.buffered = m.buffered - Len(q[i].spans) /\ n = [traces |-> r, buffered |-> n.buffered]
  BY <1>1 DEF Promoted, q
<1> HIDE DEF e, n
<1>4. /\ r \in Seq(RetentionEntry) /\ DOMAIN r = DOMAIN q /\ Len(r) = Len(q) /\ r[i] = e
      /\ \A j \in DOMAIN q \ {i} : r[j] = q[j]
  BY <1>1, <1>2
<1> HIDE DEF r
<1>5. DOMAIN e.spans = {} /\ ToSet(e.spans) = {}
  <2>1. DOMAIN e.spans = {}
    BY <1>2
  <2> QED
    BY <2>1 DEF ToSet, Range
<1>6. EntryTidy(e, TraceOf)
  BY <1>2, <1>5 DEF Injective, EntryTidy
<1>7. TidyEntries(r, TraceOf) /\ SpansHeld(r) = (SpansHeld(q) \ ToSet(q[i].spans)) \cup ToSet(r[i].spans)
  <2>1. i \in DOMAIN q /\ r[i].trace = q[i].trace /\ EntryTidy(r[i], TraceOf)
    BY <1>1, <1>2, <1>4, <1>6
  <2>2. TidyEntries(q, TraceOf) /\ DOMAIN r = DOMAIN q /\ \A j \in DOMAIN q \ {i} : r[j] = q[j]
    BY <1>1, <1>4
  <2> QED
    BY <2>1, <2>2, PutTidy
<1>8. BufferOf(n) = BufferOf(m) \ ToSet(q[i].spans)
  BY <1>3, <1>4, <1>5, <1>7, BufferIsHeld DEF q
<1>9. IsFiniteSet(BufferOf(n)) /\ n.buffered = Cardinality(BufferOf(n))
  <2>1. BufferOf(m) \cap ToSet(q[i].spans) = ToSet(q[i].spans)
    BY <1>1
  <2>2. /\ IsFiniteSet(BufferOf(m) \ ToSet(q[i].spans))
        /\ Cardinality(BufferOf(m) \ ToSet(q[i].spans))
              = Cardinality(BufferOf(m)) - Cardinality(BufferOf(m) \cap ToSet(q[i].spans))
    BY <1>1, FS_Difference
  <2> QED
    BY <1>1, <1>3, <1>8, <2>1, <2>2
<1>10. \A j \in DOMAIN r : Len(r[j].spans) <= TraceCap
  BY <1>2, RetentionAssumption, <1>4 DEF BufferSound, q
<1>11. n.buffered \in Int /\ n.buffered <= m.buffered
  BY <1>1, <1>3
<1>12. n \in [traces : Seq(RetentionEntry), buffered : Int]
  BY <1>3, <1>4, <1>11
<1>13. BufferSound(n)
  BY <1>1, <1>3, <1>4, <1>7, <1>9, <1>10, <1>11, <1>12 DEF BufferSound
<1> QED
  BY <1>8, <1>11, <1>13 DEF n, q

(* A span put into the entry of its trace: at most another trace goes.       *)
LEMMA PushFacts ==
    ASSUME NEW m, BufferSound(m), m.buffered <= BufferCap, NEW i \in DOMAIN m.traces, NEW s \in SdkSpan,
           s \notin BufferOf(m), TraceOf[s] = m.traces[i].trace, ~m.traces[i].retained
    PROVE  /\ BufferSound(Push(m, i, s)) /\ BufferOf(Push(m, i, s)) \subseteq BufferOf(m) \cup {s}
           /\ Push(m, i, s).buffered <= BufferCap
<1> DEFINE q == m.traces
           n == [traces |-> [m.traces EXCEPT ![i].spans = Append(@, s)], buffered |-> m.buffered + 1]
           e == [q[i] EXCEPT !.spans = Append(q[i].spans, s)]
           r == [q EXCEPT ![i] = e]
           h == SelectInSeq(n.traces, LAMBDA x : x.spans # <<>>)
<1>1. /\ q \in Seq(RetentionEntry) /\ TidyEntries(q, TraceOf) /\ i \in 1..Len(q) /\ q[i] \in RetentionEntry
      /\ m.buffered \in Nat /\ q[i].spans \in Seq(SdkSpan) /\ Injective(q[i].spans)
      /\ ToSet(q[i].spans) \subseteq BufferOf(m) /\ IsFiniteSet(BufferOf(m)) /\ m.buffered = Cardinality(BufferOf(m))
      /\ Len(q) \in Nat /\ Len(q) <= BufferCap /\ BufferCap \in Nat /\ TraceCap \in Nat
  BY EntryFacts, RetentionAssumption DEF BufferSound
<1>2. CASE Len(m.traces[i].spans) >= TraceCap
  BY <1>2 DEF Push
<1>3. CASE ~(Len(m.traces[i].spans) >= TraceCap)
  <2>1. /\ Append(q[i].spans, s) \in Seq(SdkSpan) /\ Len(Append(q[i].spans, s)) = Len(q[i].spans) + 1
        /\ Append(q[i].spans, s)[Len(q[i].spans) + 1] = s
        /\ \A a \in 1..Len(q[i].spans) : Append(q[i].spans, s)[a] = q[i].spans[a]
    BY <1>1, AppendProperties
  <2> DEFINE p == Append(q[i].spans, s)
             l == Len(q[i].spans)
  <2> HIDE DEF q, p
  <2>2. l \in Nat /\ DOMAIN q[i].spans = 1..l /\ DOMAIN p = (1..l) \cup {l + 1} /\ p[l + 1] = s
        /\ \A a \in 1..l : p[a] = q[i].spans[a]
    BY <1>1, <2>1 DEF p
  <2> HIDE DEF l
  <2>3. ToSet(p) = ToSet(q[i].spans) \cup {s}
    BY <2>2 DEF ToSet, Range
  <2>4. s \notin ToSet(q[i].spans) /\ \A a \in 1..l : q[i].spans[a] # s
    BY <1>1, <2>2 DEF ToSet, Range
  <2>5. Injective(p)
    BY <1>1, <2>2, <2>4 DEF Injective
  <2>6. \A a \in DOMAIN p : TraceOf[p[a]] = q[i].trace
    BY <1>1, <2>2 DEF TidyEntries, EntryTidy, q
  <2>7. e \in RetentionEntry /\ e.spans = p /\ e.trace = q[i].trace /\ e.retained = q[i].retained
    BY <1>1, <2>1 DEF RetentionEntry, p
  <2>8. n.traces = r /\ n.buffered = m.buffered + 1 /\ n = [traces |-> r, buffered |-> n.buffered]
    BY <1>1 DEF q
  <2> HIDE DEF e, n, h
  <2>9. /\ r \in Seq(RetentionEntry) /\ DOMAIN r = DOMAIN q /\ Len(r) = Len(q) /\ r[i] = e
        /\ \A j \in DOMAIN q \ {i} : r[j] = q[j]
    BY <1>1, <2>7
  <2> HIDE DEF r
  <2>10. TidyEntries(r, TraceOf) /\ SpansHeld(r) = (SpansHeld(q) \ ToSet(q[i].spans)) \cup ToSet(r[i].spans)
    <3>1. i \in DOMAIN q /\ r[i].trace = q[i].trace /\ r[i].spans = p /\ ~r[i].retained
      BY <1>1, <2>7, <2>9 DEF q
    <3>2. EntryTidy(r[i], TraceOf)
      BY <2>5, <2>6, <3>1 DEF EntryTidy
    <3>3. TidyEntries(q, TraceOf) /\ DOMAIN r = DOMAIN q /\ \A j \in DOMAIN q \ {i} : r[j] = q[j]
      BY <1>1, <2>9
    <3> QED
      BY <3>1, <3>2, <3>3, PutTidy
  <2>11. BufferOf(n) = BufferOf(m) \cup {s}
    <3>1. SpansHeld(q) = BufferOf(m) /\ SpansHeld(r) = BufferOf(n)
      BY <2>8, BufferIsHeld DEF q
    <3> QED
      BY <1>1, <2>3, <2>7, <2>9, <2>10, <3>1
  <2>12. IsFiniteSet(BufferOf(n)) /\ n.buffered = Cardinality(BufferOf(n))
    BY <1>1, FS_AddElement, <2>8, <2>11
  <2>13. \A j \in DOMAIN r : Len(r[j].spans) <= TraceCap
    <3>1. Len(p) <= TraceCap
      BY <1>1, <1>3, <2>1 DEF p, q
    <3>2. \A j \in DOMAIN q : Len(q[j].spans) <= TraceCap
      BY DEF BufferSound, q
    <3> QED
      BY <2>7, <2>9, <3>1, <3>2
  <2>14. n \in [traces : Seq(RetentionEntry), buffered : Int]
    BY <1>1, <2>8, <2>9
  <2>15. BufferSound(n)
    BY <1>1, <2>8, <2>9, <2>10, <2>12, <2>13, <2>14 DEF BufferSound
  <2>16. CASE n.buffered <= BufferCap
    <3>1. Push(m, i, s) = n
      BY <1>3, <2>16 DEF Push, n
    <3> QED
      BY <2>11, <2>15, <2>16, <3>1
  <2>17. CASE ~(n.buffered <= BufferCap)
    <3>1. Push(m, i, s) = DropEntry(n, h)
      BY <1>3, <2>17 DEF Push, n, h
    <3>2. h \in DOMAIN n.traces /\ n.traces[h].spans # <<>>
      <4> DEFINE I == {j \in 1..Len(n.traces) : n.traces[j].spans # <<>>}
      <4>1. h = IF I # {} THEN Min(I) ELSE 0
        BY DEF SelectInSeq, h
      <4> HIDE DEF h
      <4>2. i \in I
        BY <1>1, <2>7, <2>8, <2>9, <2>1, <2>2 DEF p, l
      <4>3. I \in SUBSET Nat /\ I # {}
        BY <4>2
      <4>4. Min(I) \in I
        <5> HIDE DEF I
        <5> QED
          BY <4>3, MinIsLeast
      <4>5. h \in I
        BY <4>1, <4>3, <4>4
      <4> QED
        BY <2>8, <2>9, <4>5
    <3> HIDE DEF h
    <3>3. /\ BufferSound(DropEntry(n, h)) /\ BufferOf(DropEntry(n, h)) \subseteq BufferOf(n)
          /\ DropEntry(n, h).buffered = n.buffered - Len(n.traces[h].spans)
      BY <2>15, <3>2, DropEntryFacts
    <3>4. n.traces[h].spans \in Seq(SdkSpan)
      BY <2>15, <3>2, EntryFacts
    <3>5. Len(n.traces[h].spans) \in Nat /\ Len(n.traces[h].spans) >= 1
      BY <3>2, <3>4, EmptySeq
    <3>6. DropEntry(n, h).buffered <= BufferCap
      BY <1>1, <2>8, <3>3, <3>5
    <3> QED
      BY <2>11, <3>1, <3>3, <3>6
  <2> QED
    BY <2>16, <2>17
<1> QED
  BY <1>2, <1>3

(* sweep(): whole entries go. *)
LEMMA SweptFacts ==
    ASSUME NEW m, BufferSound(m), m.buffered <= BufferCap, NEW now
    PROVE  /\ BufferSound(Swept(m, now)) /\ BufferOf(Swept(m, now)) \subseteq BufferOf(m)
           /\ Swept(m, now).buffered <= BufferCap
<1> DEFINE q == m.traces
           old == {i \in DOMAIN m.traces : m.traces[i].since <= now - TraceTTL}
           I == DOMAIN q \ old
           r == InOrderOf(q, I)
           n == Swept(m, now)
           g == [k \in 1..Cardinality(I) |-> KthOf(I, k)]
           sum == MapThenSumSet(LAMBDA i : Len(q[i].spans), old)
<1>1. /\ q \in Seq(RetentionEntry) /\ TidyEntries(q, TraceOf) /\ Len(q) \in Nat /\ DOMAIN q = 1..Len(q)
      /\ Len(q) <= BufferCap /\ BufferCap \in Nat
      /\ IsFiniteSet(BufferOf(m)) /\ m.buffered = Cardinality(BufferOf(m)) /\ m.buffered \in Nat
  BY RetentionAssumption, FS_CardinalityType DEF BufferSound
<1>2. \A i \in DOMAIN q : q[i].spans \in Seq(SdkSpan)
  BY EntryFacts
<1>3. n.traces = r /\ n.buffered = m.buffered - sum /\ n = [traces |-> r, buffered |-> n.buffered]
  BY DEF Swept, EntriesAt, InOrderOf, KthOf
<1>4. I \in SUBSET (1..Len(q)) /\ old \in SUBSET (DOMAIN q) /\ I = DOMAIN q \ old
  BY <1>1
<1> HIDE DEF old, I, r, n, q
<1>5. /\ r \in Seq(RetentionEntry) /\ Len(r) = Cardinality(I) /\ IsFiniteSet(I) /\ Cardinality(I) \in Nat
      /\ \A k \in 1..Cardinality(I) : KthOf(I, k) \in I /\ r[k] = q[KthOf(I, k)]
      /\ \A k, l \in 1..Cardinality(I) : KthOf(I, k) = KthOf(I, l) => k = l
      /\ \A i \in I : \E k \in 1..Cardinality(I) : KthOf(I, k) = i
  <2>1. /\ InOrderOf(q, I) \in Seq(RetentionEntry) /\ Len(InOrderOf(q, I)) = Cardinality(I)
        /\ \A k \in 1..Cardinality(I) : KthOf(I, k) \in I /\ InOrderOf(q, I)[k] = q[KthOf(I, k)]
        /\ \A k, l \in 1..Cardinality(I) : KthOf(I, k) = KthOf(I, l) => k = l
        /\ \A i \in I : \E k \in 1..Cardinality(I) : KthOf(I, k) = i
        /\ IsFiniteSet(I) /\ Cardinality(I) \in Nat
    <3>1. q \in Seq(RetentionEntry) /\ I \in SUBSET (1..Len(q))
      BY <1>1, <1>4
    <3> QED
      BY <3>1, InOrderFacts
  <2> QED
    BY <2>1 DEF r
<1>6. DOMAIN r = 1..Cardinality(I)
  BY <1>5
<1>7. /\ g \in [DOMAIN r -> DOMAIN q] /\ (\A k, l \in DOMAIN r : g[k] = g[l] => k = l)
      /\ (\A k \in DOMAIN r : r[k] = q[g[k]]) /\ {g[k] : k \in DOMAIN r} = I
  <2>1. \A k \in DOMAIN r : g[k] = KthOf(I, k) /\ g[k] \in I
    BY <1>5, <1>6
  <2>2. DOMAIN g = DOMAIN r
    BY <1>6
  <2>3. g = [k \in DOMAIN r |-> g[k]]
    BY <1>6
  <2> HIDE DEF g
  <2>4. g \in [DOMAIN r -> DOMAIN q]
    BY <1>1, <1>4, <2>1, <2>3
  <2>5. \A k, l \in DOMAIN r : g[k] = g[l] => k = l
    BY <1>5, <1>6, <2>1
  <2>6. \A k \in DOMAIN r : r[k] = q[g[k]]
    BY <1>5, <1>6, <2>1
  <2>7. {g[k] : k \in DOMAIN r} = I
    BY <1>5, <1>6, <2>1
  <2> QED
    BY <2>4, <2>5, <2>6, <2>7
<1> HIDE DEF g
<1>8. TidyEntries(r, TraceOf) /\ SpansHeld(r) = SpansHeldAt(q, I)
  <2>1. TidyEntries(r, TraceOf) /\ SpansHeld(r) = SpansHeldAt(q, {g[k] : k \in DOMAIN r})
    <3>1. TidyEntries(q, TraceOf) /\ g \in [DOMAIN r -> DOMAIN q] /\ (\A k, l \in DOMAIN r : g[k] = g[l] => k = l)
          /\ (\A k \in DOMAIN r : r[k] = q[g[k]])
      BY <1>1, <1>7
    <3> QED
      BY <3>1, SomeOfTidy
  <2> QED
    BY <1>7, <2>1
<1>9. SpansHeldAt(q, I) = SpansHeld(q) \ SpansHeldAt(q, old) /\ SpansHeldAt(q, old) \subseteq SpansHeld(q)
  BY <1>1, <1>4, HeldLess
<1>10. BufferOf(n) = BufferOf(m) \ SpansHeldAt(q, old) /\ SpansHeldAt(q, old) \subseteq BufferOf(m)
  BY <1>3, <1>8, <1>9, BufferIsHeld DEF q
<1>11. IsFiniteSet(SpansHeldAt(q, old)) /\ Cardinality(SpansHeldAt(q, old)) = sum /\ sum \in Nat
  <2>1. IsFiniteSet(old)
    <3>1. 1 \in Int /\ Len(q) \in Int
      BY <1>1
    <3>2. IsFiniteSet(1..Len(q)) /\ old \in SUBSET (1..Len(q))
      BY <1>1, <1>4, <3>1, FS_Interval
    <3> QED
      BY <3>2, FS_Subset
  <2>2. /\ IsFiniteSet(SpansHeldAt(q, old)) /\ Cardinality(SpansHeldAt(q, old)) \in Nat
        /\ Cardinality(SpansHeldAt(q, old)) = SetSum([i \in old |-> Len(q[i].spans)], old)
    BY <1>1, <1>2, <1>4, <2>1, HeldCount
  <2>3. sum = SetSum([i \in old |-> Len(q[i].spans)], old)
    BY DEF MapThenSumSet, MapThenFoldSet, SetSum, SetSums, SumStep, AnyOf
  <2> HIDE DEF sum
  <2> QED
    BY <2>2, <2>3
<1> HIDE DEF sum
<1>12. IsFiniteSet(BufferOf(n)) /\ n.buffered = Cardinality(BufferOf(n)) /\ n.buffered <= BufferCap
  <2>1. BufferOf(m) \cap SpansHeldAt(q, old) = SpansHeldAt(q, old)
    BY <1>10
  <2>2. /\ IsFiniteSet(BufferOf(m) \ SpansHeldAt(q, old))
        /\ Cardinality(BufferOf(m) \ SpansHeldAt(q, old))
              = Cardinality(BufferOf(m)) - Cardinality(BufferOf(m) \cap SpansHeldAt(q, old))
    BY <1>1, FS_Difference
  <2>3. IsFiniteSet(BufferOf(n)) /\ Cardinality(BufferOf(n)) = m.buffered - sum
    BY <1>1, <1>10, <1>11, <2>1, <2>2
  <2> QED
    BY <1>1, <1>3, <1>11, <2>3
<1>13. Len(n.traces) <= BufferCap
  <2>1. IsFiniteSet(1..Len(q)) /\ Cardinality(1..Len(q)) = Len(q)
    <3>1. IsFiniteSet(1..Len(q)) /\ Cardinality(1..Len(q)) = IF 1 > Len(q) THEN 0 ELSE Len(q) - 1 + 1
      <4>1. 1 \in Int /\ Len(q) \in Int
        BY <1>1
      <4> QED
        BY <4>1, FS_Interval
    <3> QED
      BY <1>1, <3>1
  <2>2. Cardinality(I) <= Len(q)
    BY <1>4, <2>1, FS_Subset
  <2> QED
    BY <1>1, <1>3, <1>5, <2>2
<1>14. \A j \in DOMAIN r : Len(r[j].spans) <= TraceCap
  BY <1>7 DEF BufferSound, q
<1>15. n \in [traces : Seq(RetentionEntry), buffered : Int]
  BY <1>1, <1>3, <1>5, <1>11
<1>16. BufferSound(n)
  BY <1>3, <1>8, <1>12, <1>13, <1>14, <1>15 DEF BufferSound
<1> QED
  BY <1>10, <1>12, <1>16 DEF n

(* What a step of the processor leaves: of the spans it held and those that   *)
(* end now, each is held on, forwarded or let go.                            *)
MayBecome(m, sent, gone) ==
    /\ BufferSound(m) /\ m.buffered <= BufferCap
    /\ sent \in Seq(SdkSpan) /\ Injective(sent)
    /\ BufferOf(m) \subseteq BufferOf(retention) \cup gone
    /\ ToSet(sent) \subseteq BufferOf(retention) \cup gone
    /\ ToSet(sent) \cap BufferOf(m) = {}

LEMMA RetentionStep ==
    ASSUME NEW m, NEW sent, NEW gone \in SUBSET SdkSpan, Retention(m, sent, gone), MayBecome(m, sent, gone),
           forwardedSpans \in [SdkSpan -> Nat], RetentionPlaces, \A s \in gone : ~EndedUnsampled(s)
    PROVE  /\ forwardedSpans' \in [SdkSpan -> Nat] /\ BufferSound(retention') /\ retention'.buffered <= BufferCap
           /\ \A s \in SdkSpan :
                 /\ forwardedSpans'[s] + (IF s \in BufferOf(retention') THEN 1 ELSE 0)
                        + (IF s \in forgotten' THEN 1 ELSE 0)
                        = IF EndedUnsampled(s) \/ s \in gone THEN 1 ELSE 0
                 /\ forwardedSpans'[s] >= forwardedSpans[s]
                 /\ s \in ToSet(sent) => forwardedSpans'[s] > 0
<1>1. /\ retention' = m
      /\ forwardedSpans' = [s \in SdkSpan |-> forwardedSpans[s] + Cardinality({i \in DOMAIN sent : sent[i] = s})]
      /\ forgotten' = forgotten \cup ((BufferOf(retention) \cup gone) \ (BufferOf(m) \cup ToSet(sent)))
  BY DEF Retention
<1>2. \A s \in SdkSpan : forwardedSpans'[s] = forwardedSpans[s] + IF s \in ToSet(sent) THEN 1 ELSE 0
  BY InjectiveCount, <1>1 DEF MayBecome
<1>3. forwardedSpans' \in [SdkSpan -> Nat]
  BY <1>1, <1>2
<1>4. ASSUME NEW s \in SdkSpan
      PROVE  forwardedSpans'[s] + (IF s \in BufferOf(retention') THEN 1 ELSE 0) + (IF s \in forgotten' THEN 1 ELSE 0)
                = IF EndedUnsampled(s) \/ s \in gone THEN 1 ELSE 0
  <2>1. forwardedSpans[s] \in Nat
    OBVIOUS
  <2>2. forwardedSpans[s] + (IF s \in BufferOf(retention) THEN 1 ELSE 0) + (IF s \in forgotten THEN 1 ELSE 0)
            = IF EndedUnsampled(s) THEN 1 ELSE 0
    BY DEF RetentionPlaces
  <2>3. CASE s \in BufferOf(retention) \/ s \in gone
    BY <2>1, <2>2, <2>3, <1>1, <1>2 DEF MayBecome
  <2>4. CASE ~(s \in BufferOf(retention) \/ s \in gone)
    BY <2>4, <1>1, <1>2, <2>1, <2>2 DEF MayBecome
  <2> QED
    BY <2>3, <2>4
<1>5. ASSUME NEW s \in SdkSpan
      PROVE  forwardedSpans'[s] >= forwardedSpans[s] /\ (s \in ToSet(sent) => forwardedSpans'[s] > 0)
  BY <1>2
<1>6. BufferSound(retention') /\ retention'.buffered <= BufferCap
  BY <1>1 DEF MayBecome
<1> QED
  BY <1>3, <1>4, <1>5, <1>6

(* A step that ends no span leaves each where the step before put it.        *)
LEMMA NothingEnds ==
    ASSUME RetentionInv, NEW m, NEW sent, MayBecome(m, sent, {}), Retention(m, sent, {}),
           \A s \in SdkSpan : EndedUnsampled(s)' <=> EndedUnsampled(s),
           \A s \in SdkSpan : EndedUnsampled(s) => (sdkSpans'[s].error => sdkSpans[s].error)
    PROVE  /\ BufferSound(retention)' /\ (retention.buffered <= BufferCap)'
           /\ (forwardedSpans \in [SdkSpan -> Nat])' /\ RetentionPlaces' /\ MarkedForwarded'
<1>1. /\ forwardedSpans' \in [SdkSpan -> Nat] /\ BufferSound(retention') /\ retention'.buffered <= BufferCap
      /\ \A s \in SdkSpan :
            /\ forwardedSpans'[s] + (IF s \in BufferOf(retention') THEN 1 ELSE 0)
                   + (IF s \in forgotten' THEN 1 ELSE 0)
                   = IF EndedUnsampled(s) \/ s \in {} THEN 1 ELSE 0
            /\ forwardedSpans'[s] >= forwardedSpans[s]
  BY RetentionStep DEF RetentionInv
<1>2. RetentionPlaces'
  BY <1>1 DEF RetentionPlaces, BufferOf
<1>3. MarkedForwarded'
  <2>1. ASSUME RetainErrors, NEW s \in SdkSpan, EndedUnsampled(s)', sdkSpans'[s].error
        PROVE  forwardedSpans'[s] > 0
    BY <1>1, <2>1 DEF RetentionInv, MarkedForwarded
  <2> QED
    BY <2>1 DEF MarkedForwarded
<1>4. BufferSound(retention)'
  BY <1>1 DEF BufferSound, BufferOf
<1> QED
  BY <1>1, <1>2, <1>3, <1>4

LEMMA StaysAsItIs == ASSUME RetentionInv PROVE MayBecome(retention, <<>>, {})
<1>1. <<>> \in Seq(SdkSpan) /\ Injective(<<>>) /\ ToSet(<<>>) = {}
  BY DEF Injective, ToSet, Range
<1> QED
  BY <1>1 DEF MayBecome, RetentionInv

LEMMA StartSpanKeeps ==
    ASSUME RetentionInv, NEW s \in SdkSpan, NEW a \in BOOLEAN, NEW b \in BOOLEAN, StartSpan(s, a, b)
    PROVE  RetentionInv'
<1> DEFINE fresh == [st |-> "open", sampled |-> a, root |-> b, error |-> FALSE]
<1>1. /\ sdkSpans[s].st = "none" /\ sdkSpans' = [sdkSpans EXCEPT ![s] = fresh]
      /\ UNCHANGED <<traceTime, retention, capturedOn, forwardedSpans, forgotten>>
      /\ sdkSpans \in [SdkSpan -> SpanState]
  BY DEF StartSpan, RetentionInv
<1>2. fresh \in SpanState /\ fresh.st = "open"
  BY DEF SpanState
<1> HIDE DEF fresh
<1>3. sdkSpans' \in [SdkSpan -> SpanState] /\ sdkSpans'[s].st = "open" /\ \A o \in SdkSpan \ {s} : sdkSpans'[o] = sdkSpans[o]
  BY <1>1, <1>2
<1>4. \A o \in SdkSpan : EndedUnsampled(o)' <=> EndedUnsampled(o)
  BY <1>1, <1>3 DEF EndedUnsampled
<1>5. RetentionPlaces'
  BY <1>1, <1>4 DEF RetentionInv, RetentionPlaces, BufferOf
<1>6. MarkedForwarded'
  BY <1>1, <1>3, <1>4 DEF RetentionInv, MarkedForwarded, EndedUnsampled
<1>7. CapturesRide'
  BY <1>1, <1>3 DEF RetentionInv, CapturesRide
<1> QED
  BY <1>1, <1>3, <1>5, <1>6, <1>7 DEF RetentionInv, BufferSound, BufferOf

LEMMA TraceTickKeeps == ASSUME RetentionInv, TraceTick PROVE RetentionInv'
<1>1. traceTime \in Nat /\ traceTime' = traceTime + 1 /\ UNCHANGED <<sdkSpans, capturedOn>>
  BY DEF TraceTick, RetentionInv
<1>2. CapturesRide'
  BY <1>1 DEF RetentionInv, CapturesRide
<1>3. \A s \in SdkSpan : EndedUnsampled(s)' <=> EndedUnsampled(s)
  BY <1>1 DEF EndedUnsampled
<1>4. CASE UNCHANGED <<retention, forwardedSpans, forgotten>>
  BY <1>1, <1>3, <1>4, <1>2 DEF RetentionInv, RetentionPlaces, MarkedForwarded, BufferOf, BufferSound
<1>5. CASE Retention(Swept(retention, traceTime + 1), <<>>, {})
  <2> DEFINE m == Swept(retention, traceTime + 1)
  <2>1. BufferSound(m) /\ BufferOf(m) \subseteq BufferOf(retention) /\ m.buffered <= BufferCap
    BY SweptFacts DEF RetentionInv
  <2>2. <<>> \in Seq(SdkSpan) /\ Injective(<<>>) /\ ToSet(<<>>) = {}
    BY DEF Injective, ToSet, Range
  <2> HIDE DEF m
  <2>3. MayBecome(m, <<>>, {})
    BY <2>1, <2>2 DEF MayBecome
  <2>4. \A s \in SdkSpan : sdkSpans'[s].error => sdkSpans[s].error
    BY <1>1
  <2>5. /\ BufferSound(retention)' /\ (retention.buffered <= BufferCap)'
        /\ (forwardedSpans \in [SdkSpan -> Nat])' /\ RetentionPlaces' /\ MarkedForwarded'
    BY <1>3, <1>5, <2>3, <2>4, NothingEnds DEF m
  <2> QED
    BY <1>1, <1>2, <2>5 DEF RetentionInv
<1> QED
  BY <1>4, <1>5 DEF TraceTick

(* retainActiveTrace(): what its trace had buffered is forwarded, once.      *)
LEMMA RetainsActive ==
    ASSUME RetentionInv, NEW active \in SdkSpan \cup {NoSpan}, RetainActiveTrace(active)
    PROVE  \E m, sent : MayBecome(m, sent, {}) /\ Retention(m, sent, {})
<1>1. CASE active = NoSpan
  BY <1>1, StaysAsItIs DEF RetainActiveTrace
<1>2. CASE active # NoSpan /\ sdkSpans[active].sampled
  BY <1>2, StaysAsItIs DEF RetainActiveTrace
<1>3. CASE active # NoSpan /\ ~sdkSpans[active].sampled
  <2> DEFINE t == TraceOf[active]
             m == EntryFor(retention, t)
             i == EntryOf(m, t)
  <2>1. /\ BufferSound(m) /\ BufferOf(m) \subseteq BufferOf(retention) /\ m.buffered <= retention.buffered
        /\ i \in DOMAIN m.traces
    <3>1. t \in {TraceOf[s] : s \in SdkSpan}
      BY <1>3
    <3> HIDE DEF t
    <3> QED
      BY <3>1, EntryForFacts DEF RetentionInv
  <2>2. IF m.traces[i].retained THEN Retention(m, <<>>, {}) ELSE Retention(Promoted(m, i), m.traces[i].spans, {})
    BY <1>3 DEF RetainActiveTrace
  <2> HIDE DEF m, i, t
  <2>3. m.buffered \in Nat /\ retention.buffered \in Nat /\ retention.buffered <= BufferCap /\ BufferCap \in Nat
    BY <2>1, FS_CardinalityType, RetentionAssumption DEF BufferSound, RetentionInv
  <2>4. m.buffered <= BufferCap
    BY <2>1, <2>3
  <2>5. CASE m.traces[i].retained
    <3>1. <<>> \in Seq(SdkSpan) /\ Injective(<<>>) /\ ToSet(<<>>) = {}
      BY DEF Injective, ToSet, Range
    <3>2. MayBecome(m, <<>>, {})
      BY <2>1, <2>4, <3>1 DEF MayBecome
    <3> QED
      BY <2>2, <2>5, <3>2
  <2>6. CASE ~m.traces[i].retained
    <3> DEFINE n == Promoted(m, i)
               sent == m.traces[i].spans
    <3>1. BufferSound(n) /\ n.buffered <= m.buffered /\ BufferOf(n) = BufferOf(m) \ ToSet(sent)
      BY <2>1, PromotedFacts
    <3>2. sent \in Seq(SdkSpan) /\ Injective(sent) /\ ToSet(sent) \subseteq BufferOf(m)
      BY <2>1, EntryFacts
    <3> HIDE DEF n, sent
    <3>3. n.buffered <= BufferCap
      BY <2>3, <2>4, <3>1, FS_CardinalityType DEF BufferSound
    <3>4. MayBecome(n, sent, {})
      BY <2>1, <3>1, <3>2, <3>3 DEF MayBecome
    <3> QED
      BY <2>2, <2>6, <3>4 DEF n, sent
  <2> QED
    BY <2>5, <2>6
<1> QED
  BY <1>1, <1>2, <1>3

LEMMA CaptureOnKeeps ==
    ASSUME RetentionInv, NEW c \in Capture, NEW active \in SdkSpan \cup {NoSpan},
           NEW kind \in {"exception", "error", "warning"}, CaptureOn(c, active, kind)
    PROVE  RetentionInv'
<1> DEFINE on == Reused(active)
           mark == [kind |-> kind, on |-> on]
<1>1. /\ traceTime' = traceTime /\ traceTime \in Nat
      /\ capturedOn' = [capturedOn EXCEPT ![c] = mark]
      /\ sdkSpans' = [s \in SdkSpan |-> IF s = on THEN [sdkSpans[s] EXCEPT !.error = TRUE] ELSE sdkSpans[s]]
      /\ sdkSpans \in [SdkSpan -> SpanState]
  BY DEF CaptureOn, RetentionInv
<1>2. on # NoSpan => on \in SdkSpan /\ sdkSpans[on].st = "open"
  BY DEF Reused
<1>3. mark.on = on
  OBVIOUS
<1> HIDE DEF on, mark
<1>4. \A s \in SdkSpan :
         /\ sdkSpans'[s] \in SpanState /\ sdkSpans'[s].st = sdkSpans[s].st /\ sdkSpans'[s].sampled = sdkSpans[s].sampled
         /\ sdkSpans'[s].error <=> (s = on \/ sdkSpans[s].error)
  <2>1. \A x \in SpanState :
           /\ [x EXCEPT !.error = TRUE] \in SpanState /\ [x EXCEPT !.error = TRUE].st = x.st
           /\ [x EXCEPT !.error = TRUE].sampled = x.sampled /\ [x EXCEPT !.error = TRUE].error = TRUE
    BY DEF SpanState
  <2>2. ASSUME NEW s \in SdkSpan, s = on
        PROVE  /\ sdkSpans'[s] \in SpanState /\ sdkSpans'[s].st = sdkSpans[s].st
               /\ sdkSpans'[s].sampled = sdkSpans[s].sampled /\ sdkSpans'[s].error = TRUE
    BY <1>1, <2>2, <2>1
  <2>3. ASSUME NEW s \in SdkSpan, s # on PROVE sdkSpans'[s] = sdkSpans[s] /\ sdkSpans[s] \in SpanState
    BY <1>1, <2>3
  <2> QED
    BY <2>2, <2>3
<1>5. sdkSpans' \in [SdkSpan -> SpanState]
  BY <1>1, <1>4
<1>6. \A s \in SdkSpan : EndedUnsampled(s)' <=> EndedUnsampled(s)
  BY <1>4 DEF EndedUnsampled
<1>7. ASSUME NEW s \in SdkSpan, EndedUnsampled(s), sdkSpans'[s].error PROVE sdkSpans[s].error
  BY <1>2, <1>7, RetentionAssumption, <1>4 DEF EndedUnsampled
<1>8. CapturesRide'
  <2>1. ASSUME NEW d \in Capture, capturedOn'[d] # NoSpan, capturedOn'[d].on # NoSpan
        PROVE  capturedOn'[d].on \in SdkSpan /\ sdkSpans'[capturedOn'[d].on].st # "none"
               /\ sdkSpans'[capturedOn'[d].on].error
    BY <1>2, <1>3, <1>4, <2>1, <1>1 DEF RetentionInv, CapturesRide
  <2>2. DOMAIN capturedOn' = Capture
    BY <1>1 DEF RetentionInv, CapturesRide
  <2> QED
    BY <2>1, <2>2 DEF CapturesRide
<1>9. \E m, sent : MayBecome(m, sent, {}) /\ Retention(m, sent, {})
  BY RetainsActive, StaysAsItIs DEF CaptureOn
<1>10. /\ BufferSound(retention)' /\ (retention.buffered <= BufferCap)'
       /\ (forwardedSpans \in [SdkSpan -> Nat])' /\ RetentionPlaces' /\ MarkedForwarded'
  BY <1>6, <1>7, <1>9, NothingEnds
<1> QED
  BY <1>1, <1>5, <1>8, <1>10 DEF RetentionInv

LEMMA CaptureMessageKeeps ==
    ASSUME RetentionInv, NEW c \in Capture, NEW active \in SdkSpan \cup {NoSpan},
           NEW kind \in {"error", "warning"}, CaptureMessage(c, active, kind)
    PROVE  RetentionInv'
<1> DEFINE mark == [kind |-> kind, on |-> NoSpan]
<1>1. /\ traceTime' = traceTime /\ traceTime \in Nat /\ sdkSpans' = sdkSpans
      /\ capturedOn' = [capturedOn EXCEPT ![c] = mark] /\ mark.on = NoSpan
      /\ sdkSpans \in [SdkSpan -> SpanState] /\ DOMAIN capturedOn = Capture
  BY DEF CaptureMessage, RetentionInv, CapturesRide
<1> HIDE DEF mark
<1>2. CapturesRide'
  <2>1. ASSUME NEW d \in Capture, capturedOn'[d] # NoSpan, capturedOn'[d].on # NoSpan
        PROVE  capturedOn'[d].on \in SdkSpan /\ sdkSpans'[capturedOn'[d].on].st # "none"
               /\ sdkSpans'[capturedOn'[d].on].error
    BY <1>1, <2>1 DEF RetentionInv, CapturesRide
  <2>2. DOMAIN capturedOn' = Capture
    BY <1>1
  <2> QED
    BY <2>1, <2>2 DEF CapturesRide
<1>3. \E m, sent : MayBecome(m, sent, {}) /\ Retention(m, sent, {})
  BY RetainsActive, StaysAsItIs DEF CaptureMessage
<1>4. \A s \in SdkSpan : (EndedUnsampled(s)' <=> EndedUnsampled(s)) /\ (sdkSpans'[s].error => sdkSpans[s].error)
  BY <1>1 DEF EndedUnsampled
<1>5. /\ BufferSound(retention)' /\ (retention.buffered <= BufferCap)'
      /\ (forwardedSpans \in [SdkSpan -> Nat])' /\ RetentionPlaces' /\ MarkedForwarded'
  BY <1>3, <1>4, NothingEnds
<1> QED
  BY <1>1, <1>2, <1>5 DEF RetentionInv

(* onEnd(): the span is forwarded with its trace, or waits, or is let go; one  *)
(* that shows an error is forwarded.                                         *)
LEMMA EndsUnsampled ==
    ASSUME RetentionInv, NEW s \in SdkSpan, sdkSpans[s].st = "open", NEW failed \in BOOLEAN, NEW slow,
           EndUnsampled(s, failed, slow)
    PROVE  \E m, sent : /\ MayBecome(m, sent, {s}) /\ Retention(m, sent, {s})
                        /\ RetainErrors /\ sdkSpans[s].error => s \in ToSet(sent)
<1> DEFINE t == TraceOf[s]
           m == EntryFor(retention, t)
           i == EntryOf(m, t)
           kept_ == Push(m, i, s)
           healthy == IF sdkSpans[s].root /\ EntryOf(kept_, t) # 0 THEN DropEntry(kept_, EntryOf(kept_, t)) ELSE kept_
<1>1. /\ BufferSound(m) /\ BufferOf(m) \subseteq BufferOf(retention) /\ m.buffered <= retention.buffered
      /\ i \in DOMAIN m.traces /\ m.traces[i].trace = t
  <2>1. t \in {TraceOf[x] : x \in SdkSpan}
    OBVIOUS
  <2> HIDE DEF t
  <2> QED
    BY <2>1, EntryForFacts DEF RetentionInv
<1>2. IF m.traces[i].retained THEN Retention(m, <<s>>, {s})
      ELSE IF IndicatesError(s, failed) \/ (RetainSlow /\ slow)
           THEN Retention(Promoted(m, i), Append(m.traces[i].spans, s), {s})
           ELSE Retention(healthy, <<>>, {s})
  BY DEF EndUnsampled
<1>3. s \notin BufferOf(retention)
  BY DEF RetentionInv, EndedUnsampled, RetentionPlaces
<1> HIDE DEF m, i
<1>4. m.buffered \in Nat /\ retention.buffered \in Nat /\ retention.buffered <= BufferCap /\ BufferCap \in Nat
  BY <1>1, FS_CardinalityType, RetentionAssumption DEF BufferSound, RetentionInv
<1>5. m.buffered <= BufferCap /\ s \notin BufferOf(m)
  BY <1>1, <1>3, <1>4
<1>6. CASE m.traces[i].retained
  <2>1. <<s>> \in Seq(SdkSpan) /\ Injective(<<s>>) /\ ToSet(<<s>>) = {s}
    BY DEF Injective, ToSet, Range
  <2>2. MayBecome(m, <<s>>, {s})
    BY <1>1, <1>5, <2>1 DEF MayBecome
  <2> QED
    BY <1>2, <1>6, <2>1, <2>2
<1>7. CASE ~m.traces[i].retained /\ (IndicatesError(s, failed) \/ (RetainSlow /\ slow))
  <2> DEFINE n == Promoted(m, i)
             q == m.traces[i].spans
             sent == Append(q, s)
  <2>1. BufferSound(n) /\ n.buffered <= m.buffered /\ BufferOf(n) = BufferOf(m) \ ToSet(q)
    BY <1>1, PromotedFacts
  <2>2. q \in Seq(SdkSpan) /\ Injective(q) /\ ToSet(q) \subseteq BufferOf(m)
    BY <1>1, EntryFacts
  <2> HIDE DEF q
  <2>3. /\ sent \in Seq(SdkSpan) /\ Len(sent) = Len(q) + 1 /\ sent[Len(q) + 1] = s
        /\ \A a \in 1..Len(q) : sent[a] = q[a]
    BY <2>2, AppendProperties
  <2> HIDE DEF sent, n
  <2>4. /\ DOMAIN sent = (1..Len(q)) \cup {Len(q) + 1} /\ DOMAIN q = 1..Len(q) /\ Len(q) + 1 \notin 1..Len(q)
        /\ \A a \in 1..Len(q) : q[a] # s
    BY <1>5, <2>2, <2>3 DEF ToSet, Range
  <2>5. Injective(sent) /\ ToSet(sent) = ToSet(q) \cup {s}
    BY <2>2, <2>3, <2>4 DEF Injective, ToSet, Range
  <2>6. n.buffered <= BufferCap
    BY <1>4, <1>5, <2>1, FS_CardinalityType DEF BufferSound
  <2>7. MayBecome(n, sent, {s})
    BY <1>1, <1>5, <2>1, <2>2, <2>3, <2>5, <2>6 DEF MayBecome
  <2>8. Retention(n, sent, {s})
    BY <1>2, <1>7 DEF n, sent, q
  <2> QED
    BY <2>5, <2>7, <2>8
<1>8. CASE ~m.traces[i].retained /\ ~(IndicatesError(s, failed) \/ (RetainSlow /\ slow))
  <2>1. BufferSound(kept_) /\ BufferOf(kept_) \subseteq BufferOf(m) \cup {s} /\ kept_.buffered <= BufferCap
    BY <1>1, <1>5, <1>8, PushFacts
  <2> HIDE DEF kept_
  <2>2. BufferSound(healthy) /\ BufferOf(healthy) \subseteq BufferOf(kept_) /\ healthy.buffered <= BufferCap
    <3>1. CASE sdkSpans[s].root /\ EntryOf(kept_, t) # 0
      <4> DEFINE h == EntryOf(kept_, t)
      <4>1. h \in DOMAIN kept_.traces
        BY <2>1, <3>1, EntryOfFacts DEF BufferSound
      <4> HIDE DEF h
      <4>2. /\ BufferSound(DropEntry(kept_, h)) /\ BufferOf(DropEntry(kept_, h)) \subseteq BufferOf(kept_)
            /\ DropEntry(kept_, h).buffered = kept_.buffered - Len(kept_.traces[h].spans)
        BY <2>1, <4>1, DropEntryFacts
      <4>3. kept_.traces[h].spans \in Seq(SdkSpan) /\ kept_.buffered \in Nat
        BY <2>1, <4>1, EntryFacts
      <4>4. DropEntry(kept_, h).buffered <= BufferCap
        BY <1>4, <2>1, <4>2, <4>3
      <4>5. healthy = DropEntry(kept_, h)
        BY <3>1 DEF h
      <4> QED
        BY <4>2, <4>4, <4>5
    <3>2. CASE ~(sdkSpans[s].root /\ EntryOf(kept_, t) # 0)
      BY <2>1, <3>2
    <3> QED
      BY <3>1, <3>2
  <2>3. <<>> \in Seq(SdkSpan) /\ Injective(<<>>) /\ ToSet(<<>>) = {}
    BY DEF Injective, ToSet, Range
  <2>4. Retention(healthy, <<>>, {s})
    BY <1>2, <1>8
  <2> HIDE DEF healthy
  <2>5. MayBecome(healthy, <<>>, {s})
    BY <1>1, <2>1, <2>2, <2>3 DEF MayBecome
  <2>6. ~(RetainErrors /\ sdkSpans[s].error)
    BY <1>8 DEF IndicatesError
  <2> QED
    BY <2>4, <2>5, <2>6
<1> QED
  BY <1>6, <1>7, <1>8

LEMMA EndSpanKeeps ==
    ASSUME RetentionInv, NEW s \in SdkSpan, NEW failed \in BOOLEAN, NEW slow, EndSpan(s, failed, slow)
    PROVE  RetentionInv'
<1>1. /\ sdkSpans[s].st = "open" /\ sdkSpans' = [sdkSpans EXCEPT ![s].st = "ended"]
      /\ UNCHANGED <<traceTime, capturedOn>> /\ sdkSpans \in [SdkSpan -> SpanState] /\ traceTime \in Nat
  BY DEF EndSpan, RetentionInv
<1>2. /\ sdkSpans' \in [SdkSpan -> SpanState] /\ sdkSpans'[s].st = "ended"
      /\ \A o \in SdkSpan : /\ sdkSpans'[o].sampled = sdkSpans[o].sampled /\ sdkSpans'[o].error = sdkSpans[o].error
                            /\ o # s => sdkSpans'[o].st = sdkSpans[o].st
  BY <1>1 DEF SpanState
<1>3. CapturesRide'
  BY <1>1, <1>2 DEF RetentionInv, CapturesRide
<1>4. CASE sdkSpans[s].sampled /\ Retention(retention, <<>>, {})
  BY <1>1, <1>2, <1>4, StaysAsItIs, NothingEnds, <1>3 DEF EndedUnsampled, RetentionInv
<1>5. CASE ~sdkSpans[s].sampled /\ EndUnsampled(s, failed, slow)
  <2>1. PICK m, sent : /\ MayBecome(m, sent, {s}) /\ Retention(m, sent, {s})
                       /\ RetainErrors /\ sdkSpans[s].error => s \in ToSet(sent)
    BY <1>1, <1>5, EndsUnsampled
  <2>2. \A o \in {s} : ~EndedUnsampled(o)
    BY <1>1 DEF EndedUnsampled
  <2>3. /\ forwardedSpans' \in [SdkSpan -> Nat] /\ BufferSound(retention') /\ retention'.buffered <= BufferCap
        /\ \A o \in SdkSpan :
              /\ forwardedSpans'[o] + (IF o \in BufferOf(retention') THEN 1 ELSE 0)
                     + (IF o \in forgotten' THEN 1 ELSE 0)
                     = IF EndedUnsampled(o) \/ o \in {s} THEN 1 ELSE 0
              /\ forwardedSpans'[o] >= forwardedSpans[o]
              /\ o \in ToSet(sent) => forwardedSpans'[o] > 0
    BY <2>1, <2>2, RetentionStep DEF RetentionInv
  <2>4. \A o \in SdkSpan : EndedUnsampled(o)' <=> EndedUnsampled(o) \/ o = s
    BY <1>1, <1>2, <1>5 DEF EndedUnsampled
  <2>5. RetentionPlaces'
    BY <2>3, <2>4 DEF RetentionPlaces, BufferOf
  <2>6. MarkedForwarded'
    <3>1. ASSUME RetainErrors, NEW o \in SdkSpan, EndedUnsampled(o)', sdkSpans'[o].error
          PROVE  forwardedSpans'[o] > 0
      <4>1. CASE o = s
        BY <1>2, <2>1, <2>3, <3>1, <4>1
      <4>2. CASE o # s
        BY <1>2, <2>4, <3>1, <4>2, <2>3 DEF RetentionInv, MarkedForwarded
      <4> QED
        BY <4>1, <4>2
    <3> QED
      BY <3>1 DEF MarkedForwarded
  <2>7. BufferSound(retention)'
    BY <2>3 DEF BufferSound, BufferOf
  <2> QED
    BY <1>1, <1>2, <1>3, <2>3, <2>5, <2>6, <2>7 DEF RetentionInv
<1> QED
  BY <1>4, <1>5 DEF EndSpan

LEMMA RetentionStarts == RetentionInit => RetentionInv
<1> SUFFICES ASSUME RetentionInit PROVE RetentionInv
  OBVIOUS
<1>1. retention.traces = <<>> /\ retention.buffered = 0 /\ retention \in [traces : Seq(RetentionEntry), buffered : Int]
  BY DEF RetentionInit
<1>2. DOMAIN retention.traces = {} /\ Len(retention.traces) = 0
  BY <1>1
<1>3. BufferOf(retention) = {}
  BY <1>2 DEF BufferOf
<1>4. BufferSound(retention)
  BY <1>1, <1>2, <1>3, FS_EmptySet, RetentionAssumption DEF BufferSound, TidyEntries
<1>5. sdkSpans \in [SdkSpan -> SpanState] /\ \A s \in SdkSpan : sdkSpans[s].st = "none"
  BY DEF RetentionInit, SpanUnborn, SpanState
<1>6. RetentionPlaces
  BY <1>3, <1>5 DEF RetentionInit, RetentionPlaces, EndedUnsampled
<1>7. CapturesRide /\ MarkedForwarded
  BY <1>5 DEF RetentionInit, CapturesRide, MarkedForwarded, EndedUnsampled
<1> QED
  BY <1>1, <1>4, <1>5, <1>6, <1>7, RetentionAssumption DEF RetentionInv, RetentionInit

LEMMA RetentionKeeps == RetentionInv /\ [RetentionNext]_retentionVars => RetentionInv'
<1> SUFFICES ASSUME RetentionInv, [RetentionNext]_retentionVars PROVE RetentionInv'
  OBVIOUS
<1>1. CASE UNCHANGED retentionVars
  BY <1>1 DEF retentionVars, RetentionInv, BufferSound, BufferOf, RetentionPlaces, EndedUnsampled, CapturesRide,
     MarkedForwarded
<1>2. ASSUME NEW s \in SdkSpan, NEW a \in BOOLEAN, NEW b \in BOOLEAN,
             StartSpan(s, a, b) \/ EndSpan(s, a, RetainSlow /\ b)
      PROVE  RetentionInv'
  BY <1>2, StartSpanKeeps, EndSpanKeeps
<1>3. ASSUME NEW c \in Capture, NEW s \in SdkSpan \cup {NoSpan}, NEW kind \in {"exception", "error", "warning"},
             CaptureOn(c, s, kind)
      PROVE  RetentionInv'
  BY <1>3, CaptureOnKeeps
<1>4. ASSUME NEW c \in Capture, NEW s \in SdkSpan \cup {NoSpan}, NEW kind \in {"error", "warning"},
             CaptureMessage(c, s, kind)
      PROVE  RetentionInv'
  BY <1>4, CaptureMessageKeeps
<1>5. CASE TraceTick
  BY <1>5, TraceTickKeeps
<1> QED
  BY <1>1, <1>2, <1>3, <1>4, <1>5 DEF RetentionNext

(* The invariant of trace retention (tracing.ts). *)
THEOREM RetentionInvariant == RetentionSpec => []RetentionInv
  BY RetentionStarts, RetentionKeeps, PTL DEF RetentionSpec

(* What the invariant says of the spans and of the exceptions they carry.    *)
LEMMA RetentionHolds ==
    /\ RetentionInv => SpansInOnePlace /\ RetentionTypeOK
    /\ RetentionInv /\ RetainErrors => ExceptionsExported
<1>1. ASSUME RetentionInv PROVE SpansInOnePlace
  BY <1>1 DEF RetentionInv, BufferSound, TidyEntries, EntryTidy, SpansInOnePlace, RetentionPlaces, EndedUnsampled
<1>2. ASSUME RetentionInv PROVE RetentionTypeOK
  BY <1>2, FS_CardinalityType DEF RetentionInv, BufferSound, SpanState, RetentionTypeOK
<1>3. ASSUME RetentionInv, RetainErrors PROVE ExceptionsExported
  <2>1. ASSUME NEW s \in SdkSpan, sdkSpans[s].st # "none", sdkSpans[s].error
        PROVE  sdkSpans[s].st = "open" \/ sdkSpans[s].sampled \/ forwardedSpans[s] > 0
    BY <1>3, <2>1 DEF RetentionInv, SpanState, MarkedForwarded, EndedUnsampled
  <2> QED
    BY <1>3, <2>1 DEF RetentionInv, CapturesRide, ExceptionsExported
<1> QED
  BY <1>1, <1>2, <1>3

-----------------------------------------------------------------------------
(***************************************************************************)
(* The tail processor of the Python adapter.                                *)
(***************************************************************************)
PythonSpec == PyInit /\ [][PyNext]_pyVars

PyEntry == [trace : PyTraces, spans : Seq(PySpan), retained : BOOLEAN, first : Int]
PyEnd == [worker : Worker \cup {"none"}, error : {"none", "status", "event"}]

(* A buffer of a worker.                                                     *)
PyBuffer(q) == q \in Seq(PyEntry) /\ TidyEntries(q, PyTraceOf) /\ Len(q) <= MaxKept

LEMMA PyHeldIs == ASSUME NEW q PROVE SpansOf(ToSet(q)) = SpansHeld(q)
  BY DEF SpansOf, SpansHeld, SpansHeldAt, ToSet, Range

LEMMA PyEntryFacts ==
    ASSUME NEW q \in Seq(PyEntry), NEW i \in DOMAIN q
    PROVE  /\ i \in 1..Len(q) /\ Len(q) \in Nat /\ DOMAIN q = 1..Len(q) /\ q[i] \in PyEntry
           /\ q[i].spans \in Seq(PySpan)
<1>1. i \in 1..Len(q) /\ Len(q) \in Nat /\ DOMAIN q = 1..Len(q) /\ q[i] \in PyEntry
  BY ElementOfSeq
<1> QED
  BY <1>1 DEF PyEntry

(* SpansIn is how many spans a buffer holds.                                 *)
LEMMA SpansInIs ==
    ASSUME NEW q, PyBuffer(q)
    PROVE  /\ IsFiniteSet(SpansHeld(q)) /\ Cardinality(SpansHeld(q)) = SpansIn(q) /\ SpansIn(q) \in Nat
           /\ SpansHeld(q) \subseteq PySpan
<1>1. q \in Seq(PyEntry) /\ TidyEntries(q, PyTraceOf) /\ DOMAIN q \in SUBSET (DOMAIN q)
  BY DEF PyBuffer
<1>2. \A i \in DOMAIN q : q[i].spans \in Seq(PySpan)
  BY <1>1, PyEntryFacts
<1>3. IsFiniteSet(DOMAIN q)
  BY <1>1, FS_Interval
<1>4. /\ IsFiniteSet(SpansHeld(q)) /\ Cardinality(SpansHeld(q)) \in Nat
      /\ Cardinality(SpansHeld(q)) = SetSum([i \in DOMAIN q |-> Len(q[i].spans)], DOMAIN q)
  BY <1>1, <1>2, <1>3, HeldCount DEF SpansHeld
<1>5. SpansIn(q) = SetSum([i \in DOMAIN q |-> Len(q[i].spans)], DOMAIN q)
  BY DEF SpansIn, MapThenSumSet, MapThenFoldSet, SetSum, SetSums, SumStep, AnyOf
<1>6. SpansHeld(q) \subseteq PySpan
  BY <1>2 DEF SpansHeld, SpansHeldAt, ToSet, Range
<1> QED
  BY <1>4, <1>5, <1>6

(* A buffer that holds no more than another has no larger count.             *)
LEMMA HoldsLess ==
    ASSUME NEW q, NEW r, PyBuffer(q), PyBuffer(r), SpansHeld(r) \subseteq SpansHeld(q)
    PROVE  SpansIn(r) <= SpansIn(q)
  BY SpansInIs, FS_Subset

(* What is left of a buffer at some of its places.                           *)
LEMMA LeftAtFacts ==
    ASSUME NEW q, PyBuffer(q), NEW I \in SUBSET (DOMAIN q)
    PROVE  /\ PyBuffer(LeftAt(q, I)) /\ SpansHeld(LeftAt(q, I)) = SpansHeldAt(q, I)
           /\ SpansHeld(LeftAt(q, I)) \subseteq SpansHeld(q) /\ Len(LeftAt(q, I)) <= Len(q)
           /\ \A k \in DOMAIN LeftAt(q, I) : \E i \in I : LeftAt(q, I)[k] = q[i]
<1> DEFINE r == InOrderOf(q, I)
           g == [k \in 1..Cardinality(I) |-> KthOf(I, k)]
<1>0. LeftAt(q, I) = r
  BY DEF LeftAt, InOrderOf, KthOf
<1>1. /\ q \in Seq(PyEntry) /\ TidyEntries(q, PyTraceOf) /\ Len(q) \in Nat /\ DOMAIN q = 1..Len(q)
      /\ Len(q) <= MaxKept /\ MaxKept \in Nat /\ I \in SUBSET (1..Len(q))
  BY PyAssumption DEF PyBuffer
<1>2. /\ r \in Seq(PyEntry) /\ Len(r) = Cardinality(I) /\ IsFiniteSet(I) /\ Cardinality(I) \in Nat
      /\ \A k \in 1..Cardinality(I) : KthOf(I, k) \in I /\ r[k] = q[KthOf(I, k)]
      /\ \A k, l \in 1..Cardinality(I) : KthOf(I, k) = KthOf(I, l) => k = l
      /\ \A i \in I : \E k \in 1..Cardinality(I) : KthOf(I, k) = i
  BY <1>1, InOrderFacts DEF r
<1> HIDE DEF r
<1>3. DOMAIN r = 1..Cardinality(I)
  BY <1>2
<1>4. \A k \in DOMAIN r : g[k] = KthOf(I, k) /\ g[k] \in I
  BY <1>2, <1>3
<1>5. g = [k \in DOMAIN r |-> g[k]]
  BY <1>3
<1> HIDE DEF g
<1>6. g \in [DOMAIN r -> DOMAIN q]
  BY <1>4, <1>5
<1>7. (\A k, l \in DOMAIN r : g[k] = g[l] => k = l) /\ \A k \in DOMAIN r : r[k] = q[g[k]]
  BY <1>2, <1>3, <1>4
<1>8. {g[k] : k \in DOMAIN r} = I
  BY <1>2, <1>3, <1>4
<1>9. TidyEntries(r, PyTraceOf) /\ SpansHeld(r) = SpansHeldAt(q, {g[k] : k \in DOMAIN r}) /\ SpansHeld(r) \subseteq SpansHeld(q)
  BY <1>1, <1>6, <1>7, SomeOfTidy
<1>10. Len(r) <= Len(q)
  <2>1. IsFiniteSet(1..Len(q)) /\ Cardinality(1..Len(q)) = Len(q)
    <3>1. 1 \in Int /\ Len(q) \in Int
      BY <1>1
    <3>2. IsFiniteSet(1..Len(q)) /\ Cardinality(1..Len(q)) = IF 1 > Len(q) THEN 0 ELSE Len(q) - 1 + 1
      BY <3>1, FS_Interval
    <3> QED
      BY <1>1, <3>2
  <2>2. Cardinality(I) <= Len(q)
    BY <1>1, <2>1, FS_Subset
  <2> QED
    BY <1>2, <2>2
<1>11. PyBuffer(r)
  BY <1>1, <1>2, <1>9, <1>10 DEF PyBuffer
<1>12. \A k \in DOMAIN r : \E i \in I : r[k] = q[i]
  BY <1>4, <1>7
<1>13. SpansHeld(r) = SpansHeldAt(q, I)
  BY <1>8, <1>9
<1> QED
  BY <1>0, <1>9, <1>10, <1>11, <1>12, <1>13

LEMMA WithoutFacts ==
    ASSUME NEW q, PyBuffer(q), NEW dropped
    PROVE  /\ PyBuffer(Without(q, dropped)) /\ SpansHeld(Without(q, dropped)) \subseteq SpansHeld(q)
           /\ SpansIn(Without(q, dropped)) <= SpansIn(q)
<1> DEFINE I == {i \in DOMAIN q : q[i].trace \notin dropped}
<1>1. Without(q, dropped) = LeftAt(q, I) /\ I \in SUBSET (DOMAIN q)
  BY DEF Without
<1> HIDE DEF I
<1>2. PyBuffer(LeftAt(q, I)) /\ SpansHeld(LeftAt(q, I)) \subseteq SpansHeld(q)
  BY <1>1, LeftAtFacts
<1> QED
  BY <1>1, <1>2, HoldsLess

(* _evict_over_budget(): whole traces go, until the rest is within it.       *)
LEMMA EvictFacts ==
    ASSUME NEW q, PyBuffer(q)
    PROVE  /\ PyBuffer(EvictOverBudget(q)) /\ SpansHeld(EvictOverBudget(q)) \subseteq SpansHeld(q)
           /\ SpansIn(EvictOverBudget(q)) <= MaxKept
<1> DEFINE I == {i \in DOMAIN q : q[i].spans # <<>>}
           holders == LeftAt(q, I)
           Left(n) == Without(q, {holders[i].trace : i \in 1..n})
           N == {n \in 0..Len(holders) : SpansIn(Left(n)) <= MaxKept}
<1>1. EvictOverBudget(q) = Left(Min(N))
  BY DEF EvictOverBudget
<1>2. /\ PyBuffer(holders) /\ SpansHeld(holders) = SpansHeldAt(q, I) /\ I \in SUBSET (DOMAIN q)
      /\ DOMAIN holders = 1..Len(holders) /\ Len(holders) \in Nat
  <2>1. I \in SUBSET (DOMAIN q)
    OBVIOUS
  <2>2. PyBuffer(holders) /\ SpansHeld(holders) = SpansHeldAt(q, I)
    <3> HIDE DEF I
    <3> QED
      BY <2>1, LeftAtFacts
  <2> HIDE DEF holders
  <2> QED
    BY <2>1, <2>2 DEF PyBuffer
<1> HIDE DEF holders
<1>3. \A n \in 0..Len(holders) : PyBuffer(Left(n)) /\ SpansHeld(Left(n)) \subseteq SpansHeld(q)
  BY WithoutFacts
<1>4. Len(holders) \in N
  <2> DEFINE l == Len(holders)
             J == {i \in DOMAIN q : q[i].trace \notin {holders[k].trace : k \in 1..l}}
  <2>1. \A i \in J : q[i].spans = <<>>
    <3>1. SUFFICES ASSUME NEW i \in DOMAIN q, q[i].spans # <<>> PROVE \E k \in 1..l : holders[k].trace = q[i].trace
      OBVIOUS
    <3>2. q[i].spans \in Seq(PySpan)
      BY PyEntryFacts DEF PyBuffer
    <3>3. 1 \in DOMAIN q[i].spans
      BY <3>1, <3>2, EmptySeq
    <3>4. i \in I /\ q[i].spans[1] \in SpansHeldAt(q, I)
      BY <3>1, <3>3 DEF SpansHeldAt, ToSet, Range
    <3>5. PICK k \in DOMAIN holders : \E a \in DOMAIN holders[k].spans : holders[k].spans[a] = q[i].spans[1]
      BY <1>2, <3>4, HeldElement DEF SpansHeld
    <3>6. PICK a \in DOMAIN holders[k].spans : holders[k].spans[a] = q[i].spans[1]
      BY <3>5
    <3>7. holders[k].trace = PyTraceOf[holders[k].spans[a]] /\ q[i].trace = PyTraceOf[q[i].spans[1]]
      BY <1>2, <3>3, <3>6 DEF PyBuffer, TidyEntries, EntryTidy
    <3> QED
      BY <1>2, <3>6, <3>7
  <2>2. Left(l) = LeftAt(q, J) /\ J \in SUBSET (DOMAIN q)
    BY DEF Without
  <2>3. SpansHeldAt(q, J) = {}
    BY <2>1 DEF ToSet, Range, SpansHeldAt
  <2>4. l \in 0..Len(holders)
    BY <1>2
  <2> HIDE DEF J
  <2>5. PyBuffer(LeftAt(q, J)) /\ SpansHeld(LeftAt(q, J)) = {}
    BY <2>2, <2>3, LeftAtFacts
  <2>6. SpansIn(LeftAt(q, J)) = 0
    BY <2>5, SpansInIs, FS_EmptySet
  <2>7. SpansIn(Left(l)) <= MaxKept
    BY <2>2, <2>6, PyAssumption
  <2> QED
    BY <2>4, <2>7
<1>5. N \in SUBSET Nat /\ N # {}
  <2>1. N \in SUBSET Nat
    BY <1>2
  <2> HIDE DEF N
  <2> QED
    BY <1>4, <2>1
<1>6. Min(N) \in N
  <2> HIDE DEF N
  <2> QED
    BY <1>5, MinIsLeast
<1> QED
  BY <1>1, <1>3, <1>6

LEMMA PySweptFacts ==
    ASSUME NEW w \in Worker, PyBuffer(traces[w]), SpansIn(traces[w]) <= MaxKept
    PROVE  /\ PyBuffer(PySwept(w)) /\ SpansHeld(PySwept(w)) \subseteq SpansHeld(traces[w])
           /\ SpansIn(PySwept(w)) <= MaxKept
<1> DEFINE q == traces[w]
           I == {i \in DOMAIN q : q[i].first > pyClock - TraceLife}
<1>1. PySwept(w) = q \/ PySwept(w) = LeftAt(q, I)
  BY DEF PySwept
<1>2. I \in SUBSET (DOMAIN q)
  OBVIOUS
<1> HIDE DEF I, q
<1>3. PyBuffer(LeftAt(q, I)) /\ SpansHeld(LeftAt(q, I)) \subseteq SpansHeld(q) /\ PyBuffer(q) /\ SpansIn(q) <= MaxKept
  BY <1>2, LeftAtFacts DEF q
<1>4. SpansIn(LeftAt(q, I)) <= MaxKept
  BY <1>3, HoldsLess, SpansInIs, PyAssumption
<1> QED
  BY <1>1, <1>3, <1>4 DEF q

(* _entry(): the trace has one entry, and no span is new. *)
LEMMA WithEntryFacts ==
    ASSUME NEW q, PyBuffer(q), SpansIn(q) <= MaxKept, NEW t \in PyTraces, pyClock \in Int
    PROVE  /\ PyBuffer(WithEntry(q, t)) /\ SpansHeld(WithEntry(q, t)) \subseteq SpansHeld(q)
           /\ SpansIn(WithEntry(q, t)) <= MaxKept
           /\ \E i \in DOMAIN WithEntry(q, t) : WithEntry(q, t)[i].trace = t
<1> DEFINE n == WithEntry(q, t)
           room == IF Len(q) >= MaxKept THEN Tail(q) ELSE q
           e == [trace |-> t, spans |-> <<>>, retained |-> FALSE, first |-> pyClock]
<1>1. /\ q \in Seq(PyEntry) /\ TidyEntries(q, PyTraceOf) /\ Len(q) \in Nat /\ DOMAIN q = 1..Len(q)
      /\ Len(q) <= MaxKept /\ MaxKept \in Nat /\ MaxKept >= 1
  BY PyAssumption DEF PyBuffer
<1>2. CASE \E i \in DOMAIN q : q[i].trace = t
  <2>1. n = q
    BY <1>2 DEF WithEntry
  <2> QED
    BY <1>2, <2>1
<1>3. CASE ~\E i \in DOMAIN q : q[i].trace = t
  <2>1. n = Append(room, e)
    BY <1>3 DEF WithEntry
  <2>2. /\ room \in Seq(PyEntry) /\ TidyEntries(room, PyTraceOf) /\ SpansHeld(room) \subseteq SpansHeld(q) /\ Len(room) < MaxKept
        /\ \A i \in DOMAIN room : room[i].trace # t
    <3>1. CASE Len(q) >= MaxKept
      <4> DEFINE r == Tail(q)
                 g == [k \in DOMAIN r |-> k + 1]
      <4>1. r \in Seq(PyEntry) /\ Len(r) = Len(q) - 1 /\ \A k \in 1..Len(r) : r[k] = q[k + 1]
        BY <1>1, <3>1, HeadTailProperties
      <4> HIDE DEF r
      <4>2. DOMAIN r = 1..Len(q) - 1
        BY <1>1, <4>1
      <4>3. /\ g \in [DOMAIN r -> DOMAIN q] /\ (\A k, l \in DOMAIN r : g[k] = g[l] => k = l)
            /\ \A k \in DOMAIN r : r[k] = q[g[k]]
        BY <1>1, <4>1, <4>2
      <4> HIDE DEF g
      <4>4. TidyEntries(r, PyTraceOf) /\ SpansHeld(r) \subseteq SpansHeld(q)
        BY <1>1, <4>3, SomeOfTidy
      <4>5. \A i \in DOMAIN r : r[i].trace # t
        BY <1>3, <4>3
      <4>6. room = r /\ Len(r) < MaxKept
        BY <1>1, <3>1, <4>1 DEF r
      <4> QED
        BY <4>1, <4>4, <4>5, <4>6
    <3>2. CASE ~(Len(q) >= MaxKept)
      BY <1>1, <1>3, <3>2
    <3> QED
      BY <3>1, <3>2
  <2> HIDE DEF room
  <2>3. e \in PyEntry /\ e.spans = <<>> /\ e.trace = t
    BY DEF PyEntry
  <2> HIDE DEF e
  <2>4. TidyEntries(n, PyTraceOf) /\ SpansHeld(n) = SpansHeld(room)
    BY <2>1, <2>2, <2>3, AppendTidy
  <2>5. n \in Seq(PyEntry) /\ Len(n) = Len(room) + 1 /\ n[Len(room) + 1] = e /\ Len(room) \in Nat
    BY <2>1, <2>2, <2>3, AppendProperties
  <2> HIDE DEF n
  <2>6. Len(n) <= MaxKept /\ Len(room) + 1 \in DOMAIN n
    BY <1>1, <2>2, <2>5
  <2>7. PyBuffer(n) /\ SpansHeld(n) \subseteq SpansHeld(q)
    BY <2>2, <2>4, <2>5, <2>6 DEF PyBuffer
  <2>8. SpansIn(n) <= MaxKept
    BY <2>7, HoldsLess, SpansInIs, <1>1
  <2> QED
    BY <2>3, <2>5, <2>6, <2>7, <2>8 DEF n
<1> QED
  BY <1>2, <1>3

(* Put an entry in the place of that of its trace.                           *)
LEMMA PutFacts ==
    ASSUME NEW q, PyBuffer(q), NEW i \in DOMAIN q, NEW e \in PyEntry, e.trace = q[i].trace,
           EntryTidy(e, PyTraceOf)
    PROVE  /\ PyBuffer(Put(q, q[i].trace, e))
           /\ SpansHeld(Put(q, q[i].trace, e)) = (SpansHeld(q) \ ToSet(q[i].spans)) \cup ToSet(e.spans)
<1> DEFINE r == Put(q, q[i].trace, e)
<1>1. /\ q \in Seq(PyEntry) /\ TidyEntries(q, PyTraceOf) /\ Len(q) \in Nat /\ DOMAIN q = 1..Len(q) /\ Len(q) <= MaxKept
  BY DEF PyBuffer
<1>2. DOMAIN r = DOMAIN q /\ r[i] = e /\ \A j \in DOMAIN q \ {i} : r[j] = q[j]
  <2>1. r = [j \in DOMAIN q |-> IF q[j].trace = q[i].trace THEN e ELSE q[j]]
    BY DEF Put
  <2>2. \A j \in DOMAIN q \ {i} : q[j].trace # q[i].trace
    BY <1>1 DEF TidyEntries
  <2> HIDE DEF r
  <2> QED
    BY <2>1, <2>2
<1>3. r \in [1..Len(q) -> PyEntry]
  <2>1. r = [j \in DOMAIN q |-> IF q[j].trace = q[i].trace THEN e ELSE q[j]]
    BY DEF Put
  <2>2. \A j \in DOMAIN q : q[j] \in PyEntry
    BY <1>1, PyEntryFacts
  <2> HIDE DEF r
  <2> QED
    BY <1>1, <2>1, <2>2
<1> HIDE DEF r
<1>4. r \in Seq(PyEntry) /\ Len(r) = Len(q)
  BY <1>1, <1>3, SeqDef
<1>5. TidyEntries(r, PyTraceOf) /\ SpansHeld(r) = (SpansHeld(q) \ ToSet(q[i].spans)) \cup ToSet(r[i].spans)
  <2>1. r[i].trace = q[i].trace /\ EntryTidy(r[i], PyTraceOf)
    BY <1>2
  <2> QED
    BY <1>1, <1>2, <2>1, PutTidy
<1> QED
  BY <1>1, <1>2, <1>4, <1>5 DEF PyBuffer, r

(* What on_end() leaves of the buffer q, with the span s, and what it lets go. *)
RetainedWell(after, q, s, error) ==
    /\ PyBuffer(after.traces) /\ SpansIn(after.traces) <= MaxKept
    /\ SpansHeld(after.traces) \subseteq SpansHeld(q) \cup {s}
    /\ after.forward \in Seq(PySpan) /\ Injective(after.forward)
    /\ ToSet(after.forward) \subseteq SpansHeld(q) \cup {s}
    /\ ToSet(after.forward) \cap SpansHeld(after.traces) = {}
    /\ PyError(error) => s \in ToSet(after.forward)

(* The entries of one trace, with one span more. *)
LEMMA OneMore ==
    ASSUME NEW p \in Seq(PySpan), NEW s \in PySpan, Injective(p), s \notin ToSet(p)
    PROVE  /\ Append(p, s) \in Seq(PySpan) /\ Injective(Append(p, s))
           /\ ToSet(Append(p, s)) = ToSet(p) \cup {s}
           /\ \A a \in DOMAIN Append(p, s) : Append(p, s)[a] = s \/ \E b \in DOMAIN p : Append(p, s)[a] = p[b]
<1> DEFINE r == Append(p, s)
<1>1. /\ r \in Seq(PySpan) /\ Len(p) \in Nat /\ DOMAIN p = 1..Len(p) /\ DOMAIN r = 1..Len(p) + 1
      /\ r[Len(p) + 1] = s /\ \A a \in DOMAIN p : r[a] = p[a]
  BY AppendProperties
<1> HIDE DEF r
<1>2. \A a \in DOMAIN p : p[a] # s
  BY DEF ToSet, Range
<1>3. DOMAIN r = DOMAIN p \cup {Len(p) + 1} /\ Len(p) + 1 \notin DOMAIN p
  BY <1>1
<1>4. Injective(r)
  BY <1>1, <1>2, <1>3 DEF Injective
<1>5. ToSet(r) = ToSet(p) \cup {s}
  BY <1>1, <1>3 DEF ToSet, Range
<1> QED
  BY <1>1, <1>3, <1>4, <1>5 DEF r

LEMMA RetainedFacts ==
    ASSUME NEW w \in Worker, NEW s \in PySpan, NEW error, PyBuffer(traces[w]), SpansIn(traces[w]) <= MaxKept,
           pyClock \in Int, s \notin SpansHeld(traces[w])
    PROVE  RetainedWell(Retained(w, s, error), traces[w], s, error)
<1> DEFINE q == traces[w]
           trace == PyTraceOf[s]
           entries == WithEntry(PySwept(w), trace)
           entry == CHOOSE e \in ToSet(entries) : e.trace = trace
           now == [traces |-> Put(entries, trace, [entry EXCEPT !.retained = TRUE, !.spans = <<>>]),
                   forward |-> Append(entry.spans, s)]
           later == [traces |-> EvictOverBudget(Put(entries, trace, [entry EXCEPT !.spans = Append(@, s)])),
                     forward |-> <<>>]
           after == CASE entry.retained -> [traces |-> entries, forward |-> <<s>>]
                      [] ~entry.retained /\ PyError(error) -> now
                      [] ~entry.retained /\ ~PyError(error) /\ Len(entry.spans) < PerTrace -> later
                      [] OTHER -> [traces |-> entries, forward |-> <<>>]
           healthy == s \in LocalRoot /\ ~entry.retained /\ ~PyError(error)
<1>1. Retained(w, s, error) = [after EXCEPT !.traces = IF healthy THEN Without(@, {trace}) ELSE @]
  BY DEF Retained
<1>2. /\ PyBuffer(entries) /\ SpansHeld(entries) \subseteq SpansHeld(q) /\ SpansIn(entries) <= MaxKept
      /\ \E i \in DOMAIN entries : entries[i].trace = trace
  <2>1. PyBuffer(PySwept(w)) /\ SpansHeld(PySwept(w)) \subseteq SpansHeld(q) /\ SpansIn(PySwept(w)) <= MaxKept
    BY PySweptFacts
  <2>2. trace \in PyTraces
    BY DEF PyTraces
  <2> HIDE DEF trace, q
  <2> QED
    BY <2>1, <2>2, WithEntryFacts
<1> HIDE DEF entries, trace, q
<1>3. PICK i \in DOMAIN entries : entry = entries[i] /\ entries[i].trace = trace
  <2>1. \E e \in ToSet(entries) : e.trace = trace
    BY <1>2 DEF ToSet, Range
  <2>2. entry \in ToSet(entries) /\ entry.trace = trace
    BY <2>1
  <2> HIDE DEF entry
  <2> QED
    BY <2>2 DEF ToSet, Range
<1>4. entry \in PyEntry /\ entry.spans \in Seq(PySpan) /\ EntryTidy(entry, PyTraceOf) /\ entry.trace = trace
  <2>1. entries \in Seq(PyEntry) /\ TidyEntries(entries, PyTraceOf)
    BY <1>2 DEF PyBuffer
  <2> HIDE DEF entry
  <2> QED
    BY <1>3, <2>1, PyEntryFacts DEF TidyEntries
<1>5. ToSet(entry.spans) \subseteq SpansHeld(entries) /\ s \notin ToSet(entry.spans) /\ s \notin SpansHeld(q)
  <2> HIDE DEF entry
  <2>1. ToSet(entry.spans) \subseteq SpansHeld(entries)
    BY <1>3 DEF SpansHeld, SpansHeldAt
  <2> QED
    BY <1>2, <2>1 DEF q
<1>6. Injective(entry.spans)
  BY <1>4 DEF EntryTidy
<1> HIDE DEF entry
<1> DEFINE more == Append(entry.spans, s)
<1>7. /\ more \in Seq(PySpan) /\ Injective(more) /\ ToSet(more) = ToSet(entry.spans) \cup {s}
      /\ \A a \in DOMAIN more : more[a] = s \/ \E b \in DOMAIN entry.spans : more[a] = entry.spans[b]
  BY <1>4, <1>5, <1>6, OneMore
<1>8. ToSet(<<>>) = {} /\ Injective(<<>>) /\ <<>> \in Seq(PySpan)
  BY DEF ToSet, Range, Injective
<1>9. ASSUME NEW f, NEW r, f.traces = r.traces, f.forward = r.forward,
             RetainedWell(f, q, s, error)
      PROVE  RetainedWell(r, q, s, error)
  BY <1>9 DEF RetainedWell
<1>10. CASE entry.retained
  <2>1. after = [traces |-> entries, forward |-> <<s>>] /\ ~healthy
    BY <1>10
  <2>2. Retained(w, s, error) = [traces |-> entries, forward |-> <<s>>]
    <3> HIDE DEF after, healthy
    <3> QED
      BY <1>1, <2>1
  <2>3. <<s>> \in Seq(PySpan) /\ Injective(<<s>>) /\ ToSet(<<s>>) = {s}
    BY DEF Injective, ToSet, Range
  <2> QED
    BY <1>2, <1>5, <2>2, <2>3 DEF RetainedWell, q
<1>11. CASE ~entry.retained /\ PyError(error)
  <2>1. after = now /\ ~healthy
    BY <1>11
  <2>2. Retained(w, s, error) = now
    <3> HIDE DEF after, healthy
    <3> QED
      BY <1>1, <2>1
  <2> DEFINE e == [entry EXCEPT !.retained = TRUE, !.spans = <<>>]
  <2>3. e \in PyEntry /\ e.trace = trace /\ e.spans = <<>>
    BY <1>8, <1>4 DEF PyEntry
  <2> HIDE DEF e
  <2>4. EntryTidy(e, PyTraceOf)
    BY <2>3 DEF EntryTidy, Injective
  <2>5. /\ PyBuffer(Put(entries, trace, e))
        /\ SpansHeld(Put(entries, trace, e)) = SpansHeld(entries) \ ToSet(entry.spans)
    BY <1>2, <1>3, <2>3, <2>4, PutFacts, <1>8
  <2>6. SpansIn(Put(entries, trace, e)) <= MaxKept
    BY <1>2, <2>5, HoldsLess, SpansInIs, PyAssumption
  <2>7. now.traces = Put(entries, trace, e) /\ now.forward = more
    BY DEF e
  <2> HIDE DEF now, more
  <2>8. RetainedWell(now, q, s, error)
    BY <1>2, <1>5, <1>7, <2>5, <2>6, <2>7 DEF RetainedWell
  <2> QED
    BY <2>2, <2>8 DEF q
<1>12. CASE ~entry.retained /\ ~PyError(error)
  <2>1. after = (IF Len(entry.spans) < PerTrace THEN later ELSE [traces |-> entries, forward |-> <<>>])
    BY <1>12
  <2> DEFINE e == [entry EXCEPT !.spans = Append(@, s)]
  <2>3. e \in PyEntry /\ e.trace = trace /\ e.spans = more /\ e.retained = entry.retained
    <3>1. \A x \in PyEntry : \A p \in Seq(PySpan) :
             /\ [x EXCEPT !.spans = p] \in PyEntry /\ [x EXCEPT !.spans = p].trace = x.trace
             /\ [x EXCEPT !.spans = p].spans = p /\ [x EXCEPT !.spans = p].retained = x.retained
      BY DEF PyEntry
    <3>2. e = [entry EXCEPT !.spans = more]
      OBVIOUS
    <3> HIDE DEF e, more
    <3> QED
      BY <1>4, <1>7, <3>1, <3>2
  <2> HIDE DEF e
  <2>4. EntryTidy(e, PyTraceOf)
    <3>1. \A a \in DOMAIN more : PyTraceOf[more[a]] = trace
      <4>1. \A b \in DOMAIN entry.spans : PyTraceOf[entry.spans[b]] = trace
        BY <1>4 DEF EntryTidy
      <4> HIDE DEF more
      <4> QED
        BY <1>7, <4>1 DEF trace
    <3> HIDE DEF more
    <3> QED
      BY <1>7, <1>12, <2>3, <3>1 DEF EntryTidy
  <2>5. /\ PyBuffer(Put(entries, trace, e))
        /\ SpansHeld(Put(entries, trace, e)) \subseteq SpansHeld(q) \cup {s}
    <3>1. /\ PyBuffer(Put(entries, entries[i].trace, e))
          /\ SpansHeld(Put(entries, entries[i].trace, e)) = (SpansHeld(entries) \ ToSet(entries[i].spans)) \cup ToSet(e.spans)
      <4>1. e \in PyEntry /\ e.trace = entries[i].trace /\ EntryTidy(e, PyTraceOf) /\ PyBuffer(entries)
        BY <1>2, <1>3, <2>3, <2>4
      <4> QED
        BY <4>1, PutFacts
    <3> HIDE DEF more
    <3> QED
      BY <1>2, <1>3, <1>5, <1>7, <2>3, <3>1
  <2>6. /\ PyBuffer(later.traces) /\ SpansHeld(later.traces) \subseteq SpansHeld(q) \cup {s}
        /\ SpansIn(later.traces) <= MaxKept /\ later.forward = <<>>
    <3>1. later.traces = EvictOverBudget(Put(entries, trace, e)) /\ later.forward = <<>>
      BY DEF e
    <3> HIDE DEF later
    <3> QED
      BY <2>5, <3>1, EvictFacts
  <2>7. /\ PyBuffer(after.traces) /\ SpansHeld(after.traces) \subseteq SpansHeld(q) \cup {s}
        /\ SpansIn(after.traces) <= MaxKept /\ after.forward = <<>>
        /\ after = [traces |-> after.traces, forward |-> after.forward]
    <3>1. CASE Len(entry.spans) < PerTrace
      <4>1. after = later /\ later = [traces |-> later.traces, forward |-> later.forward]
        BY <2>1, <3>1
      <4> HIDE DEF after, later
      <4> QED
        BY <2>6, <4>1
    <3>2. CASE ~(Len(entry.spans) < PerTrace)
      <4>1. after = [traces |-> entries, forward |-> <<>>]
        BY <2>1, <3>2
      <4> HIDE DEF after, later
      <4> QED
        BY <1>2, <4>1
    <3> QED
      BY <3>1, <3>2
  <2> HIDE DEF after, healthy
  <2>8. /\ Retained(w, s, error).forward = <<>>
        /\ Retained(w, s, error).traces = IF healthy THEN Without(after.traces, {trace}) ELSE after.traces
    BY <1>1, <2>7
  <2> DEFINE rest == Without(after.traces, {trace})
  <2>9. PyBuffer(rest) /\ SpansHeld(rest) \subseteq SpansHeld(q) \cup {s} /\ SpansIn(rest) <= MaxKept
    <3>1. PyBuffer(rest) /\ SpansHeld(rest) \subseteq SpansHeld(after.traces) /\ SpansIn(rest) <= SpansIn(after.traces)
      BY <2>7, WithoutFacts
    <3>2. SpansIn(rest) \in Nat /\ SpansIn(after.traces) \in Nat
      BY <2>7, <3>1, SpansInIs
    <3> HIDE DEF rest
    <3> QED
      BY <2>7, <3>1, <3>2, PyAssumption
  <2> HIDE DEF rest
  <2> QED
    BY <1>8, <1>12, <2>7, <2>8, <2>9 DEF RetainedWell, q, rest
<1> QED
  BY <1>10, <1>11, <1>12

-----------------------------------------------------------------------------
Ends == [worker : Worker, error : {"none", "status", "event"}]

(* The spans on their way out: in the hands of one thread.                   *)
SendingSound ==
    /\ sending \in [Worker -> [PyThread -> Seq(PySpan)]]
    /\ \A w \in Worker, t \in PyThread : Injective(sending[w][t])
    /\ \A w, v \in Worker, t, u \in PyThread :
          (\E s \in ToSet(sending[w][t]) : s \in ToSet(sending[v][u])) => w = v /\ t = u

BuffersSound ==
    /\ traces \in [Worker -> Seq(PyEntry)]
    /\ \A w \in Worker : /\ PyBuffer(traces[w]) /\ kept[w] = SpansIn(traces[w]) /\ kept[w] <= MaxKept
                         /\ w \notin forked => traces[w] = <<>>

(* A span waits in the process it ended in, or is under way, exported or lost. *)
PyPlaces ==
    \A s \in PySpan :
        LET Waits == \E w \in Worker : s \in SpansHeld(traces[w]) IN
        /\ \A w \in Worker : s \in SpansHeld(traces[w]) => ended[s].worker = w
        /\ \/ ended[s] = NotEnded /\ exported[s] = 0 /\ s \notin UnderWay /\ s \notin lost /\ ~Waits
           \/ ended[s] # NotEnded /\ exported[s] = 1 /\ s \notin UnderWay /\ s \notin lost /\ ~Waits
           \/ ended[s] # NotEnded /\ exported[s] = 0 /\ s \in UnderWay /\ s \notin lost /\ ~Waits
           \/ ended[s] # NotEnded /\ exported[s] = 0 /\ s \notin UnderWay /\ s \in lost /\ ~Waits
           \/ ended[s] # NotEnded /\ exported[s] = 0 /\ s \notin UnderWay /\ s \notin lost /\ Waits

PyInv ==
    /\ pyClock \in Nat /\ forked \subseteq Worker /\ nextSweep \in [Worker -> Nat]
    /\ BuffersSound /\ kept \in [Worker -> Nat] /\ SendingSound
    /\ ended \in [PySpan -> Ends \cup {NotEnded}] /\ exported \in [PySpan -> Nat] /\ lost \subseteq PySpan
    /\ PyPlaces
    /\ \A s \in PySpan : PyError(ended[s].error) => s \in UnderWay \/ exported[s] > 0
    /\ points = {s \in ServerSpan \cap LocalRoot : counting /\ ended[s] # NotEnded}

LEMMA UnderWayIs ==
    ASSUME NEW s
    PROVE  s \in UnderWay <=> \E w \in Worker, t \in PyThread : s \in ToSet(sending[w][t])
  BY DEF UnderWay

LEMMA PyNone ==
    /\ ToSet(<<>>) = {} /\ Injective(<<>>) /\ SpansHeld(<<>>) = {} /\ <<>> \in Seq(PySpan)
    /\ <<>> \in Seq(PyEntry) /\ PyBuffer(<<>>) /\ SpansIn(<<>>) = 0 /\ 0 <= MaxKept
<1>1. ToSet(<<>>) = {} /\ Injective(<<>>) /\ <<>> \in Seq(PySpan) /\ <<>> \in Seq(PyEntry) /\ Len(<<>>) = 0
  BY DEF ToSet, Range, Injective
<1>2. SpansHeld(<<>>) = {} /\ TidyEntries(<<>>, PyTraceOf)
  BY DEF SpansHeld, SpansHeldAt, TidyEntries
<1>3. MaxKept \in Nat
  BY PyAssumption
<1>4. PyBuffer(<<>>)
  BY <1>1, <1>2, <1>3 DEF PyBuffer
<1>5. SpansIn(<<>>) = 0
  BY <1>2, <1>4, SpansInIs, FS_EmptySet
<1> QED
  BY <1>1, <1>2, <1>3, <1>4, <1>5

LEMMA PyStarts == PyInit => PyInv
<1> SUFFICES ASSUME PyInit PROVE PyInv
  OBVIOUS
<1>1. First \in Worker
  BY PyAssumption DEF First
<1>2. /\ pyClock \in Nat /\ forked \subseteq Worker /\ nextSweep \in [Worker -> Nat]
      /\ kept \in [Worker -> Nat]
      /\ ended \in [PySpan -> Ends \cup {NotEnded}] /\ exported \in [PySpan -> Nat] /\ lost \subseteq PySpan
  BY <1>1, PyAssumption DEF PyInit
<1>3. BuffersSound
  BY PyNone DEF PyInit, BuffersSound
<1>4. SendingSound /\ UnderWay = {}
  BY PyNone DEF PyInit, SendingSound, UnderWay
<1>5. /\ \A w \in Worker : SpansHeld(traces[w]) = {}
      /\ \A s \in PySpan : ended[s] = NotEnded /\ exported[s] = 0 /\ lost = {}
  BY PyNone DEF PyInit
<1>6. PyPlaces
  BY <1>4, <1>5 DEF PyPlaces
<1>7. \A s \in PySpan : ~PyError(ended[s].error)
  BY <1>5 DEF PyError, NotEnded
<1>8. points = {s \in ServerSpan \cap LocalRoot : counting /\ ended[s] # NotEnded}
  BY <1>5, PyAssumption DEF PyInit
<1> QED
  BY <1>2, <1>3, <1>4, <1>6, <1>7, <1>8 DEF PyInv

(* Nothing moves but the clock, and what else neither the spans nor the       *)
(* buffers see.                                                              *)
LEMMA PyRests ==
    ASSUME PyInv, UNCHANGED <<counting, traces, kept, sending, ended, exported, lost, points>>,
           pyClock' \in Nat, forked \subseteq forked', forked' \subseteq Worker, nextSweep' \in [Worker -> Nat]
    PROVE  PyInv'
<1>1. BuffersSound'
  BY DEF PyInv, BuffersSound
<1>2. SendingSound'
  BY DEF PyInv, SendingSound
<1>3. UnderWay' = UnderWay
  BY DEF UnderWay
<1>4. PyPlaces'
  BY <1>3 DEF PyInv, PyPlaces
<1> QED
  BY <1>1, <1>2, <1>3, <1>4 DEF PyInv

LEMMA PyTickKeeps == ASSUME PyInv, PyTick PROVE PyInv'
<1>1. pyClock' \in Nat
  BY DEF PyInv, PyTick
<1> QED
  BY <1>1, PyRests DEF PyInv, PyTick

(* The child starts without what its parent holds. *)
LEMMA ForksKeeps == ASSUME PyInv, NEW w \in Worker, Forks(w) PROVE PyInv'
<1>1. /\ traces[w] = <<>> /\ kept[w] = 0
  BY PyNone DEF PyInv, BuffersSound, Forks
<1>2. traces' = traces /\ kept' = kept
  BY <1>1 DEF Forks, AfterFork, PyInv, BuffersSound
<1>3. nextSweep' \in [Worker -> Nat] /\ pyClock' \in Nat
  BY PyAssumption DEF Forks, PyInv
<1>4. forked' \subseteq Worker /\ forked \subseteq forked'
  BY DEF Forks, PyInv
<1> QED
  BY <1>2, <1>3, <1>4, PyRests DEF Forks

(* The loop after the lock. *)
LEMMA ForwardsKeeps == ASSUME PyInv, NEW w \in Worker, NEW t \in PyThread, Forwards(w, t) PROVE PyInv'
<1> DEFINE q == sending[w][t]
           s == Head(q)
<1>1. q \in Seq(PySpan) /\ q # <<>> /\ Injective(q) /\ s = q[1] /\ Len(q) \in Nat \ {0} /\ DOMAIN q = 1..Len(q)
  <2>1. q \in Seq(PySpan) /\ q # <<>> /\ Injective(q)
    BY DEF PyInv, SendingSound, Forwards
  <2> HIDE DEF q
  <2> QED
    BY <2>1, EmptySeq
<1> HIDE DEF q
<1>2. s \in ToSet(q) /\ s \in PySpan
  <2> HIDE DEF s
  <2> QED
    BY <1>1 DEF ToSet, Range
<1>3. Tail(q) \in Seq(PySpan) /\ Len(Tail(q)) = Len(q) - 1 /\ \A i \in 1..Len(Tail(q)) : Tail(q)[i] = q[i + 1]
  BY <1>1, HeadTailProperties
<1> DEFINE r == Tail(q)
<1>4. r \in Seq(PySpan) /\ Injective(r) /\ ToSet(r) = ToSet(q) \ {s}
  <2> HIDE DEF r, s
  <2>1. DOMAIN r = 1..Len(q) - 1 /\ \A i \in DOMAIN r : r[i] = q[i + 1] /\ i + 1 \in DOMAIN q
    BY <1>1, <1>3 DEF r
  <2>2. Injective(r)
    BY <1>1, <2>1 DEF Injective
  <2>3. \A i \in DOMAIN q : i = 1 \/ i - 1 \in DOMAIN r
    BY <1>1, <2>1
  <2>4. \A i \in DOMAIN r : r[i] # s
    BY <1>1, <2>1 DEF Injective
  <2>5. \A i \in DOMAIN q \ {1} : r[i - 1] = q[i]
    BY <1>1, <2>1, <2>3
  <2>6. ToSet(r) = ToSet(q) \ {s}
    BY <1>1, <2>1, <2>3, <2>4, <2>5 DEF ToSet, Range
  <2> QED
    BY <1>3, <2>2, <2>6 DEF r
<1>5. /\ exported' = [exported EXCEPT ![s] = @ + 1]
      /\ sending' = [sending EXCEPT ![w][t] = r]
  BY DEF Forwards, q
<1> HIDE DEF r, s
<1>6. /\ sending' \in [Worker -> [PyThread -> Seq(PySpan)]] /\ sending'[w][t] = r
      /\ \A v \in Worker, u \in PyThread : (v # w \/ u # t) => sending'[v][u] = sending[v][u]
  BY <1>4, <1>5 DEF PyInv, SendingSound
<1>7. SendingSound'
  <2>1. \A v \in Worker, u \in PyThread : Injective(sending'[v][u])
    BY <1>4, <1>6 DEF PyInv, SendingSound
  <2>2. \A v \in Worker, u \in PyThread : ToSet(sending'[v][u]) \subseteq ToSet(sending[v][u])
    BY <1>4, <1>6 DEF q
  <2>3. ASSUME NEW v \in Worker, NEW u \in Worker, NEW a \in PyThread, NEW b \in PyThread,
               NEW x \in ToSet(sending'[v][a]), x \in ToSet(sending'[u][b])
        PROVE  v = u /\ a = b
    <3>1. x \in ToSet(sending[v][a]) /\ x \in ToSet(sending[u][b])
      BY <2>2, <2>3
    <3> QED
      BY <3>1 DEF PyInv, SendingSound
  <2>4. ASSUME NEW v \in Worker, NEW u \in Worker, NEW a \in PyThread, NEW b \in PyThread
        PROVE  (\E x \in ToSet(sending'[v][a]) : x \in ToSet(sending'[u][b])) => v = u /\ a = b
    BY <2>3
  <2>5. \A v, u \in Worker, a, b \in PyThread :
           (\E x \in ToSet(sending'[v][a]) : x \in ToSet(sending'[u][b])) => v = u /\ a = b
    BY ONLY <2>4
  <2>6. sending' \in [Worker -> [PyThread -> Seq(PySpan)]]
    BY <1>6
  <2> QED
    BY ONLY <2>1, <2>5, <2>6 DEF SendingSound
<1>8. UnderWay' = UnderWay \ {s} /\ s \in UnderWay
  <2>1. s \in UnderWay
    BY <1>2, UnderWayIs DEF q
  <2>2. \A v \in Worker, u \in PyThread : s \in ToSet(sending[v][u]) => v = w /\ u = t
    BY <1>2 DEF PyInv, SendingSound, q
  <2>3. \A v \in Worker, u \in PyThread : ToSet(sending'[v][u]) = ToSet(sending[v][u]) \ {s}
    BY <1>4, <1>6, <2>2 DEF q
  <2>4. ASSUME NEW x PROVE x \in UnderWay' <=> x \in UnderWay /\ x # s
    <3>1. x \in UnderWay' <=> \E v \in Worker, u \in PyThread : x \in ToSet(sending'[v][u])
      BY DEF UnderWay
    <3>2. x \in UnderWay <=> \E v \in Worker, u \in PyThread : x \in ToSet(sending[v][u])
      BY UnderWayIs
    <3>3. CASE x = s
      BY <2>3, <3>1, <3>3
    <3>4. CASE x # s
      BY <2>3, <3>1, <3>2, <3>4
    <3> QED
      BY <3>3, <3>4
  <2> QED
    BY <2>1, <2>4
<1>9. /\ exported' \in [PySpan -> Nat] /\ exported'[s] = exported[s] + 1
      /\ \A x \in PySpan \ {s} : exported'[x] = exported[x]
  BY <1>2, <1>5 DEF PyInv
<1>10. UNCHANGED <<counting, pyClock, forked, traces, kept, nextSweep, ended, lost, points>>
  BY DEF Forwards
<1>11. PyPlaces'
  BY <1>2, <1>8, <1>9, <1>10 DEF PyInv, PyPlaces
<1>12. \A x \in PySpan : PyError(ended'[x].error) => x \in UnderWay' \/ exported'[x] > 0
  BY <1>2, <1>8, <1>9, <1>10 DEF PyInv
<1>13. BuffersSound'
  BY <1>10 DEF PyInv, BuffersSound
<1> QED
  BY <1>7, <1>9, <1>10, <1>11, <1>12, <1>13 DEF PyInv

(* What both kinds of spans have in common when they end. *)
LEMMA EndsFacts ==
    ASSUME PyInv, NEW w \in Worker, NEW t \in PyThread, NEW s \in PySpan, NEW error \in {"none", "status", "event"},
           SpanEnds(w, t, s, error)
    PROVE  /\ w \in forked /\ sending[w][t] = <<>> /\ ended[s] = NotEnded
           /\ ended' \in [PySpan -> Ends \cup {NotEnded}] /\ ended'[s] = [worker |-> w, error |-> error]
           /\ ended'[s] # NotEnded /\ \A x \in PySpan \ {s} : ended'[x] = ended[x]
           /\ points' = {x \in ServerSpan \cap LocalRoot : counting' /\ ended'[x] # NotEnded}
           /\ exported[s] = 0 /\ s \notin UnderWay /\ s \notin lost /\ \A v \in Worker : s \notin SpansHeld(traces[v])
           /\ UNCHANGED <<counting, sampled, pyClock, forked>>
<1>1. /\ w \in forked /\ sending[w][t] = <<>> /\ ended[s] = NotEnded
      /\ ended' = [ended EXCEPT ![s] = [worker |-> w, error |-> error]]
      /\ points' = IF counting /\ s \in ServerSpan \cap LocalRoot THEN points \cup {s} ELSE points
      /\ UNCHANGED <<counting, sampled, pyClock, forked>>
  BY DEF SpanEnds
<1>2. [worker |-> w, error |-> error] \in Ends /\ [worker |-> w, error |-> error] # NotEnded
  BY PyAssumption DEF NotEnded, Ends
<1>3. /\ ended' \in [PySpan -> Ends \cup {NotEnded}] /\ ended'[s] = [worker |-> w, error |-> error]
      /\ ended'[s] # NotEnded /\ \A x \in PySpan \ {s} : ended'[x] = ended[x]
  <2>1. ended \in [PySpan -> Ends \cup {NotEnded}]
    BY DEF PyInv
  <2> DEFINE e == [worker |-> w, error |-> error]
  <2>2. e \in Ends /\ e # NotEnded /\ ended' = [ended EXCEPT ![s] = e]
    BY <1>1, <1>2
  <2> HIDE DEF e
  <2>3. ended' \in [PySpan -> Ends \cup {NotEnded}] /\ ended'[s] = e /\ \A x \in PySpan \ {s} : ended'[x] = ended[x]
    BY <2>1, <2>2
  <2> QED
    BY <2>2, <2>3 DEF e
<1>4. points' = {x \in ServerSpan \cap LocalRoot : counting' /\ ended'[x] # NotEnded}
  BY PyAssumption, <1>1, <1>3 DEF PyInv
<1>5. exported[s] = 0 /\ s \notin UnderWay /\ s \notin lost /\ \A v \in Worker : s \notin SpansHeld(traces[v])
  <2>1. PyPlaces
    BY DEF PyInv
  <2> QED
    BY <1>1, <2>1 DEF PyPlaces
<1> QED
  BY <1>1, <1>3, <1>4, <1>5

(* A sampled span goes straight through. *)
LEMMA SampledEndKeeps ==
    ASSUME PyInv, NEW w \in Worker, NEW t \in PyThread, NEW s \in PySpan, NEW error \in {"none", "status", "event"},
           SpanEnds(w, t, s, error), PyTraceOf[s] \in sampled
    PROVE  PyInv'
<1>1. /\ exported' = [exported EXCEPT ![s] = @ + 1]
      /\ UNCHANGED <<traces, kept, nextSweep, sending, lost>>
  BY DEF SpanEnds
<1>2. /\ w \in forked /\ sending[w][t] = <<>> /\ ended[s] = NotEnded
      /\ ended' \in [PySpan -> Ends \cup {NotEnded}] /\ ended'[s] = [worker |-> w, error |-> error]
      /\ ended'[s] # NotEnded /\ \A x \in PySpan \ {s} : ended'[x] = ended[x]
      /\ points' = {x \in ServerSpan \cap LocalRoot : counting' /\ ended'[x] # NotEnded}
      /\ exported[s] = 0 /\ s \notin UnderWay /\ s \notin lost /\ \A v \in Worker : s \notin SpansHeld(traces[v])
      /\ UNCHANGED <<counting, sampled, pyClock, forked>>
  BY EndsFacts
<1>3. /\ exported' \in [PySpan -> Nat] /\ exported'[s] = 1
      /\ \A x \in PySpan \ {s} : exported'[x] = exported[x]
  BY <1>1, <1>2 DEF PyInv
<1>4. UnderWay' = UnderWay /\ BuffersSound' /\ SendingSound'
  <2>1. UnderWay' = UnderWay
    BY <1>1 DEF UnderWay
  <2>2. BuffersSound'
    BY <1>1, <1>2 DEF PyInv, BuffersSound
  <2>3. SendingSound'
    <3>1. SendingSound /\ sending' = sending
      BY <1>1 DEF PyInv
    <3> QED
      BY <3>1 DEF SendingSound
  <2> QED
    BY <2>1, <2>2, <2>3
<1>5. PyPlaces'
  BY <1>1, <1>2, <1>3, <1>4 DEF PyInv, PyPlaces
<1>6. ASSUME NEW x \in PySpan, PyError(ended'[x].error) PROVE x \in UnderWay' \/ exported'[x] > 0
  <2>1. CASE x = s
    BY <1>3, <2>1
  <2>2. CASE x # s
    BY <1>2, <1>6, <2>2, <1>3, <1>4 DEF PyInv
  <2> QED
    BY <2>1, <2>2
<1> QED
  BY <1>1, <1>2, <1>3, <1>4, <1>5, <1>6 DEF PyInv

(* An unsampled one waits, or goes out with what its trace has kept, or is    *)
(* dropped.                                                                  *)
LEMMA UnsampledEndKeeps ==
    ASSUME PyInv, NEW w \in Worker, NEW t \in PyThread, NEW s \in PySpan, NEW error \in {"none", "status", "event"},
           SpanEnds(w, t, s, error), PyTraceOf[s] \notin sampled
    PROVE  PyInv'
<1> DEFINE after == Retained(w, s, error)
           q == traces[w]
           b == after.traces
           f == after.forward
<1>1. /\ traces' = [traces EXCEPT ![w] = b]
      /\ kept' = [kept EXCEPT ![w] = @ + SpansIn(b) - SpansIn(q)]
      /\ nextSweep' = [nextSweep EXCEPT ![w] = IF pyClock >= @ THEN pyClock + SweepInterval ELSE @]
      /\ sending' = [sending EXCEPT ![w][t] = f]
      /\ lost' = lost \cup ((SpansOf(ToSet(q)) \cup {s}) \ (SpansOf(ToSet(b)) \cup ToSet(f)))
      /\ UNCHANGED exported
  BY DEF SpanEnds
<1>2. /\ w \in forked /\ sending[w][t] = <<>> /\ ended[s] = NotEnded
      /\ ended' \in [PySpan -> Ends \cup {NotEnded}] /\ ended'[s] = [worker |-> w, error |-> error]
      /\ ended'[s] # NotEnded /\ \A x \in PySpan \ {s} : ended'[x] = ended[x]
      /\ points' = {x \in ServerSpan \cap LocalRoot : counting' /\ ended'[x] # NotEnded}
      /\ exported[s] = 0 /\ s \notin UnderWay /\ s \notin lost /\ \A v \in Worker : s \notin SpansHeld(traces[v])
      /\ UNCHANGED <<counting, sampled, pyClock, forked>>
  BY EndsFacts
<1>3. /\ PyBuffer(q) /\ SpansIn(q) <= MaxKept /\ kept[w] = SpansIn(q) /\ SpansIn(q) \in Nat /\ SpansHeld(q) \subseteq PySpan
      /\ pyClock \in Nat
  BY SpansInIs DEF PyInv, BuffersSound
<1>4. RetainedWell(after, q, s, error)
  <2>1. pyClock \in Int /\ s \notin SpansHeld(q)
    BY <1>2, <1>3
  <2> HIDE DEF after
  <2> QED
    BY <1>3, <2>1, RetainedFacts DEF after
<1>5. /\ PyBuffer(b) /\ SpansIn(b) <= MaxKept /\ SpansIn(b) \in Nat
      /\ SpansHeld(b) \subseteq SpansHeld(q) \cup {s} /\ f \in Seq(PySpan) /\ Injective(f)
      /\ ToSet(f) \subseteq SpansHeld(q) \cup {s} /\ ToSet(f) \cap SpansHeld(b) = {}
      /\ PyError(error) => s \in ToSet(f)
  <2> HIDE DEF after
  <2> QED
    BY <1>4, SpansInIs DEF RetainedWell
<1>6. lost' = lost \cup ((SpansHeld(q) \cup {s}) \ (SpansHeld(b) \cup ToSet(f)))
  BY <1>1, PyHeldIs
<1> HIDE DEF after, b, f, q
<1>7. /\ traces' \in [Worker -> Seq(PyEntry)] /\ traces'[w] = b /\ \A v \in Worker \ {w} : traces'[v] = traces[v]
      /\ kept' \in [Worker -> Nat] /\ kept'[w] = SpansIn(b) /\ \A v \in Worker \ {w} : kept'[v] = kept[v]
  BY <1>5, <1>3, <1>1 DEF PyBuffer, PyInv, BuffersSound
<1>8. BuffersSound'
  BY <1>2, <1>5, <1>7 DEF PyInv, BuffersSound
<1>9. nextSweep' \in [Worker -> Nat]
  BY <1>3, PyAssumption, <1>1 DEF PyInv
<1>10. /\ sending' \in [Worker -> [PyThread -> Seq(PySpan)]] /\ sending'[w][t] = f
       /\ \A v \in Worker, u \in PyThread : (v # w \/ u # t) => sending'[v][u] = sending[v][u]
  BY <1>1, <1>5 DEF PyInv, SendingSound
<1>11. \A x \in ToSet(f) : x \notin UnderWay
  <2>1. ASSUME NEW x \in SpansHeld(q) PROVE x \notin UnderWay
    BY <1>3 DEF PyInv, q, PyPlaces
  <2> QED
    BY <1>2, <1>5, <2>1
<1>12. SendingSound'
  <2>1. \A v \in Worker, u \in PyThread : Injective(sending'[v][u])
    BY <1>5, <1>10 DEF PyInv, SendingSound
  <2>2. ASSUME NEW v \in Worker, NEW u \in PyThread, NEW x \in ToSet(sending'[v][u]), v # w \/ u # t
        PROVE  x \in ToSet(sending[v][u]) /\ x \in UnderWay
    BY <1>10, <2>2, UnderWayIs
  <2>3. ASSUME NEW v \in Worker, NEW u \in Worker, NEW a \in PyThread, NEW c \in PyThread,
               NEW x \in ToSet(sending'[v][a]), x \in ToSet(sending'[u][c])
        PROVE  v = u /\ a = c
    <3>1. CASE v = w /\ a = t
      BY <1>10, <1>11, <2>2, <2>3, <3>1
    <3>2. CASE u = w /\ c = t
      BY <1>10, <1>11, <2>2, <2>3, <3>2
    <3>3. CASE ~(v = w /\ a = t) /\ ~(u = w /\ c = t)
      <4>1. x \in ToSet(sending[v][a]) /\ x \in ToSet(sending[u][c])
        BY <2>2, <2>3, <3>3
      <4> QED
        BY <4>1 DEF PyInv, SendingSound
    <3> QED
      BY <3>1, <3>2, <3>3
  <2>4. ASSUME NEW v \in Worker, NEW u \in Worker, NEW a \in PyThread, NEW c \in PyThread
        PROVE  (\E x \in ToSet(sending'[v][a]) : x \in ToSet(sending'[u][c])) => v = u /\ a = c
    BY <2>3
  <2>5. \A v, u \in Worker, a, c \in PyThread :
           (\E x \in ToSet(sending'[v][a]) : x \in ToSet(sending'[u][c])) => v = u /\ a = c
    BY ONLY <2>4
  <2>6. sending' \in [Worker -> [PyThread -> Seq(PySpan)]]
    BY <1>10
  <2> QED
    BY ONLY <2>1, <2>5, <2>6 DEF SendingSound
<1>13. UnderWay' = UnderWay \cup ToSet(f)
  <2>1. ASSUME NEW x PROVE x \in UnderWay' <=> x \in UnderWay \/ x \in ToSet(f)
    <3>1. x \in UnderWay' <=> \E v \in Worker, u \in PyThread : x \in ToSet(sending'[v][u])
      BY DEF UnderWay
    <3>2. x \in UnderWay <=> \E v \in Worker, u \in PyThread : x \in ToSet(sending[v][u])
      BY UnderWayIs
    <3>3. x \notin ToSet(sending[w][t])
      BY <1>2, PyNone
    <3>4. x \in UnderWay' => x \in UnderWay \/ x \in ToSet(f)
      BY <1>10, <3>1, <3>2
    <3>5. x \in UnderWay => x \in UnderWay'
      BY <1>10, <3>1, <3>2, <3>3
    <3>6. x \in ToSet(f) => x \in UnderWay'
      BY <1>10, <3>1
    <3> QED
      BY <3>4, <3>5, <3>6
  <2> QED
    BY <2>1
<1>14. PyPlaces'
  <2>1. PyPlaces
    BY DEF PyInv
  <2>2. ended'[s].worker = w
    BY <1>2
  <2>3. ASSUME NEW x \in PySpan, x \notin SpansHeld(q) \cup {s}
        PROVE  /\ x \notin ToSet(f) /\ (x \in lost' <=> x \in lost) /\ (x \in UnderWay' <=> x \in UnderWay)
               /\ ended'[x] = ended[x] /\ exported'[x] = exported[x]
               /\ \A v \in Worker : x \in SpansHeld(traces'[v]) <=> x \in SpansHeld(traces[v])
    BY <1>1, <1>2, <1>5, <1>6, <1>7, <1>13, <2>3 DEF q
  <2>4. ASSUME NEW x \in SpansHeld(q) \cup {s}
        PROVE  /\ x \in PySpan /\ ended'[x] # NotEnded /\ ended'[x].worker = w /\ exported'[x] = 0
               /\ x \notin lost /\ x \notin UnderWay
               /\ \A v \in Worker : x \in SpansHeld(traces'[v]) => v = w
               /\ x \in UnderWay' <=> x \in ToSet(f)
               /\ x \in lost' <=> x \notin SpansHeld(b) \cup ToSet(f)
    <3>1. CASE x = s
      BY <1>1, <1>2, <1>6, <1>7, <1>13, <2>2, <3>1
    <3>2. CASE x \in SpansHeld(traces[w]) /\ x # s
      <4>1. x \in PySpan
        BY <1>3, <3>2 DEF q
      <4>2. /\ ended[x].worker = w /\ ended[x] # NotEnded /\ exported[x] = 0 /\ x \notin UnderWay /\ x \notin lost
            /\ \A v \in Worker : x \in SpansHeld(traces[v]) => v = w
        BY <2>1, <3>2, <4>1 DEF PyPlaces
      <4> QED
        BY <1>1, <1>2, <1>6, <1>7, <1>13, <3>2, <4>1, <4>2
    <3> QED
      BY <3>1, <3>2 DEF q
  <2>5. ASSUME NEW x \in PySpan
        PROVE  LET Waits == \E v \in Worker : x \in SpansHeld(traces'[v]) IN
        /\ \A v \in Worker : x \in SpansHeld(traces'[v]) => ended'[x].worker = v
        /\ \/ ended'[x] = NotEnded /\ exported'[x] = 0 /\ x \notin UnderWay' /\ x \notin lost' /\ ~Waits
           \/ ended'[x] # NotEnded /\ exported'[x] = 1 /\ x \notin UnderWay' /\ x \notin lost' /\ ~Waits
           \/ ended'[x] # NotEnded /\ exported'[x] = 0 /\ x \in UnderWay' /\ x \notin lost' /\ ~Waits
           \/ ended'[x] # NotEnded /\ exported'[x] = 0 /\ x \notin UnderWay' /\ x \in lost' /\ ~Waits
           \/ ended'[x] # NotEnded /\ exported'[x] = 0 /\ x \notin UnderWay' /\ x \notin lost' /\ Waits
    <3>1. CASE x \notin SpansHeld(q) \cup {s}
      BY <2>1, <2>3, <3>1 DEF PyPlaces
    <3>2. CASE x \in SpansHeld(q) \cup {s}
      BY <1>5, <1>7, <2>4, <3>2
    <3> QED
      BY <3>1, <3>2
  <2> QED
    BY <2>5 DEF PyPlaces
<1>15. ASSUME NEW x \in PySpan, PyError(ended'[x].error) PROVE x \in UnderWay' \/ exported'[x] > 0
  <2>1. CASE x = s
    BY <1>2, <1>5, <1>13, <1>15, <2>1
  <2>2. CASE x # s
    BY <1>2, <1>15, <2>2, <1>1, <1>13 DEF PyInv
  <2> QED
    BY <2>1, <2>2
<1>16. lost' \subseteq PySpan /\ exported' \in [PySpan -> Nat]
  BY <1>1, <1>3, <1>6 DEF PyInv
<1> QED
  BY <1>2, <1>7, <1>8, <1>9, <1>12, <1>14, <1>15, <1>16 DEF PyInv

LEMMA PyKeeps == PyInv /\ [PyNext]_pyVars => PyInv'
<1> SUFFICES ASSUME PyInv, [PyNext]_pyVars PROVE PyInv'
  OBVIOUS
<1>1. CASE PyTick
  BY <1>1, PyTickKeeps
<1>2. ASSUME NEW w \in Worker, Forks(w) PROVE PyInv'
  BY <1>2, ForksKeeps
<1>3. ASSUME NEW w \in Worker, NEW t \in PyThread, Forwards(w, t) PROVE PyInv'
  BY <1>3, ForwardsKeeps
<1>4. ASSUME NEW w \in Worker, NEW t \in PyThread, NEW s \in PySpan, NEW error \in {"none", "status", "event"},
             SpanEnds(w, t, s, error)
      PROVE  PyInv'
  BY <1>4, SampledEndKeeps, UnsampledEndKeeps
<1>5. CASE UNCHANGED pyVars
  BY <1>5, PyRests DEF pyVars, PyInv
<1> QED
  BY <1>1, <1>2, <1>3, <1>4, <1>5 DEF PyNext

(* Spans of the Python adapter stay in one place and errors go out, whatever  *)
(* threads and processes end them (RetainErrorTraces of autter_tracing.py).  *)
THEOREM PythonInvariant == PythonSpec => []PyInv
  BY PyStarts, PyKeeps, PTL DEF PythonSpec

LEMMA PythonHolds == PyInv => PySpansInOnePlace /\ PyErrorsExported /\ PyTypeOK
<1> SUFFICES ASSUME PyInv PROVE PySpansInOnePlace /\ PyErrorsExported /\ PyTypeOK
  OBVIOUS
<1>1. ASSUME NEW s \in PySpan
      PROVE  exported[s] + Cardinality({s} \cap UnderWay) + Cardinality({s} \cap lost)
                + Cardinality({w \in Worker : s \in HeldIn(w)}) = (IF ended[s] = NotEnded THEN 0 ELSE 1)
  <2> DEFINE H == {w \in Worker : s \in HeldIn(w)}
  <2>1. H = {w \in Worker : s \in SpansHeld(traces[w])}
    BY PyHeldIs DEF HeldIn
  <2>2. /\ s \in UnderWay => {s} \cap UnderWay = {s}
        /\ s \notin UnderWay => {s} \cap UnderWay = {}
        /\ s \in lost => {s} \cap lost = {s}
        /\ s \notin lost => {s} \cap lost = {}
    OBVIOUS
  <2>3. /\ (\E w \in Worker : s \in SpansHeld(traces[w])) => H = {ended[s].worker}
        /\ ~(\E w \in Worker : s \in SpansHeld(traces[w])) => H = {}
    BY <2>1 DEF PyInv, PyPlaces
  <2>4. \A x : Cardinality({x}) = 1
    BY FS_Singleton
  <2>5. Cardinality({}) = 0
    BY FS_EmptySet
  <2> HIDE DEF H
  <2>6. /\ Cardinality({s} \cap UnderWay) = IF s \in UnderWay THEN 1 ELSE 0
        /\ Cardinality({s} \cap lost) = IF s \in lost THEN 1 ELSE 0
        /\ Cardinality(H) = IF \E w \in Worker : s \in SpansHeld(traces[w]) THEN 1 ELSE 0
    BY <2>2, <2>3, <2>4, <2>5
  <2>7. exported[s] + Cardinality({s} \cap UnderWay) + Cardinality({s} \cap lost) + Cardinality(H)
           = (IF ended[s] = NotEnded THEN 0 ELSE 1)
    BY <2>6 DEF PyInv, PyPlaces
  <2> QED
    BY <2>7 DEF H
<1>2. ASSUME NEW s \in PySpan, ended[s].error \in {"status", "event"}
      PROVE  /\ s \in UnderWay \/ exported[s] > 0
             /\ \A e \in ToSet(traces[ended[s].worker]) : e.retained => e.spans = <<>>
  <2>1. s \in UnderWay \/ exported[s] > 0
    BY <1>2 DEF PyInv, PyError
  <2>2. ended[s].worker \in Worker
    BY <1>2 DEF PyInv, Ends, NotEnded
  <2>3. \A i \in DOMAIN traces[ended[s].worker] :
           traces[ended[s].worker][i].retained => traces[ended[s].worker][i].spans = <<>>
    BY <2>2 DEF PyInv, BuffersSound, PyBuffer, TidyEntries, EntryTidy
  <2> QED
    BY <2>1, <2>3 DEF ToSet, Range
<1>3. PyTypeOK
  BY DEF PyInv, BuffersSound, PyBuffer, PyTypeOK
<1> QED
  BY <1>1, <1>2, <1>3 DEF PySpansInOnePlace, PyErrorsExported

=============================================================================
