------------------------------- MODULE FrameNames -------------------------------
(***************************************************************************)
(* How a frame gets its original position and its function's name: the CLI   *)
(* writes the functions of a bundle next to its map (runtime-cli/src/          *)
(* scopes.ts), the ingester reads them (source-map-scopes.ts) and looks         *)
(* positions up in the mappings, decoded or in one pass                       *)
(* (source-map-mappings.ts).  A text of base64 VLQ values is the sequence of    *)
(* its groups; source, line and column of an origin are one number.           *)
(***************************************************************************)
EXTENDS Integers, Sequences, FiniteSets, SequencesExt

CONSTANTS
    FrameLines, FrameColumns,     \* generated lines and columns, from 0
    GroupValues,        \* values of a group of the mappings
    MaxGroups,          \* bound: groups of a text
    Described,          \* what the CLI's parser says of a function
    MapNames,           \* the map's own names
    MaxFunctions,       \* bound: functions of a bundle
    NoName

ASSUME FrameBounds == MaxGroups \in Nat /\ MaxFunctions \in Nat

VARIABLES
    text,           \* mappings: groups with the line each is on
    functions,      \* functions of the bundle: range and description
    field           \* what the CLI wrote next to the map: names and groups

frameVars == <<text, functions, field>>

NoField == NoName

NoIndex == -1
At == {<<l, c>> : l \in FrameLines, c \in FrameColumns}
Before(a, b) == a[1] < b[1] \/ (a[1] = b[1] /\ a[2] < b[2])

FrameInit == text = <<>> /\ functions = {} /\ field = NoField

(* A generator writes one more group, on the last line or a later one.       *)
WritesGroup(line, values) ==
    /\ functions = {} /\ field = NoField /\ Len(text) < MaxGroups
    /\ text # <<>> => line >= Last(text).line
    /\ text' = Append(text, [line |-> line, values |-> values]) /\ UNCHANGED <<functions, field>>

(* A bundle with one more function in it. *)
HasFunction(start, end, described) ==
    /\ text = <<>> /\ field = NoField /\ Cardinality(functions) < MaxFunctions /\ Before(start, end)
    /\ \A f \in functions : <<f.start, f.end>> # <<start, end>>
    /\ functions' = functions \cup {[start |-> start, end |-> end, described |-> described]}
    /\ UNCHANGED <<text, field>>

-----------------------------------------------------------------------------
(* forEachSegment: absolute values; only the generated column starts again    *)
(* on a new line.                                                           *)
Segments ==
    LET Read(state, group) ==
            LET v == group.values
                column == v[1] + IF group.line = state.line THEN state.column ELSE 0
                origin == state.origin + IF Len(v) >= 2 THEN v[2] ELSE 0
                name == state.name + IF Len(v) >= 3 THEN v[3] ELSE 0
            IN  [line |-> group.line, column |-> column, origin |-> origin, name |-> name,
                 segments |-> Append(state.segments,
                    [line |-> group.line, column |-> column,
                     origin |-> IF Len(v) >= 2 THEN origin ELSE NoIndex,
                     name |-> IF Len(v) >= 3 THEN name ELSE NoIndex])]
    IN  FoldLeft(Read, [line |-> 0, column |-> 0, origin |-> 0, name |-> 0, segments |-> <<>>], text).segments

NoSegment == [origin |-> NoIndex, name |-> NoIndex]
Found(segment) == IF segment.origin = NoIndex THEN NoSegment
                  ELSE [origin |-> segment.origin, name |-> segment.name]

(* DecodedMappings: a line's segments in column order, a stable sort. *)
ByColumn(s) ==
    LET order == SetToSortSeq(DOMAIN s,
                    LAMBDA i, j : s[i].column < s[j].column \/ (s[i].column = s[j].column /\ i < j))
    IN  [k \in DOMAIN s |-> s[order[k]]]
SortedLine(line) == ByColumn(SelectSeq(Segments, LAMBDA s : s.line = line))

(* find: a binary search for the last segment at or before the column, then   *)
(* back to the first at exactly that column.                                 *)
FindIn(s, column) ==
    LET search[lo \in 1 .. Len(s) + 1, hi \in 0 .. Len(s), found \in 0 .. Len(s)] ==
            IF lo > hi THEN found
            ELSE LET mid == (lo + hi) \div 2 IN
                 IF s[mid].column <= column THEN search[mid + 1, hi, mid] ELSE search[lo, mid - 1, found]
        found == search[1, Len(s), 0]
    IN  IF found = 0 THEN NoSegment
        ELSE IF s[found].column = column
             THEN Found(s[CHOOSE i \in 1 .. found : /\ \A j \in i .. found : s[j].column = column
                                                     /\ (i = 1 \/ s[i - 1].column # column)])
             ELSE Found(s[found])
Find(line, column) == FindIn(SortedLine(line), column)

(* findInMappings: on a tie the first segment wins at the position itself and  *)
(* the last one before it.                                                   *)
Replaces(best, segment, column) ==
    ~(best.column > segment.column \/ (best.column = segment.column /\ segment.column = column))

FindInMappings(line, column) ==
    LET Look(best, segment) ==
            IF segment.line # line \/ segment.column > column THEN best
            ELSE IF best = <<>> \/ Replaces(best[1], segment, column) THEN <<segment>> ELSE best
        best == FoldLeft(Look, <<>>, Segments)
    IN  IF best = <<>> THEN NoSegment ELSE Found(best[1])

(* findSegments of the CLI: the first segment that starts exactly there.      *)
FindExact(line, column) ==
    LET s == SelectSeq(Segments, LAMBDA g : g.line = line /\ g.column = column)
    IN  IF s = <<>> THEN NoSegment ELSE Found(s[1])

-----------------------------------------------------------------------------
(* NameResolver: a token's mapped name, else what is written unless it is      *)
(* mangled, else the identifier in the source; a literal is what it says.      *)
Resolve(token) ==
    CASE token.literal -> token.written
      [] ~token.literal /\ token.mapped # NoName -> token.mapped
      [] ~token.literal /\ token.mapped = NoName /\ ~token.mangled -> token.written
      [] OTHER -> token.source

(* scopesOf: its own name, a name recovered from the source, what it is        *)
(* assigned to; else unknown if it had a name, or anonymous.                   *)
NameOfFunction(f) ==
    LET own == [i \in DOMAIN f.described.own |-> Resolve(f.described.own[i])]
        context == [i \in DOMAIN f.described.context |-> Resolve(f.described.context[i])]
        known == SelectSeq(own \o <<f.described.recovered>> \o context, LAMBDA n : n # NoName)
    IN  CASE known # <<>> -> [kind |-> "named", name |-> known[1]]
          [] known = <<>> /\ own \o context # <<>> -> [kind |-> "unknown", name |-> NoName]
          [] OTHER -> [kind |-> "anonymous", name |-> NoName]

OuterFirst(f, g) == Before(f.start, g.start) \/ (f.start = g.start /\ Before(g.end, f.end))
InOrder == SetToSortSeq(functions, OuterFirst)

IndexIn(names, n) == CHOOSE i \in DOMAIN names : names[i] = n

(* indexOf: the names the map does not have, in the order they are met.       *)
ExtraNames ==
    FoldLeft(LAMBDA extra, f :
                LET n == NameOfFunction(f) IN
                IF n.kind = "anonymous" \/ n.name \in ToSet(MapNames \o extra) THEN extra ELSE Append(extra, n.name),
             <<>>, InOrder)

StartFrom(line, state) == IF line > state.line THEN 0 ELSE state.start

(* encodeScopes: starts relative on their line, ends to their start, names to  *)
(* the last name written.                                                   *)
Encoded(names) ==
    LET Write(state, f) ==
            LET n == NameOfFunction(f)
                index == IF n.kind = "anonymous" THEN NoIndex ELSE IndexIn(names, n.name) - 1
                shape == <<f.start[2] - StartFrom(f.start[1], state), f.end[1] - f.start[1],
                           IF f.end[1] = f.start[1] THEN f.end[2] - f.start[2] ELSE f.end[2]>>
            IN  [line |-> f.start[1], start |-> f.start[2],
                 name |-> IF index = NoIndex THEN state.name ELSE index,
                 groups |-> Append(state.groups, [line |-> f.start[1],
                    values |-> IF index = NoIndex THEN shape ELSE Append(shape, index - state.name)])]
    IN  FoldLeft(Write, [line |-> 0, start |-> 0, name |-> 0, groups |-> <<>>], InOrder).groups

(* The extra names and the groups are put into the map as x_autter_scopes.      *)
WritesField ==
    /\ text = <<>> /\ field = NoField
    /\ field' = [names |-> ExtraNames, groups |-> Encoded(MapNames \o ExtraNames)]
    /\ UNCHANGED <<text, functions>>

(* decodeScopes, in the ingester. *)
Decoded ==
    LET Read(state, group) ==
            LET v == group.values
                start == v[1] + IF group.line = state.line THEN state.start ELSE 0
                name == state.name + IF Len(v) = 4 THEN v[4] ELSE 0
            IN  [line |-> group.line, start |-> start, name |-> name,
                 rows |-> Append(state.rows,
                    [start |-> <<group.line, start>>,
                     end |-> <<group.line + v[2], IF v[2] = 0 THEN start + v[3] ELSE v[3]>>,
                     name |-> IF Len(v) = 4 THEN name ELSE NoIndex])]
    IN  FoldLeft(Read, [line |-> 0, start |-> 0, name |-> 0, rows |-> <<>>], field.groups).rows

(* ScopeIndex.from: each scope's parent is the innermost still open, and it    *)
(* ends no later than that.                                                  *)
Parents ==
    LET rows == Decoded
        Place(state, i) ==
            LET open == SelectSeq(state.open, LAMBDA p : Before(rows[i].start, rows[p].end))
                parent == IF open = <<>> THEN 0 ELSE Last(open)
            IN  [open |-> Append(open, i), parents |-> Append(state.parents, parent),
                 nests |-> state.nests /\ (parent # 0 => ~Before(rows[parent].end, rows[i].end))]
    IN  FoldLeft(Place, [open |-> <<>>, parents |-> <<>>, nests |-> TRUE], [i \in DOMAIN rows |-> i])

(* nameAt: the last scope that starts at or before the position, or its        *)
(* closest ancestor that has not ended.                                       *)
NameAt(at) ==
    LET rows == Decoded
        parents == Parents.parents
        names == MapNames \o field.names
        up[i \in 0 .. Len(rows)] ==
            IF i = 0 \/ Before(at, rows[i].end) THEN i ELSE up[parents[i]]
        in == up[Len(SelectSeq(rows, LAMBDA r : ~Before(at, r.start)))]
    IN  CASE in = 0 \/ rows[in].name = NoIndex -> [kind |-> "anonymous", name |-> NoName]
          [] names[rows[in].name + 1] = NoName -> [kind |-> "unknown", name |-> NoName]
          [] OTHER -> [kind |-> "named", name |-> names[rows[in].name + 1]]

FrameNext ==
    \/ \E line \in FrameLines, values \in GroupValues : WritesGroup(line, values)
    \/ WritesField
    \/ \E start, end \in At, described \in Described : HasFunction(start, end, described)

FrameTypeOK == Len(text) <= MaxGroups /\ Cardinality(functions) <= MaxFunctions

-----------------------------------------------------------------------------
(* "Same results as DecodedMappings.find": a big map answers like a small one,  *)
(* whatever order a line's segments are in; and the CLI, which names functions  *)
(* before the upload, read the position the ingester will read.               *)
LookupsAgree ==
    \A at \in At :
        /\ Find(at[1], at[2]) = FindInMappings(at[1], at[2])
        /\ (\E i \in DOMAIN Segments : Segments[i].line = at[1] /\ Segments[i].column = at[2])
             => FindExact(at[1], at[2]) = Find(at[1], at[2])

Covers(f, at) == ~Before(at, f.start) /\ Before(at, f.end)
Nested(f, g) == ~Before(f.start, g.start) /\ ~Before(g.end, f.end)
WellNested == \A f, g \in functions : ~Before(g.start, f.end) \/ ~Before(f.start, g.end) \/ Nested(f, g) \/ Nested(g, f)
Innermost(at) == CHOOSE f \in functions : Covers(f, at) /\ \A g \in functions : Covers(g, at) => Nested(f, g)

(* What the CLI wrote, the ingester reads: every position is named after the    *)
(* innermost function around it, by the name the CLI found; ranges that overlap *)
(* without nesting make it ignore the field.                                  *)
FramesNamedAsUploaded ==
    field # NoField =>
        IF ~WellNested THEN ~Parents.nests
        ELSE Parents.nests /\ \A at \in At :
           NameAt(at) = IF \E f \in functions : Covers(f, at) THEN NameOfFunction(Innermost(at))
                        ELSE [kind |-> "anonymous", name |-> NoName]
=============================================================================
