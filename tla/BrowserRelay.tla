----------------------------- MODULE BrowserRelay -----------------------------
(***************************************************************************)
(* The relay of runtime-node/src/relay.ts: a public route that takes the    *)
(* browser SDK's batches, limits each visitor to a number of requests per   *)
(* minute, reads and sanitises the body, answers, and forwards the batch to *)
(* the ingester without waiting for it.                                     *)
(*                                                                         *)
(* The limit counts by an address.  The model keeps who really sent a       *)
(* request beside the address the relay takes it for: proxies append to     *)
(* X-Forwarded-For what a caller has already written there.                 *)
(***************************************************************************)
EXTENDS Integers, Sequences, FiniteSets, SequencesExt

CONSTANTS
    Visitor,        \* public addresses
    Hop,            \* the address of a proxy on the own network
    RelayCall,      \* requests to the relay
    PerIpLimit,     \* perIpRateLimit
    MaxWindows,     \* entries an IpWindow keeps
    MaxBody,        \* maxBodyBytes, in chunks
    MaxMinute,      \* bound: the clock
    NoWindow

ASSUME RelayAssumption ==
    /\ PerIpLimit \in Nat \ {0} /\ MaxWindows \in Nat /\ MaxBody \in Nat
    /\ MaxMinute \in Nat /\ Hop \notin Visitor
    /\ NoWindow \notin [start : Nat, count : Nat] /\ IsFiniteSet(Visitor)

VARIABLES
    minute,
    handler,    \* the handler mounted: "node" or "fetch"
    trust,      \* the mode of trustProxy: "auto", or "hops" with one proxy
    windows,    \* IpWindow: per address, its minute and count
    relay,      \* per call: where its handler stands
    answers,    \* history: the statuses each call was answered with
    forwarded,  \* history: calls whose batch was forwarded
    admitted,   \* history: requests let through per visitor in this minute
    clears      \* history: how often the windows were cleared in this minute

relayVars == <<minute, handler, trust, windows, relay, answers, forwarded, admitted, clears>>

Address == Visitor \cup {Hop}
RelayCallType ==
    [st : {"idle", "reading", "done"}, got : Nat, aborted : BOOLEAN,
     body : {"ok", "invalid"}]

RelayInit ==
    /\ minute = 0 /\ handler \in {"node", "fetch"} /\ trust \in {"auto", "hops"}
    /\ windows = [a \in Address |-> NoWindow]
    /\ relay = [c \in RelayCall |-> [st |-> "idle", got |-> 0, aborted |-> FALSE, body |-> "ok"]]
    /\ answers = [c \in RelayCall |-> <<>>] /\ forwarded = {}
    /\ admitted = [v \in Visitor |-> 0] /\ clears = 0

-----------------------------------------------------------------------------
(* rightmostPublic(): right to left, the first address that is no own hop.  *)
RightmostPublic(entries, otherwise) ==
    LET public == {i \in DOMAIN entries : entries[i] # Hop} IN
    IF public = {} THEN otherwise
    ELSE entries[CHOOSE i \in public : \A j \in public : j <= i]

(* Mutant of ClientKey: the caller's own entry is believed. *)
ClientKeyLeftmost(peer, entries) ==
    IF peer # Hop \/ entries = <<>> THEN peer ELSE Head(entries)

(* nodeClientKey(): with "auto" a public peer is the visitor itself; behind  *)
(* a proxy the header is read from the right.  With n proxies, the n-th.     *)
ClientKey(peer, entries) ==
    IF trust = "hops" THEN IF entries = <<>> THEN peer ELSE Last(entries)
    ELSE IF peer # Hop THEN peer
    ELSE RightmostPublic(entries, peer)

(* fetchClientKey(): there is no peer; the platform's edge wrote the header. *)
FetchKey(entries) ==
    IF trust = "hops" THEN Last(entries) ELSE RightmostPublic(entries, Last(entries))

(* What reaches the relay of visitor v's request: a header the caller made  *)
(* up, extended by each proxy in front.                                     *)
Claims == {<<>>} \cup {<<a>> : a \in Address}
Proxied(v) ==
    {claim \o <<v>> \o hops : claim \in Claims, hops \in {<<>>} \cup IF trust = "hops" THEN {} ELSE {<<Hop>>}}
Arrivals(v) ==
    {[peer |-> Hop, entries |-> entries] : entries \in Proxied(v)}
        \cup (IF trust = "hops" THEN {} ELSE {[peer |-> v, entries |-> claim] : claim \in Claims})

FreshWindow(key) == ~(windows[key] # NoWindow /\ windows[key].start = minute)

(* IpWindow.allow(): counts the request in its minute's window.  Windows of  *)
(* past minutes stay; past MaxWindows of them all are forgotten.            *)
Allow(key) ==
    LET opened == [windows EXCEPT ![key] = [start |-> minute, count |-> 1]]
        full == Cardinality({a \in Address : opened[a] # NoWindow}) > MaxWindows
    IN
    \/ /\ FreshWindow(key)
       /\ windows' = IF full THEN [a \in Address |-> NoWindow] ELSE opened
       /\ clears' = IF full THEN clears + 1 ELSE clears
    \/ /\ ~FreshWindow(key)
       /\ windows' = [windows EXCEPT ![key].count = @ + 1]
       /\ UNCHANGED clears
Allowed(key) == ~(~FreshWindow(key) /\ windows[key].count >= PerIpLimit)

Answer(c, status) == answers' = [answers EXCEPT ![c] = Append(@, status)]
Done(c, status) ==
    /\ Answer(c, status)
    /\ relay' = [relay EXCEPT ![c] = [st |-> "done", got |-> 0, aborted |-> FALSE, body |-> "ok"]]

-----------------------------------------------------------------------------
(* sanitizeBrowserPayload(): one event of another form refuses the batch.   *)
Bodies == {"ok", "invalid"}

(* forward(): the batch is on its way, and nobody waits for its answer.     *)
Forward(c) == forwarded' = forwarded \cup {c}

(* handleParsed(): a batch that passes the sanitiser is forwarded and       *)
(* answered at once, whatever becomes of the forward; another is refused.   *)
HandleParsed(c, body) ==
    \/ body = "ok" /\ Forward(c) /\ Done(c, 202)
    \/ body = "invalid" /\ Done(c, 400) /\ UNCHANGED forwarded

(* Another method, a visitor over the limit, or the body to be read: by the *)
(* handler, or by a body parser in front of it, whose limits are its own.   *)
Refuses(c) ==
    /\ relay[c].st = "idle" /\ Done(c, 405)
    /\ UNCHANGED <<minute, handler, trust, windows, forwarded, admitted, clears>>
Counted(c, v, key, parsed) ==
    /\ relay[c].st = "idle" /\ Allow(key)
    /\ \/ /\ ~Allowed(key)
          /\ Done(c, 429) /\ UNCHANGED <<forwarded, admitted>>
       \/ /\ Allowed(key)
          /\ admitted' = [admitted EXCEPT ![v] = @ + 1]
          /\ \E body \in Bodies :
                \/ parsed /\ HandleParsed(c, body)
                \/ /\ relay' = [relay EXCEPT ![c] = [@ EXCEPT !.st = "reading", !.body = body]]
                   /\ UNCHANGED <<answers, forwarded>>
Receives(c, v) ==
    \E arrival \in Arrivals(v) :
        /\ handler = "node"
        /\ Counted(c, v, ClientKey(arrival.peer, arrival.entries), TRUE)
        /\ UNCHANGED <<minute, handler, trust>>

(* The fetch handler: the same, and it reads every body itself.             *)
FetchReceives(c, v) ==
    \E entries \in Proxied(v) :
        /\ handler = "fetch"
        /\ Counted(c, v, FetchKey(entries), FALSE)
        /\ UNCHANGED <<minute, handler, trust>>

(* A chunk of the body; past the limit the handler answers and destroys the *)
(* request, whose stream may still report an error.                         *)
BodyChunk(c) ==
    LET got == relay[c].got + 1 IN
    /\ handler = "node" /\ relay[c].st = "reading" /\ ~relay[c].aborted
    /\ IF got > MaxBody
       THEN Answer(c, 413) /\ relay' = [relay EXCEPT ![c] = [@ EXCEPT !.got = got, !.aborted = TRUE]]
       ELSE relay' = [relay EXCEPT ![c] = [@ EXCEPT !.got = got]] /\ UNCHANGED answers
    /\ UNCHANGED <<minute, handler, trust, windows, forwarded, admitted, clears>>

(* readBodyBounded(): past the limit the read is cancelled and the handler  *)
(* answers; what the stream does after that is nobody's business.           *)
FetchChunk(c) ==
    LET got == relay[c].got + 1 IN
    /\ handler = "fetch" /\ relay[c].st = "reading"
    /\ IF got > MaxBody THEN Done(c, 413)
       ELSE relay' = [relay EXCEPT ![c] = [@ EXCEPT !.got = got]] /\ UNCHANGED answers
    /\ UNCHANGED <<minute, handler, trust, windows, forwarded, admitted, clears>>

BodyEnds(c) ==
    /\ relay[c].st = "reading" /\ ~relay[c].aborted
    /\ HandleParsed(c, relay[c].body)
    /\ UNCHANGED <<minute, handler, trust, windows, admitted, clears>>
ReadError(c) ==
    /\ relay[c].st = "reading"
    /\ IF relay[c].aborted
       THEN relay' = [relay EXCEPT ![c] = [@ EXCEPT !.st = "done"]] /\ UNCHANGED answers
       ELSE Done(c, 400)
    /\ UNCHANGED <<minute, handler, trust, windows, forwarded, admitted, clears>>

MinutePasses ==
    /\ minute < MaxMinute /\ minute' = minute + 1
    /\ admitted' = [v \in Visitor |-> 0] /\ clears' = 0
    /\ UNCHANGED <<handler, trust, windows, relay, answers, forwarded>>

RelayNext ==
    \/ MinutePasses
    \/ \E c \in RelayCall : Refuses(c) \/ BodyChunk(c) \/ FetchChunk(c) \/ BodyEnds(c) \/ ReadError(c)
    \/ \E c \in RelayCall, v \in Visitor : Receives(c, v) \/ FetchReceives(c, v)

-----------------------------------------------------------------------------
RelayTypeOK ==
    /\ minute \in 0..MaxMinute /\ handler \in {"node", "fetch"} /\ trust \in {"auto", "hops"}
    /\ windows \in [Address -> [start : Nat, count : Nat] \cup {NoWindow}]
    /\ relay \in [RelayCall -> RelayCallType]
    /\ answers \in [RelayCall -> Seq({202, 400, 405, 413, 429})]
    /\ forwarded \subseteq RelayCall
    /\ admitted \in [Visitor -> Nat] /\ clears \in Nat

(* A visitor gets at most the limit through per minute, whatever the        *)
(* request claims in X-Forwarded-For, and once more the limit for each time *)
(* the windows overflowed in that minute (relay.ts IpWindow, trustProxy).   *)
VisitorLimited == \A v \in Visitor : admitted[v] <= PerIpLimit * (1 + clears)

(* Every call is answered once, however its body comes in, and its batch is *)
(* forwarded exactly when the answer says so.                               *)
AnsweredOnce ==
    \A c \in RelayCall :
        /\ Len(answers[c]) <= 1
        /\ relay[c].st = "done" => Len(answers[c]) = 1
        /\ c \in forwarded <=> 202 \in ToSet(answers[c])
=============================================================================
