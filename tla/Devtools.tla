------------------------------ MODULE Devtools ------------------------------
(***************************************************************************)
(* An application whose runtime is attached to a hub: the client           *)
(* (packages/devtools/src/attach.ts, attachDevtools.ts) observes the event *)
(* bus, buffers, and flushes over a socket; the hub (apps/hub/src) keeps a *)
(* row, a ring of records and a query channel per attachment, in actions   *)
(* of its attachments node.  Its readers page through a ring and ask the   *)
(* application questions; its dashboard shows rows.                        *)
(*                                                                         *)
(* A session is one attachment, numbered in the order of the attempts.     *)
(* `mail` is the queue of the attachments node, whose cell actor runs one  *)
(* action at a time (CellActor).  Sockets die without notice: each side    *)
(* finds out for itself.                                                   *)
(***************************************************************************)
EXTENDS SignalBus

CONSTANTS
  Plans,        \* bounds, one of which a behaviour keeps to:
                \*   [emits, signals, guests, failures, sessions, clicks, asks, reads]
  MaxSessions,  \* a bound: no plan has more sessions
  MaxBuffered,  \* MAX_BUFFERED_RECORDS
  Capacity,     \* RETAINED_PER_ATTACHMENT
  TrimSlack,    \* TRIM_SLACK
  MaxInFlight,  \* MAX_IN_FLIGHT
  Asks,         \* questions readers ask
  Limit         \* records a page holds

Session == 1 .. MaxSessions
None == 0

ASSUME DevtoolsAssumption ==
  /\ MaxSessions \in Nat
  /\ \A p \in Plans : p.sessions \in 0 .. MaxSessions /\ p.guests \subseteq Subscriber
  /\ Capacity \in Nat /\ TrimSlack \in Nat
  /\ Limit \in Nat \ {0}   \* clampLimit

VARIABLES
  client,    \* "down" | "dialing" | "attached" | "refused"
  gen,       \* the current or last session
  buffer,    \* encoded records not yet flushed
  dropped,   \* records discarded since the last flush
  flight,    \* [at, records, dropped]: the batch being sent, per session
  socket,    \* is the session's socket open?
  handler,   \* the hub's Attach handler, per session
  mail,      \* actions submitted to the attachments node
  rows,      \* sessions the attachments node lists
  view,      \* [count, dropped, last] per row
  ring,      \* retained records, per row
  evicted,   \* how many records left the ring, per row
  outbound,  \* questions queued for the session's stream
  channel,   \* questions pending, per session
  ask,       \* [at, of] per question
  deferred,  \* what the question's Deferred holds
  reader,    \* [of, cursor, got]: a reader paging through a ring
  board,     \* [selected, paused, frozen, clicks]: the dashboard
  plan,      \* the bounds of this behaviour
  emitted,   \* events of the application so far
  kept,      \* history: the records each session's observer buffered
  seen       \* history: how many it was given

clientVars == <<client, gen, buffer, dropped, flight>>
netVars == <<socket, handler, mail>>
rowVars == <<rows, view, ring, evicted>>
askVars == <<outbound, channel, ask, deferred>>
restVars == <<reader, board, plan, emitted>>
historyVars == <<kept, seen>>
devtoolsVars == <<bothVars, clientVars, netVars, rowVars, askVars, restVars, historyVars>>

NoFlight == [at |-> "none", records |-> << >>, dropped |-> 0]
NoView == [count |-> 0, dropped |-> 0, last |-> 0]
Message(act, g) == [act |-> act, of |-> g]

DevtoolsInit ==
  /\ SignalBusInit
  /\ client = "down" /\ gen = 0 /\ buffer = << >> /\ dropped = 0
  /\ flight = [g \in Session |-> NoFlight]
  /\ socket = [g \in Session |-> FALSE]
  /\ handler = [g \in Session |-> "none"]
  /\ mail = << >>
  /\ rows = {}
  /\ view = [g \in Session |-> NoView]
  /\ ring = [g \in Session |-> << >>]
  /\ evicted = [g \in Session |-> 0]
  /\ outbound = [g \in Session |-> {}]
  /\ channel = [g \in Session |-> {}]
  /\ ask = [q \in Asks |-> [at |-> "idle", of |-> None]]
  /\ deferred = [q \in Asks |-> "open"]
  /\ reader = [of |-> None, cursor |-> 0, got |-> {}]
  /\ board = [selected |-> None, paused |-> FALSE, frozen |-> None, clicks |-> 0]
  /\ plan \in Plans
  /\ emitted = 0
  /\ kept = [g \in Session |-> << >>]
  /\ seen = [g \in Session |-> 0]

-----------------------------------------------------------------------------
\* The bus steps that touch nobody else, and the observer of a session.
BusOnly == UNCHANGED <<signalVars, clientVars, netVars, rowVars, askVars, restVars, historyVars>>

\* Events that nobody emitted or published report failures.
MayFail == sequence - emitted - Len(signalled) < plan.failures

EmitEvent ==
  /\ emitted < plan.emits
  /\ emitted' = emitted + 1
  /\ Emit(NoParent)
  /\ UNCHANGED <<signalVars, clientVars, netVars, rowVars, askVars, reader, board, plan, historyVars>>

\* A record the buffer has no room for is counted, never kept.  A pass that
\* began before the session ended still calls its observer, in vain.
Buffer(g, record) ==
  IF g # gen \/ client \notin {"dialing", "attached"}
  THEN UNCHANGED <<buffer, dropped, kept, seen>>
  ELSE /\ seen' = [seen EXCEPT ![g] = @ + 1]
       /\ IF Len(buffer) >= MaxBuffered
          THEN dropped' = dropped + 1 /\ UNCHANGED <<buffer, kept>>
          ELSE /\ buffer' = Append(buffer, record)
               /\ kept' = [kept EXCEPT ![g] = Append(@, record)]
               /\ UNCHANGED dropped

NotifyObserver(k) ==
  \/ Notify(k, App) /\ BusOnly
  \/ MayFail /\ RecordObserverFailure(k, App) /\ BusOnly
  \/ \E g \in Session :
       /\ Notify(k, g)
       /\ Buffer(g, k[1])
       /\ UNCHANGED <<signalVars, client, gen, flight, netVars, rowVars, askVars, restVars>>

BusStep ==
  \/ \E k \in DOMAIN work : NotifyObserver(k)
  \/ \E k \in DOMAIN work :
       /\ PassEnds(k) \/ SinkAnswers(k) \/ (MayFail /\ RecordSinkFailure(k))
       /\ BusOnly

\* Signals of the application: its publishers and subscribers.
SignalOnly == UNCHANGED <<clientVars, netVars, rowVars, askVars, restVars, historyVars>>

SignalStep ==
  /\ \E s \in DOMAIN publishing :
       Deliver(s) \/ Handled(s) \/ (MayFail /\ SubscriberFails(s)) \/ Published(s)
  /\ SignalOnly

UseSignals ==
  /\ \/ Len(signalled) < plan.signals /\ \E c \in Channel : PublishSignal(c)
     \/ \E b \in plan.guests : Subscribe(b) \/ Unsubscribe(b)
  /\ SignalOnly

-----------------------------------------------------------------------------
\* The client: attachDevtools retries for ever, each attempt is attachRuntime.
Dial ==
  /\ client = "down" /\ gen < plan.sessions
  /\ gen' = gen + 1
  /\ client' = "dialing"
  /\ buffer' = << >> /\ dropped' = 0
  /\ socket' = [socket EXCEPT ![gen'] = TRUE]
  /\ handler' = [handler EXCEPT ![gen'] = "called"]
  /\ Observe(gen')
  /\ UNCHANGED <<signalVars, sequence, work, flight, mail, rowVars, askVars,
                 restVars, historyVars>>

\* The scope of the attempt closes: what it had buffered is gone with it.
Leave(status) ==
  /\ client' = status
  /\ Unobserve(gen)
  /\ buffer' = << >> /\ dropped' = 0
  /\ UNCHANGED <<signalVars, sequence, work, gen>>

\* A mutant: a stream that ends without an error is not attached again.
DisconnectForGood ==
  /\ client \in {"dialing", "attached"} /\ ~socket[gen]
  /\ Leave("over")
  /\ flight' = [flight EXCEPT ![gen] = IF @.at = "net" THEN NoFlight ELSE @]
  /\ UNCHANGED <<netVars, rowVars, askVars, restVars, historyVars>>

\* The client finds its socket dead.
Disconnect ==
  /\ client \in {"dialing", "attached"} /\ ~socket[gen]
  /\ Leave("down")
  /\ flight' = [flight EXCEPT ![gen] = IF @.at = "net" THEN NoFlight ELSE @]
  /\ UNCHANGED <<netVars, rowVars, askVars, restVars, historyVars>>

\* A batch read from a socket that died can still be in the hub's hands.
DisconnectMidFlight ==
  /\ client = "attached" /\ ~socket[gen] /\ flight[gen].at = "net"
  /\ Leave("down")
  /\ UNCHANGED <<flight, netVars, rowVars, askVars, restVars, historyVars>>

\* A hub that speaks another version refuses, which ends the retries.
Refuse ==
  /\ client = "dialing" /\ socket[gen] /\ handler[gen] = "called"
  /\ handler' = [handler EXCEPT ![gen] = "over"]
  /\ Leave("refused")
  /\ socket' = [socket EXCEPT ![gen] = FALSE]
  /\ UNCHANGED <<flight, mail, rowVars, askVars, restVars, historyVars>>

\* The first command of the stream tells the client its attachment id.
Attached ==
  /\ client = "dialing" /\ socket[gen] /\ handler[gen] = "streaming"
  /\ client' = "attached"
  /\ UNCHANGED <<bothVars, gen, buffer, dropped, flight, netVars, rowVars, askVars,
                 restVars, historyVars>>

\* A mutant: the buffer is emptied by the answer of the hub, not by the swap.
FlushWithoutSwap ==
  /\ client = "attached" /\ flight[gen] = NoFlight
  /\ buffer # << >> \/ dropped > 0
  /\ flight' = [flight EXCEPT ![gen] = [at |-> "net", records |-> buffer, dropped |-> dropped]]
  /\ buffer' = << >>
  /\ UNCHANGED <<bothVars, client, gen, dropped, netVars, rowVars, askVars, restVars, historyVars>>

\* flushOnce swaps the buffer and waits for the hub before it looks again.
FlushOnce ==
  /\ client = "attached" /\ flight[gen] = NoFlight
  /\ buffer # << >> \/ dropped > 0
  /\ flight' = [flight EXCEPT ![gen] = [at |-> "net", records |-> buffer, dropped |-> dropped]]
  /\ buffer' = << >> /\ dropped' = 0
  /\ UNCHANGED <<bothVars, client, gen, netVars, rowVars, askVars, restVars, historyVars>>

\* A socket may die at any moment, the last one excepted (a bound).
SocketDies ==
  /\ gen \in 1 .. (plan.sessions - 1) /\ socket[gen]
  /\ socket' = [socket EXCEPT ![gen] = FALSE]
  /\ UNCHANGED <<bothVars, clientVars, handler, mail, rowVars, askVars, restVars, historyVars>>

-----------------------------------------------------------------------------
\* The hub's handlers.  Each submits an action to the attachments node.
Submit(message) == mail' = Append(mail, message)
HubOnly == UNCHANGED <<bothVars, client, gen, buffer, dropped, rowVars, restVars, historyVars>>

Attach(g) ==
  /\ handler[g] = "called" /\ socket[g]
  /\ handler' = [handler EXCEPT ![g] = "attaching"]
  /\ Submit(Message("attached", g))
  /\ UNCHANGED <<socket, flight, askVars>> /\ HubOnly

\* The action has answered: from here on the stream's finalizer detaches.
Stream(g) ==
  /\ handler[g] = "registered"
  /\ handler' = [handler EXCEPT ![g] = "streaming"]
  /\ UNCHANGED <<socket, mail, flight, askVars>> /\ HubOnly

\* The hub finds the socket dead, at the latest by the write of a heartbeat,
\* and interrupts the handler.  Before the stream exists there is no finalizer;
\* an action that still waits is withdrawn.
HandlerEnds(g) ==
  /\ handler[g] \in {"called", "attaching", "registered", "streaming"} /\ ~socket[g]
  /\ handler' = [handler EXCEPT ![g] = "over"]
  /\ IF handler[g] = "streaming" THEN Submit(Message("detached", g))
     ELSE mail' = RemoveFirst(mail, Message("attached", g))
  /\ UNCHANGED <<socket, flight, askVars>> /\ HubOnly

Ingest(g) ==
  /\ flight[g].at = "net"
  /\ flight' = [flight EXCEPT ![g].at = "mail"]
  /\ Submit(Message("ingested", g))
  /\ UNCHANGED <<socket, handler, askVars>> /\ HubOnly

\* The stream writes a question and the application answers it, each question
\* on a fiber of its own.
Reply(g) ==
  /\ handler[g] = "streaming" /\ socket[g] /\ g = gen /\ client = "attached"
  /\ \E q \in outbound[g] :
       /\ outbound' = [outbound EXCEPT ![g] = @ \ {q}]
       /\ Submit(Message("replied", q))
  /\ UNCHANGED <<socket, handler, flight, channel, ask, deferred>> /\ HubOnly

-----------------------------------------------------------------------------
\* The actions of the attachments node.
Register(g) ==
  /\ handler' = [handler EXCEPT ![g] = IF @ = "attaching" THEN "registered" ELSE @]
  /\ rows' = rows \cup {g}
  /\ view' = [view EXCEPT ![g] = NoView]
  /\ ring' = [ring EXCEPT ![g] = << >>]
  /\ evicted' = [evicted EXCEPT ![g] = 0]
  /\ channel' = [channel EXCEPT ![g] = {}]
  /\ UNCHANGED <<flight, deferred>>

\* A mutant: a detachment leaves the questions to their timeouts.
ForgetChannel(g) ==
  /\ channel' = [channel EXCEPT ![g] = {}]
  /\ UNCHANGED deferred

\* Whoever waits for an answer is told at once.
CloseChannel(g) ==
  /\ channel' = [channel EXCEPT ![g] = {}]
  /\ deferred' = [q \in Asks |->
       IF q \in channel[g] /\ deferred[q] = "open" THEN "detached" ELSE deferred[q]]

Detach(g) ==
  /\ rows' = rows \ {g}
  /\ CloseChannel(g)
  /\ UNCHANGED <<handler, flight, view, ring, evicted>>

\* The ring is trimmed only past its slack.
Push(g, records) ==
  LET all == ring[g] \o records
      excess == IF Len(all) > Capacity + TrimSlack THEN Len(all) - Capacity ELSE 0
  IN /\ ring' = [ring EXCEPT ![g] = SubSeq(all, excess + 1, Len(all))]
     /\ evicted' = [evicted EXCEPT ![g] = @ + excess]

Record(g, records, droppedSince) ==
  view' = [view EXCEPT ![g] =
    [count |-> @.count + Len(records),
     dropped |-> @.dropped + droppedSince,
     last |-> IF records = << >> THEN @.last ELSE Last(records)]]

\* A batch that outraced the detachment is discarded.  The caller hears back.
Ingested(g) ==
  /\ flight' = [flight EXCEPT ![g] = NoFlight]
  /\ IF g \notin rows THEN UNCHANGED <<view, ring, evicted>>
     ELSE /\ Push(g, flight[g].records)
          /\ Record(g, flight[g].records, flight[g].dropped)
  /\ UNCHANGED <<handler, rows, channel, deferred>>

\* An answer nobody waits for is dropped.
Settle(q) ==
  /\ deferred' = IF q \in channel[ask[q].of] /\ deferred[q] = "open"
                 THEN [deferred EXCEPT ![q] = "answered"] ELSE deferred
  /\ UNCHANGED <<handler, flight, rows, view, ring, evicted, channel>>

RunAction ==
  /\ mail # << >>
  /\ mail' = Tail(mail)
  /\ LET m == Head(mail) IN
       \/ m.act = "attached" /\ Register(m.of)
       \/ m.act = "detached" /\ Detach(m.of)
       \/ m.act = "ingested" /\ Ingested(m.of)
       \/ m.act = "replied" /\ Settle(m.of)
  /\ UNCHANGED <<bothVars, client, gen, buffer, dropped, socket, outbound, ask, restVars,
                 historyVars>>

-----------------------------------------------------------------------------
\* Questions: QueryBroker.ask registers before it offers.
AskOnly == UNCHANGED <<bothVars, clientVars, netVars, rowVars, restVars, historyVars>>

Ask(q, g) ==
  /\ q \in plan.asks /\ ask[q].at = "idle" /\ g \in rows
  /\ IF Cardinality(channel[g]) >= MaxInFlight
     THEN ask' = [ask EXCEPT ![q] = [at |-> "refused", of |-> g]] /\ UNCHANGED <<channel, outbound>>
     ELSE /\ ask' = [ask EXCEPT ![q] = [at |-> "waiting", of |-> g]]
          /\ channel' = [channel EXCEPT ![g] = @ \cup {q}]
          /\ outbound' = [outbound EXCEPT ![g] = @ \cup {q}]
  /\ UNCHANGED deferred /\ AskOnly

\* However the wait ends, the question leaves its channel.
StopWaiting(q, how) ==
  /\ ask' = [ask EXCEPT ![q].at = how]
  /\ channel' = [channel EXCEPT ![ask[q].of] = @ \ {q}]
  /\ UNCHANGED <<outbound, deferred>> /\ AskOnly

Hear(q) == ask[q].at = "waiting" /\ deferred[q] # "open" /\ StopWaiting(q, deferred[q])
TimeOut(q) == ask[q].at = "waiting" /\ deferred[q] = "open" /\ StopWaiting(q, "timed out")
HangUp(q) == ask[q].at = "waiting" /\ StopWaiting(q, "interrupted")

-----------------------------------------------------------------------------
\* A reader pages through one attachment's ring, `since` its last record.
\* The search halves the ring as if it were sorted.
IndexAfter(records, since) ==
  LET n == Len(records)
      Search[range \in (0 .. n) \X (0 .. n)] ==
        LET low == range[1]
            high == range[2]
            mid == (low + high) \div 2
        IN IF low >= high THEN low
           ELSE IF records[mid + 1] <= since THEN Search[<<mid + 1, high>>]
           ELSE Search[<<low, mid>>]
  IN Search[<<0, n>>]

Page(records, since) ==
  LET start == IndexAfter(records, since)
  IN SubSeq(records, start + 1, IF start + Limit < Len(records) THEN start + Limit ELSE Len(records))

\* A mutant: the cursor goes to the newest record, read or not.
NewestSince(g, page, since) == IF ring[g] = << >> THEN since ELSE Last(ring[g])

NextSince(g, page, since) == IF page = << >> THEN since ELSE Last(page)

Read(g) ==
  /\ plan.reads /\ g \in rows
  /\ LET since == IF reader.of = g THEN reader.cursor ELSE 0
         page == Page(ring[g], since)
         before == IF reader.of = g THEN reader.got ELSE {}
     IN reader' = [of |-> g, cursor |-> NextSince(g, page, since),
                   got |-> before \cup ToSet(page)]
  /\ UNCHANGED <<bothVars, clientVars, netVars, rowVars, askVars, board, plan, emitted,
                 historyVars>>

-----------------------------------------------------------------------------
\* The dashboard.  Rows are in the order of connection; the cursor falls back
\* to the first.  Whose records are shown is the attachment in `frozen` while
\* the dashboard is paused.
Selected(id) == IF id \in rows THEN id ELSE IF rows = {} THEN None ELSE Min(rows)

Click(next) ==
  /\ board.clicks < plan.clicks
  /\ board' = [next EXCEPT !.clicks = board.clicks + 1]
  /\ UNCHANGED <<bothVars, clientVars, netVars, rowVars, askVars, reader, plan, emitted,
                 historyVars>>

SelectionChanged(id) ==
  Click([board EXCEPT !.selected = id,
                      !.frozen = IF board.paused THEN Selected(id) ELSE @])

PauseChanged(paused) ==
  Click([board EXCEPT !.paused = paused,
                      !.frozen = IF paused THEN Selected(board.selected) ELSE None])

-----------------------------------------------------------------------------
\* What a scheduler, a socket and the clocks bring about.
Runtime ==
  \/ BusStep \/ SignalStep \/ Dial \/ Disconnect \/ Refuse \/ Attached \/ FlushOnce \/ RunAction
  \/ \E g \in Session : Attach(g) \/ Stream(g) \/ HandlerEnds(g) \/ Ingest(g)
  \/ \E q \in Asks : Hear(q) \/ TimeOut(q)

DevtoolsNext ==
  \/ Runtime
  \/ EmitEvent \/ UseSignals
  \/ SocketDies \/ DisconnectMidFlight
  \/ \E g \in Session : Reply(g) \/ Read(g) \/ \E q \in Asks : Ask(q, g)
  \/ \E q \in Asks : HangUp(q)
  \/ \E id \in rows : SelectionChanged(id)
  \/ \E paused \in BOOLEAN : PauseChanged(paused)

DevtoolsSpec == DevtoolsInit /\ [][DevtoolsNext]_devtoolsVars /\ WF_devtoolsVars(Runtime)

-----------------------------------------------------------------------------
\* While a session lasts, every record its observer was given is in the hub's
\* count, counted as dropped, being sent, or in the buffer; and the ring, the
\* batch and the buffer continue each other without a gap (attach.ts:178-196,
\* attachments.ts:212-252, retention.ts:80-88).
NothingUncounted ==
  client = "attached" /\ gen \in rows =>
    LET f == flight[gen] IN
    /\ seen[gen] = view[gen].count + view[gen].dropped + Len(f.records) + f.dropped
                     + Len(buffer) + dropped
    /\ ring[gen] \o f.records \o buffer
         = SubSeq(kept[gen], evicted[gen] + 1, Len(kept[gen]))

\* A reader who waits without an answer waits in the channel of an attachment
\* that is listed, and channels hold nobody else: a detachment reaches everyone,
\* and nobody who left counts towards the limit (queries.ts:83-98,164-188).
NoOrphanQuestion ==
  /\ \A q \in Asks : ask[q].at = "waiting" /\ deferred[q] = "open" =>
       ask[q].of \in rows /\ q \in channel[ask[q].of]
  /\ \A g \in Session : \A q \in channel[g] : ask[q] = [at |-> "waiting", of |-> g]

\* A reader that pages by cursor misses no record the ring still holds that came
\* in order: none that was overtaken on the bus, or overtook, can be skipped by a
\* search that takes the ring for sorted (retention.ts:113-166, mcpReads.ts:
\* 281-308).
InOrder(g, r) ==
  \A i, j \in DOMAIN kept[g] :
    i < j /\ r \in {kept[g][i], kept[g][j]} => kept[g][i] <= kept[g][j]

PagingMissesNothing ==
  reader.of \in rows =>
    \A r \in ToSet(ring[reader.of]) :
      r <= reader.cursor /\ InOrder(reader.of, r) => r \in reader.got

\* While the dashboard is paused the records it shows are those of the attachment
\* under the cursor, as long as that one is listed (dashboard.ts:186-209).
PausedTailIsTheCursors ==
  board.paused /\ board.selected \in rows => board.frozen = board.selected

\* An attachment whose stream began and whose socket dies leaves the list and
\* does not come back, whatever arrives late (hubServer.ts:181-184,
\* attachments.ts:223-228).
DeadIsForgotten ==
  \A g \in Session :
    [](handler[g] = "streaming" /\ ~socket[g] => <>[](g \notin rows))

\* Unless it is refused, the application attaches for good, and the hub ends up
\* with an account of everything the last session observed (attachDevtools.ts:
\* 135-191, attach.ts:178-198).
HubCatchesUp ==
  <>[](plan.sessions = 0 \/ client = "refused" \/
       /\ client = "attached" /\ gen \in rows
       /\ view[gen].count + view[gen].dropped = seen[gen])
=============================================================================
