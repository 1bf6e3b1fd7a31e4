----------------------------- MODULE Diagnostics -----------------------------
(***************************************************************************)
(* How a failure travels from the attempt that made it to the reports a   *)
(* tracker receives: the failures of attempts, actions and refreshes as   *)
(* chains of causes (graph/types/failures.ts, graph/operations), the set  *)
(* of failures an attempt has reported (graph/readiness/sourceFailures.ts),*)
(* the events and whether they are reportable (events/index.ts), and the  *)
(* projection of a chain into a report (diagnostics/projection.ts,        *)
(* diagnostics/report.ts).                                                *)
(*                                                                         *)
(* A failure object is the sequence of its frames, its own first and what *)
(* it names as `cause` after it; the serial number of the attempt or      *)
(* operation that made a frame gives the object its identity.  Wording,   *)
(* stacks, previews and truncation are left out: a text is what it says   *)
(* and the number that varies from one occurrence to the next.            *)
(***************************************************************************)
EXTENDS Naturals, Sequences, FiniteSets, SequencesExt, FiniteSetsExt

CONSTANTS
  Node,          \* node ids
  Broken,        \* nodes whose planning failed: Invalid from the start
  Requests,      \* callers of the runtime, each with one command
  DependencyIds, \* node -> sequence of the nodes its cell depends on
  TagOf,         \* node -> tag (two nodes of one class share it)
  ThrowsAs,      \* node -> how its driver fails: "promise", "effect", "defect"
  SinksSuspend,  \* TRUE when an observer may suspend inside notifyChanged
  MaxSerial,     \* bound on the failures made
  None

ASSUME GraphAssumption ==
  /\ Broken \subseteq Node
  /\ \A n \in Node : Range(DependencyIds[n]) \subseteq Node \ Broken

VARIABLES
  phase,     \* node -> "Idle", "Acquiring", "Ready", "Error", "Invalid"
  error,     \* node -> the failure its status carries, <<>> without one
  expired,   \* node -> its result is past expireAfter
  asker,     \* node -> who started the attempt its actor is running, or None
  answer,    \* asker -> node -> the read an ensure returned, or None
  source,    \* sourceFailures: the failures attempts have reported
  records,   \* the events that carry failures, in the order they were emitted
  request,   \* request -> [kind, node, stage]
  serial

vars == <<phase, error, expired, asker, answer, source, records, request, serial>>

-----------------------------------------------------------------------------
(* Failure objects *)

Blank == [tag |-> "none", node |-> None, tagged |-> FALSE, action |-> FALSE,
          operation |-> "none", kind |-> "none", invariant |-> FALSE,
          says |-> "", varies |-> 0, serial |-> 0, dependency |-> None, members |-> <<>>]

\* A failure that names its node: tag, nodeId and the node's tag.
NodeFailure(tag, n) ==
  [Blank EXCEPT !.tag = tag, !.node = n, !.tagged = TRUE, !.serial = serial]

AcquireFailed(n, cause) == <<NodeFailure("AcquireFailed", n)>> \o cause
ActionFailed(n, cause) == <<[NodeFailure("ActionFailed", n) EXCEPT !.action = TRUE]>> \o cause
RefreshFailed(n, cause) == <<NodeFailure("RefreshFailed", n)>> \o cause
ResultExpired(n) == <<NodeFailure("ResultExpired", n)>>
DependencyResultExpired(n) == <<NodeFailure("DependencyResultExpired", n)>>
CycleDetected(n) == <<[Blank EXCEPT !.tag = "CycleDetected", !.node = n, !.tagged = TRUE]>>

DependencyRefreshFailed(n, d, cause) ==
  <<[NodeFailure("DependencyRefreshFailed", n) EXCEPT !.dependency = d]>> \o cause

failDependency(n, d, cause) ==
  <<[NodeFailure("DependencyFailed", n) EXCEPT !.dependency = d]>> \o cause

\* One failing dependency is its own failure, several are an aggregate without
\* a cause.
dependencyFailures(n, failed) ==
  IF Len(failed) = 1 THEN failed[1]
  ELSE <<[NodeFailure("DependencyFailures", n) EXCEPT !.members = failed]>>

\* What the application threw: a class with a text, or an anonymous Error
\* below a class without one, or a bare defect.
Thrown(n) ==
  LET text == [Blank EXCEPT !.says = "backend refused", !.varies = serial] IN
  IF ThrowsAs[n] = "effect"
  THEN <<[Blank EXCEPT !.tag = "BackendError"], [text EXCEPT !.tag = "Error"]>>
  ELSE IF ThrowsAs[n] = "defect" THEN <<[text EXCEPT !.tag = "Error"]>>
  ELSE <<[text EXCEPT !.tag = "BackendError"]>>

\* A promise driver's rejection is wrapped with node and operation.
DriverPromiseFailed(n, operation) ==
  <<[NodeFailure("DriverPromiseFailed", n) EXCEPT !.operation = operation]>>

\* A defect crosses the boundary wrapped, an expected failure as it is.
normalizeEffectBoundaryCause(n, cause) ==
  IF ThrowsAs[n] = "defect" THEN <<[Blank EXCEPT !.tag = "EffectBoundaryFailed"]>> \o cause
  ELSE cause

DriverFailure(n, operation) ==
  IF ThrowsAs[n] = "promise" THEN DriverPromiseFailed(n, operation) \o Thrown(n)
  ELSE normalizeEffectBoundaryCause(n, Thrown(n))

-----------------------------------------------------------------------------
(* sourceFailures.ts *)

readCause(failure) == Tail(failure)
isSourceFailure(src, failure) == failure \in src

\* A mutant: every wrapper of a dependency counts as reported.
EveryWrapperIsReported(src, failure) ==
  failure # <<>> /\ Head(failure).tag \in {"DependencyFailed", "DependencyFailures"}

RECURSIVE isReportedDependencyWrapper(_, _)
isReportedDependencyWrapper(src, failure) ==
  /\ failure # <<>>
  /\ IF Head(failure).tag = "DependencyFailed"
     THEN \/ isSourceFailure(src, readCause(failure))
          \/ isReportedDependencyWrapper(src, readCause(failure))
     ELSE /\ Head(failure).members # <<>>
          /\ \A i \in DOMAIN Head(failure).members :
               isReportedDependencyWrapper(src, Head(failure).members[i])

wrapsReportedDependency(src, failure) ==
  \/ isReportedDependencyWrapper(src, failure)
  \/ isReportedDependencyWrapper(src, readCause(failure))

aggregateMembers(failure) == IF failure = <<>> THEN <<>> ELSE Head(failure).members

unreportedFailures(src, failure) ==
  LET members == IF aggregateMembers(failure) # <<>> THEN aggregateMembers(failure)
                 ELSE aggregateMembers(readCause(failure)) IN
  IF members = <<>> THEN <<failure>>
  ELSE SelectSeq(members, LAMBDA m : ~isReportedDependencyWrapper(src, m))

-----------------------------------------------------------------------------
(* events/index.ts *)

\* A mutant: an action reports the failed acquire it started.
OnlyDependenciesObserved(src, failure) == wrapsReportedDependency(src, failure)

observesReportedFailure(src, failure) ==
  wrapsReportedDependency(src, failure) \/ isSourceFailure(src, readCause(failure))

\* An ensure reports what its status carries only when no attempt could have.
ensuredClassification(read) == read.status = "Invalid"

classify(src, event, failure, read) ==
  CASE event = "GraphNodeReadinessFailed" -> ~wrapsReportedDependency(src, failure)
    [] event = "GraphNodeReadyEnsured" -> ensuredClassification(read)
    [] event \in {"GraphActionFailed", "GraphRefreshFailed"} ->
         ~observesReportedFailure(src, failure)

\* createRuntimeEventReports, by the report sink that receives the record.
createRuntimeEventReports(src, reportable, failure) ==
  IF reportable THEN unreportedFailures(src, failure) ELSE <<>>

Record(src, event, n, failure, read) ==
  LET reportable == classify(src, event, failure, read) IN
  [event |-> event, node |-> n, failure |-> failure,
   reports |-> createRuntimeEventReports(src, reportable, failure)]

-----------------------------------------------------------------------------
(* Projection *)

\* walkProjectionChain: each object of the walk; its frame is its head.  An
\* aggregate has no cause and is continued in its first member.
RECURSIVE walkFrames(_)
walkFrames(failure) ==
  <<failure>> \o
  (IF Len(failure) > 1 THEN walkFrames(Tail(failure))
   ELSE IF aggregateMembers(failure) # <<>> THEN walkFrames(aggregateMembers(failure)[1])
   ELSE <<>>)

frondFrameTags ==
  {"AcquireFailed", "ActionFailed", "RefreshFailed", "ResultExpired", "CycleDetected",
   "DependencyFailed", "DependencyFailures", "DependencyResultExpired",
   "DependencyRefreshFailed", "DriverPromiseFailed", "EffectBoundaryFailed",
   "FrondRuntimeReadError"}
carrierNames == {"Error", "UnknownError"}
operationFailureTags == {"ActionFailed", "RefreshFailed"}
readinessFailureTags == {"AcquireFailed", "DependencyFailed", "DependencyFailures"}

\* The operation a wrapper stands for when no frame of the block names one.
wrapperOperations(tag) ==
  CASE tag = "AcquireFailed" -> "acquire" [] tag = "RefreshFailed" -> "refresh"
    [] OTHER -> "none"

classifyFrame(frame) ==
  IF frame.tag \in frondFrameTags THEN "frond"
  ELSE IF frame.tag \in carrierNames THEN "carrier" ELSE "app"

isFrondFrame(frame) == classifyFrame(frame) = "frond"
isNodeFrame(frame) == isFrondFrame(frame) /\ frame.node # None /\ frame.tagged

First(S) == IF S = {} THEN 0 ELSE Min(S)
Last1(S) == IF S = {} THEN 0 ELSE Max(S)

\* A mutant: the block runs over a failure an attempt has reported.
BlockOverSources(walked, failing) ==
  LET frame(i) == Head(walked[i]) IN
  Max({i \in 1..failing :
         \/ i = 1
         \/ ~isFrondFrame(frame(i - 1))
         \/ frame(i - 1).tag = "FrondRuntimeReadError"
         \/ frame(i - 1).node # frame(failing).node})

\* The outermost frame of the failing node's own block, never above a failure
\* an attempt has reported and never the wrapper of a reader.
failingBlockStart(walked, failing) ==
  LET frame(i) == Head(walked[i]) IN
  Max({i \in 1..failing :
         \/ i = 1
         \/ isSourceFailure(source, walked[i])
         \/ ~isFrondFrame(frame(i - 1))
         \/ frame(i - 1).tag = "FrondRuntimeReadError"
         \/ frame(i - 1).node # frame(failing).node})

projectionKindSignal(frames) ==
  LET tags == {frames[i].tag : i \in DOMAIN frames} IN
  IF frames # <<>> /\ frames[1].tag = "FrondRuntimeReadError" THEN frames[1].kind
  ELSE IF "CycleDetected" \in tags THEN "invalid"
  ELSE IF tags \cap operationFailureTags # {} THEN "operation"
  ELSE IF tags \cap readinessFailureTags # {} THEN "readiness"
  ELSE "unexpected"

\* The block's own kind; the whole chain's only when the block names none.
projectionKindFrom(own, all) ==
  LET kind == projectionKindSignal(own) IN
  IF kind = "unexpected" THEN projectionKindSignal(all) ELSE kind

\* The action of the block, then the innermost operation, then the first
\* wrapper that stands for one.
failingOperation(block) ==
  LET acting == {i \in DOMAIN block : block[i].action}
      named == {i \in DOMAIN block : block[i].operation # "none"}
      wrapping == {i \in DOMAIN block : wrapperOperations(block[i].tag) # "none"} IN
  IF acting # {} THEN "action"
  ELSE IF named # {} THEN block[Max(named)].operation
  ELSE IF wrapping # {} THEN wrapperOperations(block[Min(wrapping)].tag)
  ELSE "none"

hasCauseMessage(frame) == ~isFrondFrame(frame) /\ frame.says # ""

\* The innermost message, prefixed by its type when another type classifies it.
projectedCauseMessage(frames, message, causeType) ==
  IF message = 0 THEN <<frames[Len(frames)].tag, 0>>
  ELSE LET frame == frames[message] IN
       IF frame.tag = causeType \/ classifyFrame(frame) = "carrier"
       THEN <<frame.says, frame.varies>> ELSE <<frame.tag, frame.says, frame.varies>>

\* Tag by tag from the requester to the failing node, each once.
nodePath(frames, failing) ==
  LET tags == [i \in 1..failing |->
                 IF isFrondFrame(frames[i]) /\ frames[i].tagged
                 THEN <<TagOf[frames[i].node]>> ELSE <<>>]
      add(path, tag) == IF tag = <<>> \/ \E i \in DOMAIN path : path[i] = tag[1]
                        THEN path ELSE path \o tag IN
  FoldLeft(add, <<>>, tags)

\* The outermost frame with a node; a reader's wrapper carries only the id.
requesterRef(frames) ==
  LET outer == First({i \in DOMAIN frames : isFrondFrame(frames[i]) /\ frames[i].node # None})
  IN IF outer = 0 THEN None ELSE frames[outer].node

projectError(raw) ==
  LET walked == walkFrames(raw)
      frames == [i \in DOMAIN walked |-> Head(walked[i])]
      failing == Last1({i \in DOMAIN frames : isNodeFrame(frames[i])})
      start == IF failing = 0 THEN 1 ELSE failingBlockStart(walked, failing)
      anchor == IF failing = 0 THEN Last1({i \in DOMAIN frames : isFrondFrame(frames[i])})
                ELSE failing
      below == {i \in DOMAIN frames : i > anchor}
      typing == First({i \in below : classifyFrame(frames[i]) = "app"})
      bottom == frames[Len(frames)]
      causeType == IF typing # 0 THEN frames[typing].tag
                   ELSE IF isFrondFrame(bottom) THEN bottom.tag ELSE "Error"
      message == Last1({i \in below : hasCauseMessage(frames[i])})
      kind == projectionKindFrom(SubSeq(frames, start, Len(frames)), frames) IN
  [kind |-> kind,
   ownKind |-> projectionKindSignal(SubSeq(frames, start, Len(frames))),
   retryable |-> IF frames[1].tag = "FrondRuntimeReadError"
                 THEN frames[1].kind = "readiness" ELSE kind = "readiness",
   causeType |-> causeType,
   causeMessage |-> projectedCauseMessage(frames, message, causeType),
   failingNode |-> IF failing = 0 THEN None ELSE frames[failing].node,
   requester |-> requesterRef(frames),
   path |-> nodePath(frames, failing),
   operation |-> IF failing = 0 THEN "none" ELSE failingOperation(SubSeq(frames, start, failing)),
   failingFailure |-> walked[start]]

\* maskMessage: numbers and ids become placeholders, what is said remains.
maskMessage(message) == IF Len(message) = 2 THEN <<message[1]>> ELSE <<message[1], message[2]>>

reportFingerprint(p) ==
  <<p.kind, IF p.failingNode = None THEN None ELSE TagOf[p.failingNode], p.operation, p.causeType>>
  \o (IF p.causeType = "Error" THEN maskMessage(p.causeMessage) ELSE <<>>)

\* The tracker's error is memoized by the failing failure: its identity.
createErrorReport(failure) ==
  LET p == projectError(failure) IN
  [error |-> p.failingFailure, fingerprint |-> reportFingerprint(p),
   message |-> <<p.failingNode, p.operation, p.causeMessage>>]

-----------------------------------------------------------------------------
(* Attempts *)

ReadyRead == [status |-> "Ready", cause |-> <<>>]

\* Pending is Acquiring, Error and Ready are runs of a wired node.
NodeStatus == {"Idle", "Acquiring", "Ready", "Error", "Invalid"}
FailureEvents ==
  {"GraphNodeReadinessFailed", "GraphNodeReadyEnsured", "GraphActionFailed", "GraphRefreshFailed"}

TypeOK ==
  /\ phase \in [Node -> NodeStatus]
  /\ \A i \in DOMAIN records : records[i].event \in FailureEvents
  /\ expired \in [Node -> BOOLEAN]
  /\ asker \in [Node -> Node \cup Requests \cup {None}]
  /\ serial \in 0..MaxSerial
  /\ \A q \in Requests : request[q].stage \in {"new", "asking", "running", "done"}

Init ==
  /\ phase = [n \in Node |-> IF n \in Broken THEN "Invalid" ELSE "Idle"]
  /\ error = [n \in Node |-> IF n \in Broken THEN CycleDetected(n) ELSE <<>>]
  /\ expired = [n \in Node |-> FALSE]
  /\ asker = [n \in Node |-> None]
  /\ answer = [a \in Node \cup Requests |-> [n \in Node |-> None]]
  /\ source = {} /\ records = <<>> /\ serial = 0
  /\ request = [q \in Requests |-> [kind |-> "none", node |-> None, stage |-> "new"]]

\* Between the commit of an error and its event the attempt is not over.
Telling(n) == phase[n] = "Error" /\ asker[n] # None

\* Without a suspending observer the two follow each other at once.
Undisturbed == SinksSuspend \/ \A n \in Node : ~Telling(n)

Operating(n) == \E q \in Requests : request[q].stage = "running" /\ request[q].node = n

\* The reads `a` is waiting for.
Asks(a) ==
  IF a \in Node THEN {d \in Range(DependencyIds[a]) : phase[a] = "Acquiring" /\ answer[a][d] = None}
  ELSE {n \in Node : request[a].stage = "asking" /\ request[a].node = n /\ answer[a][n] = None}

\* The status of a node that is not ready, where it stands for a cause.
StatusObject(n) == <<[Blank EXCEPT !.tag = IF phase[n] = "Invalid" THEN "Invalid" ELSE "Wired"]>>

\* nodeStatusCause and notReadyCause: the failure the status carries, or else
\* the status of a node that is Idle or Pending.
ReadOf(n) ==
  CASE phase[n] = "Ready" -> [status |-> IF expired[n] THEN "Expired" ELSE "Ready", cause |-> <<>>]
    [] phase[n] \in {"Error", "Invalid"} -> [status |-> phase[n], cause |-> error[n]]
    [] OTHER -> [status |-> phase[n], cause |-> StatusObject(n)]

NeedsAttempt(n) ==
  \/ phase[n] \in {"Idle", "Error"}
  \/ phase[n] = "Ready" /\ expired[n] /\ ~Operating(n)

\* ensureReady of `n` reaches the head of its actor's mailbox: it is answered
\* from the phase, or an attempt starts on behalf of `a`.
EnsureReady(a, n) ==
  /\ Undisturbed /\ n \in Asks(a) /\ asker[n] = None
  /\ IF NeedsAttempt(n)
     THEN /\ serial < MaxSerial
          /\ phase' = [phase EXCEPT ![n] = "Acquiring"]
          /\ error' = [error EXCEPT ![n] = <<>>]
          /\ expired' = [expired EXCEPT ![n] = FALSE]
          /\ asker' = [asker EXCEPT ![n] = a]
          /\ answer' = [answer EXCEPT ![n] = [d \in Node |-> None]]
     ELSE /\ answer' = [answer EXCEPT ![a][n] = ReadOf(n)]
          /\ UNCHANGED <<phase, error, expired, asker>>
  /\ UNCHANGED <<source, records, request, serial>>

\* What a dependency's read means to the dependent `n`: no failure, or its own
\* failure wrapped.
DependencyValue(n, d, read) ==
  IF read.status = "Ready" THEN <<>>
  ELSE IF read.status = "Expired" THEN <<failDependency(n, d, DependencyResultExpired(d))>>
  ELSE <<failDependency(n, d, read.cause)>>

\* In the order of the cell's dependencies.
FailedDependencies(n, value(_)) ==
  FlattenSeq([i \in DOMAIN DependencyIds[n] |-> value(DependencyIds[n][i])])

ensureDependencyNodes(n) ==
  FailedDependencies(n, LAMBDA d : DependencyValue(n, d, answer[n][d]))

Fail(n, failure) ==
  /\ phase' = [phase EXCEPT ![n] = "Error"]
  /\ error' = [error EXCEPT ![n] = failure]
  /\ serial' = serial + 1
  /\ UNCHANGED <<expired, asker, answer, source, records, request>>

Answered(n) == phase[n] = "Acquiring" /\ Asks(n) = {}

\* An attempt whose dependencies failed, without running the driver.
DependenciesFail(n) ==
  /\ Undisturbed /\ serial < MaxSerial /\ Answered(n)
  /\ ensureDependencyNodes(n) # <<>>
  /\ Fail(n, dependencyFailures(n, ensureDependencyNodes(n)))

AcquireFails(n) ==
  /\ Undisturbed /\ serial < MaxSerial /\ Answered(n)
  /\ ensureDependencyNodes(n) = <<>>
  /\ Fail(n, AcquireFailed(n, DriverFailure(n, "acquire")))

AcquireSucceeds(n) ==
  /\ Undisturbed /\ Answered(n) /\ ensureDependencyNodes(n) = <<>>
  /\ phase' = [phase EXCEPT ![n] = "Ready"]
  /\ answer' = [answer EXCEPT ![asker[n]][n] = ReadyRead]
  /\ asker' = [asker EXCEPT ![n] = None]
  /\ UNCHANGED <<error, expired, source, records, request, serial>>

\* failAttempt after notifyChanged: the failure is recorded as reported, its
\* event is emitted, the caller gets the read.
TellFailure(n) ==
  /\ Telling(n)
  /\ source' = source \cup {error[n]}
  /\ records' = Append(records,
       Record(source', "GraphNodeReadinessFailed", n, error[n], ReadyRead))
  /\ answer' = [answer EXCEPT ![asker[n]][n] = ReadOf(n)]
  /\ asker' = [asker EXCEPT ![n] = None]
  /\ UNCHANGED <<phase, error, expired, request, serial>>

\* The clock passes expireAfter.
Expire(n) ==
  /\ Undisturbed /\ phase[n] = "Ready" /\ ~expired[n]
  /\ expired' = [expired EXCEPT ![n] = TRUE]
  /\ UNCHANGED <<phase, error, asker, answer, source, records, request, serial>>

-----------------------------------------------------------------------------
(* Commands *)

Stage(q, stage) == request' = [request EXCEPT ![q].stage = stage]

Rejected(q, event, failure, read) ==
  /\ Stage(q, "done")
  /\ records' = Append(records, Record(source, event, request[q].node, failure, read))
  /\ serial' = serial + 1
  /\ UNCHANGED <<phase, error, expired, asker, answer, source>>

Succeeds(q) ==
  Stage(q, "done") /\ UNCHANGED <<phase, error, expired, asker, answer, source, records, serial>>

Submit(q, kind, n) ==
  /\ Undisturbed /\ request[q].stage = "new"
  /\ request' = [request EXCEPT ![q] = [kind |-> kind, node |-> n, stage |-> "asking"]]
  /\ UNCHANGED <<phase, error, expired, asker, answer, source, records, serial>>

\* A refresh does not ensure its node.
Waiting(q) == request[q].stage = "asking" /\ (request[q].kind = "refresh" \/ Asks(q) = {})

Ensured(q) ==
  LET n == request[q].node
      read == answer[q][n] IN
  /\ Undisturbed /\ serial < MaxSerial /\ Waiting(q) /\ request[q].kind = "ensure"
  /\ IF read.cause = <<>> THEN Succeeds(q)
     ELSE Rejected(q, "GraphNodeReadyEnsured", read.cause, read)

\* An operation does not wait for a dependency: it takes the phase as it is now,
\* and fails at once if its attempt is pending.
currentDependencyValue(n, d) == DependencyValue(n, d, ReadOf(d))
collectDependencyValues(n) == FailedDependencies(n, LAMBDA d : currentDependencyValue(n, d))

RunAction(q) ==
  LET n == request[q].node
      read == answer[q][n]
      failed == collectDependencyValues(n) IN
  /\ Undisturbed /\ serial < MaxSerial /\ Waiting(q) /\ request[q].kind = "action"
  /\ IF read.status # "Ready" /\ read.status # "Expired"
     THEN Rejected(q, "GraphActionFailed", ActionFailed(n, read.cause), read)
     ELSE IF failed # <<>>
     THEN Rejected(q, "GraphActionFailed", ActionFailed(n, dependencyFailures(n, failed)), read)
     ELSE Stage(q, "running")
          /\ UNCHANGED <<phase, error, expired, asker, answer, source, records, serial>>

\* The cause of a refresh of a node that is not ready is the status itself,
\* not the failure inside it.
RunRefresh(q) ==
  LET n == request[q].node
      failed == collectDependencyValues(n)
      fail(cause) == Rejected(q, "GraphRefreshFailed", RefreshFailed(n, cause), ReadyRead) IN
  /\ Undisturbed /\ serial < MaxSerial /\ Waiting(q) /\ request[q].kind = "refresh"
  /\ asker[n] = None
  /\ IF phase[n] # "Ready" THEN fail(StatusObject(n))
     ELSE IF expired[n] THEN fail(ResultExpired(n))
     ELSE IF failed # <<>> THEN fail(dependencyFailures(n, failed))
     ELSE Stage(q, "running")
          /\ UNCHANGED <<phase, error, expired, asker, answer, source, records, serial>>

OperationSucceeds(q) == Undisturbed /\ request[q].stage = "running" /\ Succeeds(q)

EventOf(kind) == IF kind = "action" THEN "GraphActionFailed" ELSE "GraphRefreshFailed"
Failed(kind, n, cause) == IF kind = "action" THEN ActionFailed(n, cause) ELSE RefreshFailed(n, cause)

OperationFails(q) ==
  LET n == request[q].node
      kind == request[q].kind IN
  /\ Undisturbed /\ serial < MaxSerial /\ request[q].stage = "running"
  /\ Rejected(q, EventOf(kind), Failed(kind, n, DriverFailure(n, kind)), ReadyRead)

\* ctx.refreshDep inside the hook: the dependency's refresh is submitted by the
\* graph, whose failure has no event of its own.
RefreshDepFails(q, d) ==
  LET n == request[q].node
      kind == request[q].kind IN
  /\ Undisturbed /\ serial < MaxSerial /\ request[q].stage = "running"
  /\ d \in Range(DependencyIds[n]) /\ phase[d] = "Ready" /\ ~expired[d]
  /\ Rejected(q, EventOf(kind),
       Failed(kind, n,
         DependencyRefreshFailed(n, d, RefreshFailed(d, DriverFailure(d, "refresh")))), ReadyRead)

Next ==
  \/ \E a \in Node \cup Requests, n \in Node : EnsureReady(a, n)
  \/ \E n \in Node : \/ DependenciesFail(n) \/ AcquireFails(n) \/ AcquireSucceeds(n)
                     \/ TellFailure(n) \/ Expire(n)
  \/ \E q \in Requests, n \in Node : \E kind \in {"ensure", "action", "refresh"} : Submit(q, kind, n)
  \/ \E q \in Requests : \/ Ensured(q) \/ RunAction(q) \/ RunRefresh(q)
                         \/ OperationSucceeds(q) \/ OperationFails(q)
  \/ \E q \in Requests, d \in Node : RefreshDepFails(q, d)

Spec == Init /\ [][Next]_vars

-----------------------------------------------------------------------------
(* Properties *)

ResolvesTo(failure) == projectError(failure).failingFailure

\* The failures an event's reports resolve to.
ReportedBy(record) == {ResolvesTo(record.reports[i]) : i \in DOMAIN record.reports}

\* Every failure under an aggregate, however deep.
RECURSIVE Leaves(_)
Leaves(failure) ==
  LET bottom == failure[Len(failure)] IN
  IF bottom.members = <<>> THEN {failure}
  ELSE UNION {Leaves(bottom.members[i]) : i \in DOMAIN bottom.members}

\* A failure is reported once, by the event at its source
\* (diagnostics/report.ts, createRuntimeEventReports): once an attempt has
\* reported its failure, no event of a caller, of a dependent or of an action
\* on the same node reports that failure again.
NeverReportedAgain ==
  \A i \in DOMAIN records :
    records[i].event = "GraphNodeReadinessFailed" /\ i < Len(records) =>
      LET reported == ReportedBy(records[i]) IN
      \A j \in i + 1 .. Len(records) : reported \cap ReportedBy(records[j]) = {}

\* What an event withholds because another one reported it has been reported
\* (events/index.ts, graph/readiness/sourceFailures.ts): each member of each
\* failure an event carries is what some report is about.
NothingDropped ==
  LET reported == UNION {ReportedBy(records[i]) : i \in DOMAIN records} IN
  \A i \in DOMAIN records : \A leaf \in Leaves(records[i].failure) :
    ResolvesTo(leaf) \in reported

\* A reader's wrapper, an action's, and a dependent's around a failure of `n`.
ReadErrorOf(n) == [Blank EXCEPT !.tag = "FrondRuntimeReadError", !.node = n, !.kind = "readiness"]
Surfaces(n, failure) ==
  {failure, <<ReadErrorOf(n)>> \o failure, ActionFailed(n, failure)}
  \cup {failDependency(m, n, failure) : m \in {m \in Node : n \in Range(DependencyIds[m])}}

\* Consecutive tags of a path are a dependent's and its dependency's.
Wired(path) ==
  \A i \in 1..(Len(path) - 1) :
    \E n \in Node : \E d \in Range(DependencyIds[n]) :
      TagOf[n] = path[i] /\ TagOf[d] = path[i + 1]

\* Every requester of one failure projects alike (diagnostics/projection.ts,
\* diagnostics/report.ts, reportErrorFor): the attempt's event, a reader, an
\* action and a dependent resolve to one tracker error, message and
\* fingerprint, and each view's path follows the dependencies from its own
\* requester to the failing node.  A failing block that names no kind takes the
\* requester's, and is excepted.
RequestersAgree ==
  \A n \in Node : error[n] \in source =>
    LET own == createErrorReport(error[n]) IN
    \A surface \in Surfaces(n, error[n]) :
      LET p == projectError(surface) IN
      /\ p.ownKind # "unexpected" => createErrorReport(surface) = own
      /\ p.path # <<>> => /\ p.path[1] = TagOf[p.requester]
                          /\ p.path[Len(p.path)] = TagOf[p.failingNode]
                          /\ Wired(p.path)
=============================================================================
