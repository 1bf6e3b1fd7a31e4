------------------------------ MODULE SignalBus ------------------------------
(***************************************************************************)
(* The signal bus of a runtime (core/src/runtime/signalBus.ts), on top of  *)
(* its event bus.  A publication numbers and retains its signal, emits an  *)
(* event and, when every observer and sink of that has answered, runs the  *)
(* subscribers of the channel one after the other.  A subscriber that      *)
(* fails costs an event, which the publication waits for too.  Any number  *)
(* of publications may be under way; subscribers come and go meanwhile.    *)
(*                                                                         *)
(* A signal is its sequence number.  Publishers are not interrupted.       *)
(***************************************************************************)
EXTENDS EventBus, SequencesExt

CONSTANTS
  Channel,
  ChannelPolicies,  \* the policies registered channels bring
  SignalPolicies,   \* the policies the configuration gives to channels
  defaultSignalBufferSize,
  Subscriber,
  Configured,  \* those the runtime begins with, in order
  ChannelsOf   \* the channels a subscriber is for

Policy == {[retention |-> "none"], [retention |-> "bounded"]}
  \cup [retention : {"bounded"}, bufferSize : Nat]

ASSUME SignalAssumption ==
  \* assertNoSignalPolicyCollisions
  /\ DOMAIN ChannelPolicies \cap DOMAIN SignalPolicies = {}
  /\ \A c \in DOMAIN ChannelPolicies : ChannelPolicies[c] \in Policy
  /\ \A c \in DOMAIN SignalPolicies : SignalPolicies[c] \in Policy
  /\ defaultSignalBufferSize \in Nat
  /\ Configured \in Seq(Subscriber) /\ IsInjective(Configured)   \* a Set of them
  /\ ChannelsOf \in [Subscriber -> SUBSET Channel]

VARIABLES
  signalled,      \* history: the channel of every signal
  retained,     \* recordsByChannel
  subscribers,  \* in the order in which they came
  cameAt,        \* history: how many signals there were when they came
  publishing,   \* publications under way: their stage, the subscribers left
  handled       \* history: the subscribers that were run, per signal

signalVars == <<signalled, retained, subscribers, cameAt, publishing, handled>>
bothVars == <<busVars, signalVars>>

SignalBusInit ==
  /\ BusInit
  /\ signalled = << >>
  /\ retained = [c \in Channel |-> << >>]
  /\ subscribers = Configured
  /\ cameAt = [b \in ToSet(Configured) |-> 0]
  /\ publishing = << >>
  /\ handled = << >>

-----------------------------------------------------------------------------
Newest(records, n) ==
  IF Len(records) > n THEN SubSeq(records, Len(records) - n + 1, Len(records)) ELSE records

normalizeRuntimeSignalPolicy(policy) ==
  IF policy.retention = "none" \/ "bufferSize" \in DOMAIN policy THEN policy
  ELSE [retention |-> policy.retention, bufferSize |-> defaultSignalBufferSize]

normalizeRuntimeSignalPolicies ==
  LET policies == Beside(ChannelPolicies, SignalPolicies)
  IN [c \in DOMAIN policies |-> normalizeRuntimeSignalPolicy(policies[c])]

\* The policy of a channel, the default one for a channel nobody named.
signalPolicy(c) ==
  IF c \in DOMAIN normalizeRuntimeSignalPolicies THEN normalizeRuntimeSignalPolicies[c]
  ELSE [retention |-> "bounded", bufferSize |-> defaultSignalBufferSize]

Store(c, record) ==
  IF signalPolicy(c).retention = "none" THEN retained
  ELSE [retained EXCEPT ![c] = Newest(Append(@, record), signalPolicy(c).bufferSize)]

\* The work a publication waits for has it as its parent.
Publication(s) == <<s, "publish">>
At(s, stage) == s \in DOMAIN publishing /\ publishing[s].stage = stage /\ ~Waits(Publication(s))

PublishSignal(c) ==
  LET s == Len(signalled) + 1
  IN /\ signalled' = Append(signalled, c)
     /\ retained' = Store(c, s)
     /\ publishing' = Beside(publishing, [t \in {s} |-> [stage |-> "emitting", left |-> << >>]])
     /\ handled' = Append(handled, << >>)
     /\ Emit(Publication(s))
     /\ UNCHANGED <<subscribers, cameAt>>

\* The members of a list that are in a set, in their order.
Filter(list, set) ==
  LET taken[i \in 0 .. Len(list)] ==
        IF i = 0 THEN << >>
        ELSE IF list[i] \in set THEN Append(taken[i - 1], list[i])
        ELSE taken[i - 1]
  IN taken[Len(list)]

AcceptsSignal(b, c) == c \in ChannelsOf[b]

\* The subscribers are those of this moment, not of the publication's.
Deliver(s) ==
  /\ At(s, "emitting")
  /\ publishing' = [publishing EXCEPT ![s] =
       [stage |-> "delivering",
        left |-> Filter(subscribers, {b \in Subscriber : AcceptsSignal(b, signalled[s])})]]
  /\ UNCHANGED <<busVars, signalled, retained, subscribers, cameAt, handled>>

\* The next subscriber has run.
NextSubscriber(s) ==
  /\ At(s, "delivering") /\ publishing[s].left # << >>
  /\ publishing' = [publishing EXCEPT ![s].left = Tail(@)]
  /\ handled' = [handled EXCEPT ![s] = Append(@, Head(publishing[s].left))]
  /\ UNCHANGED <<signalled, retained, subscribers, cameAt>>

Handled(s) == NextSubscriber(s) /\ UNCHANGED busVars

\* A mutant: a subscriber that fails ends the delivery.
SubscriberFailsForAll(s) ==
  /\ At(s, "delivering") /\ publishing[s].left # << >>
  /\ publishing' = [publishing EXCEPT ![s].left = << >>]
  /\ Emit(Publication(s))
  /\ UNCHANGED <<signalled, retained, subscribers, cameAt, handled>>

SubscriberFails(s) == NextSubscriber(s) /\ Emit(Publication(s))

Published(s) ==
  /\ At(s, "delivering") /\ publishing[s].left = << >>
  /\ publishing' = Restrict(publishing, DOMAIN publishing \ {s})
  /\ UNCHANGED <<busVars, signalled, retained, subscribers, cameAt, handled>>

\* A subscriber comes once: a bound.
Subscribe(b) ==
  /\ b \notin DOMAIN cameAt
  /\ subscribers' = Append(subscribers, b)
  /\ cameAt' = Beside(cameAt, [other \in {b} |-> Len(signalled)])
  /\ UNCHANGED <<busVars, signalled, retained, publishing, handled>>

Unsubscribe(b) ==
  /\ b \in ToSet(subscribers)
  /\ subscribers' = Filter(subscribers, Subscriber \ {b})
  /\ UNCHANGED <<busVars, signalled, retained, cameAt, publishing, handled>>

\* What a query of all channels answers: the buffers merged by sequence.
QueryRecords(limit) ==
  LET all == UNION {ToSet(retained[c]) : c \in Channel}
  IN Newest(SetToSortSeq(all, <), limit)

-----------------------------------------------------------------------------
\* A publication that has returned was handled, exactly once, by every
\* subscriber of its channel that was there all the while, whatever failed or
\* came and went meanwhile (signalBus.ts:54-98).  And a query answers the newest
\* signals of the channels that retain any, in the order of publication, none
\* older than one of its channel that is missing (signalBus.ts:30-52,191-220).
PublishedMeansHandled ==
  /\ \A s \in DOMAIN signalled \ DOMAIN publishing :
       /\ IsInjective(handled[s])
       /\ \A b \in ToSet(subscribers) :
            AcceptsSignal(b, signalled[s]) /\ cameAt[b] < s => b \in ToSet(handled[s])
  /\ LET Later(s) == {t \in DOMAIN signalled : t > s /\ signalled[t] = signalled[s]}
         Kept(s) == /\ signalPolicy(signalled[s]).retention # "none"
                    /\ Cardinality(Later(s)) < signalPolicy(signalled[s]).bufferSize
     IN \A limit \in 0 .. Len(signalled) :
          QueryRecords(limit) = Newest(SetToSortSeq({s \in DOMAIN signalled : Kept(s)}, <), limit)
=============================================================================
