--------------------------- MODULE DisposersProofs ---------------------------
(***************************************************************************)
(* Every disposer runs at most once per incarnation, and none that was     *)
(* registered is dropped unnoticed, for any disposers and any number of    *)
(* incarnations, registrations and interruptions.                          *)
(***************************************************************************)
EXTENDS Disposers, TLAPS

BagRecord == [pending : Seq(Disposer), handedOff : BOOLEAN,
              reason : {"none", "acquire", "interrupt", "settled"}]
DrainRecord == [rest : Seq(Disposer), awaits : SUBSET Disposer]

\* Types, as far as ownership needs them.
Shapes ==
  /\ stage \in Stage /\ gen \in 0..MaxGen
  /\ bag \in [Bag -> BagRecord]
  /\ list \in [Gen -> Seq(Disposer)] /\ settled \in [Gen -> BOOLEAN]
  /\ hook \in [Gen -> [list : Seq(Disposer), is : {"none", "open", "closed"}]]
  /\ invoked \in [Gen -> SUBSET Disposer]
  /\ drain \in DrainRecord
  /\ calls \in [Gen -> [Disposer -> Nat]]
  /\ added \subseteq (Gen \X {"acquire", "operation", "hook"}) \X Disposer

\* The once-only set of an incarnation is exactly what has been called.
Once ==
  \A g \in Gen, d \in Disposer : calls[g][d] = IF d \in invoked[g] THEN 1 ELSE 0

\* A batch is being run only by a drain; a registry settles when its
\* incarnation is over; a release hook's list is open while the hook runs and
\* its list drains.
Places ==
  /\ stage # "idle" => gen \in Gen
  /\ stage \notin {"cleaning", "interrupting", "hookDrain", "teardown"} => drain.rest = <<>>
  /\ \A g \in Gen : settled[g] => g < gen \/ (g = gen /\ stage = "idle")
  /\ \A g \in Gen : hook[g].is = "open" => g = gen /\ stage \in {"releasing", "hookDrain"}

\* The registration of d for g is accounted for.
Kept(g, d) == d \in invoked[g] \/ Awaits(g, d) \/ <<g, d>> \in forgotten

IInv == Shapes /\ Once /\ Places /\ NothingLost

-----------------------------------------------------------------------------
(* The members of a list *)

LEMMA MembersOf ==
  ASSUME NEW s \in Seq(Disposer)
  PROVE  /\ Members(s) \subseteq Disposer
         /\ \A d \in Disposer : /\ Append(s, d) \in Seq(Disposer)
                                /\ Members(Append(s, d)) = Members(s) \cup {d}
         /\ s = <<>> => Members(s) = {}
  <1>1. ASSUME NEW d \in Disposer
        PROVE  Append(s, d) \in Seq(Disposer) /\ Members(Append(s, d)) = Members(s) \cup {d}
    <2>1. /\ Append(s, d) \in Seq(Disposer) /\ Len(Append(s, d)) = Len(s) + 1
          /\ \A i \in 1 .. Len(s) : Append(s, d)[i] = s[i]
          /\ Append(s, d)[Len(s) + 1] = d
      OBVIOUS
    <2>2. DOMAIN Append(s, d) = DOMAIN s \cup {Len(s) + 1}
      BY <2>1
    <2> QED
      BY <2>1, <2>2 DEF Members
  <1>2. Members(s) \subseteq Disposer /\ (s = <<>> => Members(s) = {})
    BY DEF Members
  <1> QED
    BY <1>1, <1>2

LEMMA MembersConcat ==
  ASSUME NEW s \in Seq(Disposer), NEW t \in Seq(Disposer)
  PROVE  /\ s \o t \in Seq(Disposer)
         /\ Members(s \o t) = Members(s) \cup Members(t)
  <1>1. /\ s \o t \in Seq(Disposer) /\ Len(s \o t) = Len(s) + Len(t)
        /\ \A i \in 1 .. Len(s) + Len(t) :
             (s \o t)[i] = IF i <= Len(s) THEN s[i] ELSE t[i - Len(s)]
    OBVIOUS
  <1>2. Members(s \o t) \subseteq Members(s) \cup Members(t)
    BY <1>1 DEF Members
  <1>3. Members(s) \subseteq Members(s \o t)
    BY <1>1 DEF Members
  <1>4. ASSUME NEW i \in DOMAIN t PROVE t[i] \in Members(s \o t)
    <2>1. i + Len(s) \in 1 .. Len(s) + Len(t) /\ (s \o t)[i + Len(s)] = t[i]
      BY <1>1
    <2> QED
      BY <1>1, <2>1 DEF Members
  <1> QED
    BY <1>1, <1>2, <1>3, <1>4 DEF Members

LEMMA MembersDrain ==
  ASSUME NEW s \in Seq(Disposer)
  PROVE  /\ Drain(s) \in DrainRecord
         /\ Members(Drain(s).rest) = Members(s)
  <1>1. /\ Reverse(s) \in Seq(Disposer) /\ Len(Reverse(s)) = Len(s)
        /\ \A i \in 1 .. Len(s) : Reverse(s)[i] = s[Len(s) - i + 1]
    BY DEF Reverse
  <1>2. ASSUME NEW i \in DOMAIN Reverse(s) PROVE Reverse(s)[i] \in Members(s)
    <2>1. i \in 1 .. Len(s) /\ Len(s) - i + 1 \in DOMAIN s
      BY <1>1
    <2> QED
      BY <1>1, <2>1 DEF Members
  <1>3. ASSUME NEW i \in DOMAIN s PROVE s[i] \in Members(Reverse(s))
    <2>1. Len(s) - i + 1 \in 1 .. Len(s) /\ Reverse(s)[Len(s) - i + 1] = s[i]
      BY <1>1
    <2> QED
      BY <1>1, <2>1 DEF Members
  <1>4. Members(Reverse(s)) = Members(s)
    BY <1>2, <1>3 DEF Members
  <1> QED
    BY <1>1, <1>4 DEF Drain, DrainRecord

LEMMA MembersHead ==
  ASSUME NEW s \in Seq(Disposer), s # <<>>
  PROVE  /\ Head(s) \in Disposer /\ Tail(s) \in Seq(Disposer)
         /\ Members(s) = {Head(s)} \cup Members(Tail(s))
  <1>1. /\ Head(s) \in Disposer /\ Tail(s) \in Seq(Disposer) /\ Len(Tail(s)) = Len(s) - 1
        /\ Head(s) = s[1] /\ \A i \in 1 .. Len(s) - 1 : Tail(s)[i] = s[i + 1]
    OBVIOUS
  <1>2. Members(Tail(s)) \subseteq Members(s)
    BY <1>1 DEF Members
  <1>3. ASSUME NEW i \in DOMAIN s, i # 1 PROVE s[i] \in Members(Tail(s))
    <2>1. i - 1 \in 1 .. Len(s) - 1 /\ Tail(s)[i - 1] = s[i]
      BY <1>1, <1>3
    <2> QED
      BY <1>1, <2>1 DEF Members
  <1> QED
    BY <1>1, <1>2, <1>3 DEF Members

\* Nothing is lost by a step that registers nothing and keeps what was kept.
LEMMA KeepsAll ==
  ASSUME Shapes, NothingLost, UNCHANGED added,
         \A g \in Gen, d \in Disposer : Kept(g, d) => Kept(g, d)'
  PROVE  NothingLost'
  <1> SUFFICES ASSUME NEW a \in added
               PROVE  Kept(a[1][1], a[2])'
    BY DEF NothingLost, Kept
  <1>1. a[1][1] \in Gen /\ a[2] \in Disposer
    BY DEF Shapes
  <1>2. Kept(a[1][1], a[2])
    BY DEF NothingLost, Kept
  <1> QED
    BY <1>1, <1>2

LEMMA EmptiedBag ==
  ASSUME NEW r \in BagRecord, NEW why \in {"acquire", "interrupt", "settled"}
  PROVE  /\ [r EXCEPT !.pending = <<>>, !.reason = why] \in BagRecord
         /\ [r EXCEPT !.pending = <<>>, !.reason = why].pending = <<>>
  <1>1. ASSUME NEW empty \in Seq(Disposer)
        PROVE  /\ [r EXCEPT !.pending = empty, !.reason = why] \in BagRecord
               /\ [r EXCEPT !.pending = empty, !.reason = why].pending = empty
    BY DEF BagRecord
  <1>2. <<>> \in Seq(Disposer)
    OBVIOUS
  <1> QED
    BY <1>1, <1>2

LEMMA DrainsBag ==
  ASSUME Shapes, NEW b \in Bag, NEW why \in {"acquire", "interrupt"}, StartDrain(b, why)
  PROVE  /\ bag' \in [Bag -> BagRecord] /\ drain' \in DrainRecord
         /\ \A other \in Bag : other # b => bag'[other] = bag[other]
         /\ \A d \in Members(bag[b].pending) :
              bag[b].reason = "none" =>
                \/ d \in Members(drain'.rest)
                \/ d \in Members(bag'[b].pending) /\ bag'[b].reason = "none"
         /\ bag[b].handedOff => drain'.rest = <<>>
  <1>1. CASE bag[b].handedOff
    <2>1. drain' = NoDrain /\ bag' = bag
      BY <1>1 DEF StartDrain
    <2>2. NoDrain \in DrainRecord /\ NoDrain.rest = <<>>
      BY DEF NoDrain, DrainRecord
    <2> QED
      BY <1>1, <2>1, <2>2 DEF Shapes
  <1>2. CASE ~bag[b].handedOff
    <2>1. bag[b].pending \in Seq(Disposer)
      BY DEF Shapes, BagRecord
    <2>2. drain' \in DrainRecord /\ Members(drain'.rest) = Members(bag[b].pending)
      BY <1>2, <2>1, MembersDrain DEF StartDrain
    <2>3. bag' = [bag EXCEPT ![b].pending = <<>>, ![b].reason = why]
      BY <1>2 DEF StartDrain
    <2>4. \A other \in Bag : other # b => bag'[other] = bag[other]
      BY <2>3 DEF Shapes
    <2>5. [bag[b] EXCEPT !.pending = <<>>, !.reason = why] \in BagRecord
      BY EmptiedBag DEF Shapes
    <2>6. bag' = [bag EXCEPT ![b] = [bag[b] EXCEPT !.pending = <<>>, !.reason = why]]
      BY <2>3 DEF Shapes
    <2>7. bag' \in [Bag -> BagRecord]
      BY <2>5, <2>6 DEF Shapes
    <2> QED
      BY <1>2, <2>2, <2>4, <2>7
  <1> QED
    BY <1>1, <1>2

\* A bag's list moves to the registry of its incarnation.
LEMMA MovesBag ==
  ASSUME Shapes, NEW g \in Gen, NEW kind \in {"acquire", "operation"}, NEW record \in BagRecord,
         record.pending = <<>>,
         bag' = [bag EXCEPT ![<<g, kind>>] = record],
         list' = [list EXCEPT ![g] = @ \o bag[<<g, kind>>].pending]
  PROVE  /\ bag' \in [Bag -> BagRecord] /\ list' \in [Gen -> Seq(Disposer)]
         /\ \A other \in Bag : other # <<g, kind>> => bag'[other] = bag[other]
         /\ \A h \in Gen : h # g => list'[h] = list[h]
         /\ Members(list'[g]) = Members(list[g]) \cup Members(bag[<<g, kind>>].pending)
  <1>1. <<g, kind>> \in Bag
    BY DEF Bag
  <1>2. bag[<<g, kind>>].pending \in Seq(Disposer) /\ list[g] \in Seq(Disposer)
    BY <1>1 DEF Shapes, BagRecord
  <1>3. bag' \in [Bag -> BagRecord] /\ \A other \in Bag : other # <<g, kind>> => bag'[other] = bag[other]
    BY <1>1 DEF Shapes
  <1>4. list'[g] = list[g] \o bag[<<g, kind>>].pending
    BY DEF Shapes
  <1>5. list' \in [Gen -> Seq(Disposer)] /\ \A h \in Gen : h # g => list'[h] = list[h]
    BY <1>2, MembersConcat DEF Shapes
  <1> QED
    BY <1>2, <1>3, <1>4, <1>5, MembersConcat

\* The bags of an incarnation.
LEMMA BagKinds ==
  ASSUME NEW g \in Gen, NEW kind \in {"acquire", "operation"}
  PROVE  <<g, kind>> \in Bag
  BY DEF Bag


-----------------------------------------------------------------------------
(* Steps *)

LEMMA AcquireEndsKeeps ==
  ASSUME IInv, AcquireEnds
  PROVE  IInv'
  <1>1. Shapes'
    BY BoundsAssumption DEF IInv, Places, Shapes, AcquireEnds, registry, history, BagRecord, DrainRecord, Gen, Stage
  <1>2. Once' /\ Places'
    BY BoundsAssumption DEF IInv, Shapes, Once, Places, AcquireEnds, registry, history, BagRecord, DrainRecord, Gen, Stage
  <1>3. \A g \in Gen, d \in Disposer : Kept(g, d) => Kept(g, d)'
    BY BoundsAssumption DEF IInv, Shapes, Places, Kept, Awaits, AcquireEnds, registry, history, BagRecord, DrainRecord, Gen, Stage
  <1>4. UNCHANGED added
    BY DEF AcquireEnds, registry, history, BagRecord, DrainRecord, Gen, Stage
  <1> QED
    BY <1>1, <1>2, <1>3, <1>4, KeepsAll DEF IInv

LEMMA HandOffKeeps ==
  ASSUME IInv, HandOff
  PROVE  IInv'
  <1> DEFINE record == [pending |-> <<>>, reason |-> "none", handedOff |-> TRUE]
  <1>e. gen \in Gen /\ ~settled[gen]
    BY BoundsAssumption DEF IInv, Places, Shapes, HandOff, Gen
  <1>f. bag[<<gen, "acquire">>] \in BagRecord
    BY <1>e, BagKinds DEF IInv, Shapes
  <1>a. gen \in Gen /\ ~settled[gen] /\ record \in BagRecord /\ record.pending = <<>>
    BY <1>e, <1>f DEF BagRecord
  <1>b. /\ bag' = [bag EXCEPT ![<<gen, "acquire">>] = record]
        /\ list' = [list EXCEPT ![gen] = @ \o bag[<<gen, "acquire">>].pending]
    BY <1>a, BagKinds DEF IInv, Shapes, HandOff, Current, BagRecord
  <1> HIDE DEF record
  <1>c. /\ bag' \in [Bag -> BagRecord] /\ list' \in [Gen -> Seq(Disposer)]
        /\ \A other \in Bag : other # <<gen, "acquire">> => bag'[other] = bag[other]
        /\ \A h \in Gen : h # gen => list'[h] = list[h]
        /\ Members(list'[gen]) = Members(list[gen]) \cup Members(bag[<<gen, "acquire">>].pending)
    BY <1>a, <1>b, MovesBag DEF IInv
  <1>d. UNCHANGED <<gen, settled, hook, invoked, drain, calls, added, forgotten>> /\ stage' \in Stage
    BY DEF HandOff, history, Stage
  <1>1. Shapes'
    BY <1>c, <1>d DEF IInv, Shapes
  <1>2. Once' /\ Places'
    BY <1>a, <1>d DEF IInv, Once, Places, HandOff
  <1>3. ASSUME NEW g \in Gen, NEW d \in Disposer, Kept(g, d)
        PROVE  Kept(g, d)'
    BY <1>a, <1>c, <1>d, <1>3, BagKinds DEF Kept, Awaits
  <1> QED
    BY <1>1, <1>2, <1>3, <1>d, KeepsAll DEF IInv

LEMMA OperationEndsKeeps ==
  ASSUME IInv, OperationEnds
  PROVE  IInv'
  <1> DEFINE record == [bag[<<gen, "operation">>] EXCEPT !.pending = <<>>, !.reason = "settled"]
  <1>e. gen \in Gen /\ ~settled[gen]
    BY BoundsAssumption DEF IInv, Places, Shapes, OperationEnds, Gen
  <1>f. bag[<<gen, "operation">>] \in BagRecord
    BY <1>e, BagKinds DEF IInv, Shapes
  <1>a. gen \in Gen /\ ~settled[gen] /\ record \in BagRecord /\ record.pending = <<>>
    BY <1>e, <1>f, EmptiedBag
  <1>b. /\ bag' = [bag EXCEPT ![<<gen, "operation">>] = record]
        /\ list' = [list EXCEPT ![gen] = @ \o bag[<<gen, "operation">>].pending]
    BY <1>a, BagKinds DEF IInv, Shapes, OperationEnds, Current, BagRecord
  <1> HIDE DEF record
  <1>c. /\ bag' \in [Bag -> BagRecord] /\ list' \in [Gen -> Seq(Disposer)]
        /\ \A other \in Bag : other # <<gen, "operation">> => bag'[other] = bag[other]
        /\ \A h \in Gen : h # gen => list'[h] = list[h]
        /\ Members(list'[gen]) = Members(list[gen]) \cup Members(bag[<<gen, "operation">>].pending)
    BY <1>a, <1>b, MovesBag DEF IInv
  <1>d. UNCHANGED <<gen, settled, hook, invoked, drain, calls, added, forgotten>> /\ stage' \in Stage
    BY DEF OperationEnds, history, Stage
  <1>1. Shapes'
    BY <1>c, <1>d DEF IInv, Shapes
  <1>2. Once' /\ Places'
    BY <1>a, <1>d DEF IInv, Once, Places, OperationEnds
  <1>3. ASSUME NEW g \in Gen, NEW d \in Disposer, Kept(g, d)
        PROVE  Kept(g, d)'
    BY <1>a, <1>c, <1>d, <1>3, BagKinds DEF Kept, Awaits
  <1> QED
    BY <1>1, <1>2, <1>3, <1>d, KeepsAll DEF IInv

LEMMA AcquireFailsKeeps ==
  ASSUME IInv, AcquireFails
  PROVE  IInv'
  <1>a. gen \in Gen /\ <<gen, "acquire">> \in Bag
    BY BagKinds DEF IInv, Places, AcquireFails
  <1>b. StartDrain(<<gen, "acquire">>, "acquire")
    BY DEF AcquireFails, Current
  <1>c. /\ bag' \in [Bag -> BagRecord] /\ drain' \in DrainRecord
        /\ \A other \in Bag : other # <<gen, "acquire">> => bag'[other] = bag[other]
        /\ \A d \in Members(bag[<<gen, "acquire">>].pending) :
             bag[<<gen, "acquire">>].reason = "none" =>
               \/ d \in Members(drain'.rest)
               \/ d \in Members(bag'[<<gen, "acquire">>].pending)
                  /\ bag'[<<gen, "acquire">>].reason = "none"
    BY <1>a, <1>b, DrainsBag DEF IInv
  <1>d. /\ UNCHANGED <<gen, list, settled, hook, invoked, calls, added>> /\ stage' \in Stage
        /\ stage # "idle" /\ stage' \in {"cleaning", "interrupting"}
    BY DEF AcquireFails, registry, history, Stage
  <1>e. \A d \in Members(drain.rest) : <<gen, d>> \in forgotten'
    BY MembersOf DEF IInv, Places, Shapes, DrainRecord, AcquireFails, Losing
  <1>f. \A p : p \in forgotten => p \in forgotten'
    BY DEF AcquireFails, history, Losing
  <1>1. Shapes'
    BY <1>c, <1>d DEF IInv, Shapes
  <1>2. Once' /\ Places'
    BY <1>a, <1>d DEF IInv, Once, Places, AcquireFails
  <1>3. ASSUME NEW g \in Gen, NEW d \in Disposer, Kept(g, d)
        PROVE  Kept(g, d)'
    BY <1>a, <1>c, <1>d, <1>e, <1>f, <1>3, BagKinds DEF Kept, Awaits
  <1> QED
    BY <1>1, <1>2, <1>3, <1>d, KeepsAll DEF IInv

LEMMA InterruptAcquireKeeps ==
  ASSUME IInv, InterruptAcquire
  PROVE  IInv'
  <1>a. gen \in Gen /\ <<gen, "acquire">> \in Bag
    BY BagKinds DEF IInv, Places, InterruptAcquire
  <1>b. StartDrain(<<gen, "acquire">>, "interrupt")
    BY DEF InterruptAcquire, Current
  <1>c. /\ bag' \in [Bag -> BagRecord] /\ drain' \in DrainRecord
        /\ \A other \in Bag : other # <<gen, "acquire">> => bag'[other] = bag[other]
        /\ \A d \in Members(bag[<<gen, "acquire">>].pending) :
             bag[<<gen, "acquire">>].reason = "none" =>
               \/ d \in Members(drain'.rest)
               \/ d \in Members(bag'[<<gen, "acquire">>].pending)
                  /\ bag'[<<gen, "acquire">>].reason = "none"
    BY <1>a, <1>b, DrainsBag DEF IInv
  <1>d. /\ UNCHANGED <<gen, list, settled, hook, invoked, calls, added>> /\ stage' \in Stage
        /\ stage # "idle" /\ stage' \in {"cleaning", "interrupting"}
    BY DEF InterruptAcquire, registry, history, Stage
  <1>e. \A d \in Members(drain.rest) : <<gen, d>> \in forgotten'
    BY MembersOf DEF IInv, Places, Shapes, DrainRecord, InterruptAcquire, Losing
  <1>f. \A p : p \in forgotten => p \in forgotten'
    BY DEF InterruptAcquire, history, Losing
  <1>1. Shapes'
    BY <1>c, <1>d DEF IInv, Shapes
  <1>2. Once' /\ Places'
    BY <1>a, <1>d DEF IInv, Once, Places, InterruptAcquire
  <1>3. ASSUME NEW g \in Gen, NEW d \in Disposer, Kept(g, d)
        PROVE  Kept(g, d)'
    BY <1>a, <1>c, <1>d, <1>e, <1>f, <1>3, BagKinds DEF Kept, Awaits
  <1> QED
    BY <1>1, <1>2, <1>3, <1>d, KeepsAll DEF IInv

LEMMA InterruptOperationKeeps ==
  ASSUME IInv, InterruptOperation
  PROVE  IInv'
  <1>a. gen \in Gen /\ <<gen, "operation">> \in Bag
    BY BagKinds DEF IInv, Places, InterruptOperation
  <1>b. StartDrain(<<gen, "operation">>, "interrupt")
    BY DEF InterruptOperation, Current
  <1>c. /\ bag' \in [Bag -> BagRecord] /\ drain' \in DrainRecord
        /\ \A other \in Bag : other # <<gen, "operation">> => bag'[other] = bag[other]
        /\ \A d \in Members(bag[<<gen, "operation">>].pending) :
             bag[<<gen, "operation">>].reason = "none" =>
               \/ d \in Members(drain'.rest)
               \/ d \in Members(bag'[<<gen, "operation">>].pending)
                  /\ bag'[<<gen, "operation">>].reason = "none"
    BY <1>a, <1>b, DrainsBag DEF IInv
  <1>d. /\ UNCHANGED <<gen, list, settled, hook, invoked, calls, added>> /\ stage' \in Stage
        /\ stage # "idle" /\ stage' \in {"cleaning", "interrupting"}
    BY DEF InterruptOperation, registry, history, Stage
  <1>e. \A d \in Members(drain.rest) : <<gen, d>> \in forgotten'
    BY MembersOf DEF IInv, Places, Shapes, DrainRecord, InterruptOperation, Losing
  <1>f. \A p : p \in forgotten => p \in forgotten'
    BY DEF InterruptOperation, history, Losing
  <1>1. Shapes'
    BY <1>c, <1>d DEF IInv, Shapes
  <1>2. Once' /\ Places'
    BY <1>a, <1>d DEF IInv, Once, Places, InterruptOperation
  <1>3. ASSUME NEW g \in Gen, NEW d \in Disposer, Kept(g, d)
        PROVE  Kept(g, d)'
    BY <1>a, <1>c, <1>d, <1>e, <1>f, <1>3, BagKinds DEF Kept, Awaits
  <1> QED
    BY <1>1, <1>2, <1>3, <1>d, KeepsAll DEF IInv

LEMMA CleaningEndsKeeps ==
  ASSUME IInv, CleaningEnds
  PROVE  IInv'
  <1>1. Shapes'
    BY BoundsAssumption DEF IInv, Places, Shapes, CleaningEnds, BatchDone, registry, history, BagRecord, DrainRecord, Gen, Stage
  <1>2. Once' /\ Places'
    BY BoundsAssumption DEF IInv, Shapes, Once, Places, CleaningEnds, BatchDone, registry, history, BagRecord, DrainRecord, Gen, Stage
  <1>3. \A g \in Gen, d \in Disposer : Kept(g, d) => Kept(g, d)'
    BY BoundsAssumption DEF IInv, Shapes, Places, Kept, Awaits, CleaningEnds, BatchDone, registry, history, BagRecord, DrainRecord, Gen, Stage
  <1>4. UNCHANGED added
    BY DEF CleaningEnds, BatchDone, registry, history, BagRecord, DrainRecord, Gen, Stage
  <1> QED
    BY <1>1, <1>2, <1>3, <1>4, KeepsAll DEF IInv

LEMMA BeginOperationKeeps ==
  ASSUME IInv, BeginOperation
  PROVE  IInv'
  <1>1. Shapes'
    BY BoundsAssumption DEF IInv, Places, Shapes, BeginOperation, registry, history, BagRecord, DrainRecord, Gen, Stage
  <1>2. Once' /\ Places'
    BY BoundsAssumption DEF IInv, Shapes, Once, Places, BeginOperation, registry, history, BagRecord, DrainRecord, Gen, Stage
  <1>3. \A g \in Gen, d \in Disposer : Kept(g, d) => Kept(g, d)'
    BY BoundsAssumption DEF IInv, Shapes, Places, Kept, Awaits, BeginOperation, registry, history, BagRecord, DrainRecord, Gen, Stage
  <1>4. UNCHANGED added
    BY DEF BeginOperation, registry, history, BagRecord, DrainRecord, Gen, Stage
  <1> QED
    BY <1>1, <1>2, <1>3, <1>4, KeepsAll DEF IInv

LEMMA InterruptEndsKeeps ==
  ASSUME IInv, InterruptEnds
  PROVE  IInv'
  <1>1. Shapes'
    BY BoundsAssumption DEF IInv, Places, Shapes, InterruptEnds, BatchDone, registry, history, BagRecord, DrainRecord, Gen, Stage
  <1>2. Once' /\ Places'
    BY BoundsAssumption DEF IInv, Shapes, Once, Places, InterruptEnds, BatchDone, registry, history, BagRecord, DrainRecord, Gen, Stage
  <1>3. \A g \in Gen, d \in Disposer : Kept(g, d) => Kept(g, d)'
    BY BoundsAssumption DEF IInv, Shapes, Places, Kept, Awaits, InterruptEnds, BatchDone, registry, history, BagRecord, DrainRecord, Gen, Stage
  <1>4. UNCHANGED added
    BY DEF InterruptEnds, BatchDone, registry, history, BagRecord, DrainRecord, Gen, Stage
  <1> QED
    BY <1>1, <1>2, <1>3, <1>4, KeepsAll DEF IInv

LEMMA StartTeardownKeeps ==
  ASSUME IInv, StartTeardown
  PROVE  IInv'
  <1>1. Shapes'
    BY BoundsAssumption DEF IInv, Places, Shapes, StartTeardown, registry, history, BagRecord, DrainRecord, Gen, Stage
  <1>2. Once' /\ Places'
    BY BoundsAssumption DEF IInv, Shapes, Once, Places, StartTeardown, registry, history, BagRecord, DrainRecord, Gen, Stage
  <1>3. \A g \in Gen, d \in Disposer : Kept(g, d) => Kept(g, d)'
    BY BoundsAssumption DEF IInv, Shapes, Places, Kept, Awaits, StartTeardown, registry, history, BagRecord, DrainRecord, Gen, Stage
  <1>4. UNCHANGED added
    BY DEF StartTeardown, registry, history, BagRecord, DrainRecord, Gen, Stage
  <1> QED
    BY <1>1, <1>2, <1>3, <1>4, KeepsAll DEF IInv

LEMMA ReleaseEndsKeeps ==
  ASSUME IInv, ReleaseEnds
  PROVE  IInv'
  <1>1. Shapes'
    BY MembersDrain, BoundsAssumption DEF IInv, Places, Shapes, ReleaseEnds, registry, history, BagRecord, DrainRecord, Gen, Stage
  <1>2. Once' /\ Places'
    BY BoundsAssumption DEF IInv, Shapes, Once, Places, ReleaseEnds, registry, history, BagRecord, DrainRecord, Gen, Stage
  <1>3. \A g \in Gen, d \in Disposer : Kept(g, d) => Kept(g, d)'
    BY MembersDrain, MembersOf, BoundsAssumption DEF IInv, Shapes, Places, Kept, Awaits, ReleaseEnds, registry, history, BagRecord, DrainRecord, Gen, Stage
  <1>4. UNCHANGED added
    BY DEF ReleaseEnds, registry, history, BagRecord, DrainRecord, Gen, Stage
  <1> QED
    BY <1>1, <1>2, <1>3, <1>4, KeepsAll DEF IInv

LEMMA HookLoopsKeeps ==
  ASSUME IInv, HookLoops
  PROVE  IInv'
  <1>1. Shapes'
    <2>1. gen \in Gen /\ hook[gen].list \in Seq(Disposer)
      BY DEF IInv, Places, Shapes, HookLoops
    <2>2. drain' \in DrainRecord
      BY <2>1, MembersDrain DEF HookLoops
    <2>3. hook' \in [Gen -> [list : Seq(Disposer), is : {"none", "open", "closed"}]]
      <3>1. ASSUME NEW empty \in Seq(Disposer)
            PROVE  [hook EXCEPT ![gen].list = empty]
                     \in [Gen -> [list : Seq(Disposer), is : {"none", "open", "closed"}]]
        <4>1. hook[gen] \in [list : Seq(Disposer), is : {"none", "open", "closed"}]
          BY <2>1 DEF IInv, Shapes
        <4>2. [hook[gen] EXCEPT !.list = empty]
                \in [list : Seq(Disposer), is : {"none", "open", "closed"}]
          BY <4>1
        <4>3. [hook EXCEPT ![gen].list = empty]
                = [hook EXCEPT ![gen] = [hook[gen] EXCEPT !.list = empty]]
          OBVIOUS
        <4> QED
          BY <4>2, <4>3 DEF IInv, Shapes
      <3>2. <<>> \in Seq(Disposer)
        OBVIOUS
      <3> QED
        BY <3>1, <3>2 DEF HookLoops
    <2>4. UNCHANGED <<stage, gen, bag, list, settled, invoked, calls, added>>
      BY DEF HookLoops, history
    <2> QED
      BY <2>2, <2>3, <2>4 DEF IInv, Shapes
  <1>2. Once' /\ Places'
    BY BoundsAssumption DEF IInv, Shapes, Once, Places, HookLoops, BatchDone, registry, history, BagRecord, DrainRecord, Gen, Stage
  <1>3. ASSUME NEW g \in Gen, NEW d \in Disposer, Kept(g, d)
        PROVE  Kept(g, d)'
    <2>1. gen \in Gen /\ hook[gen].list \in Seq(Disposer)
      BY DEF IInv, Places, Shapes, HookLoops
    <2>2. Members(drain'.rest) = Members(hook[gen].list)
      BY <2>1, MembersDrain DEF HookLoops
    <2>3. \A i \in Gen : i # gen => hook'[i] = hook[i]
      BY <2>1 DEF IInv, Shapes, HookLoops
    <2>4. drain.rest = <<>> /\ UNCHANGED <<gen, bag, list, settled, invoked, forgotten>>
      BY DEF HookLoops, BatchDone, history
    <2>5. Members(drain.rest) = {}
      BY <2>4, MembersOf DEF IInv, Shapes, DrainRecord
    <2>6. CASE g = gen
      BY <1>3, <2>2, <2>4, <2>5, <2>6 DEF Kept, Awaits
    <2>7. CASE g # gen
      BY <1>3, <2>3, <2>4, <2>7 DEF Kept, Awaits
    <2> QED
      BY <2>6, <2>7
  <1>4. UNCHANGED added
    BY DEF HookLoops, BatchDone, registry, history, BagRecord, DrainRecord, Gen, Stage
  <1> QED
    BY <1>1, <1>2, <1>3, <1>4, KeepsAll DEF IInv

LEMMA TeardownLoopsKeeps ==
  ASSUME IInv, TeardownLoops
  PROVE  IInv'
  <1>1. Shapes'
    <2>1. gen \in Gen /\ list[gen] \in Seq(Disposer)
      BY DEF IInv, Places, Shapes, TeardownLoops
    <2>2. drain' \in DrainRecord
      BY <2>1, MembersDrain DEF TeardownLoops
    <2>3. list' \in [Gen -> Seq(Disposer)]
      BY <2>1 DEF IInv, Shapes, TeardownLoops
    <2>4. UNCHANGED <<stage, gen, bag, hook, settled, invoked, calls, added>>
      BY DEF TeardownLoops, history
    <2> QED
      BY <2>2, <2>3, <2>4 DEF IInv, Shapes
  <1>2. Once' /\ Places'
    BY BoundsAssumption DEF IInv, Shapes, Once, Places, TeardownLoops, BatchDone, registry, history, BagRecord, DrainRecord, Gen, Stage
  <1>3. ASSUME NEW g \in Gen, NEW d \in Disposer, Kept(g, d)
        PROVE  Kept(g, d)'
    <2>1. gen \in Gen /\ list[gen] \in Seq(Disposer)
      BY DEF IInv, Places, Shapes, TeardownLoops
    <2>2. Members(drain'.rest) = Members(list[gen])
      BY <2>1, MembersDrain DEF TeardownLoops
    <2>3. \A i \in Gen : i # gen => list'[i] = list[i]
      BY <2>1 DEF IInv, Shapes, TeardownLoops
    <2>4. drain.rest = <<>> /\ UNCHANGED <<gen, bag, hook, settled, invoked, forgotten>>
      BY DEF TeardownLoops, BatchDone, history
    <2>5. Members(drain.rest) = {}
      BY <2>4, MembersOf DEF IInv, Shapes, DrainRecord
    <2>6. CASE g = gen
      BY <1>3, <2>2, <2>4, <2>5, <2>6 DEF Kept, Awaits
    <2>7. CASE g # gen
      BY <1>3, <2>3, <2>4, <2>7 DEF Kept, Awaits
    <2> QED
      BY <2>6, <2>7
  <1>4. UNCHANGED added
    BY DEF TeardownLoops, BatchDone, registry, history, BagRecord, DrainRecord, Gen, Stage
  <1> QED
    BY <1>1, <1>2, <1>3, <1>4, KeepsAll DEF IInv

LEMMA TeardownEndsKeeps ==
  ASSUME IInv, TeardownEnds
  PROVE  IInv'
  <1>1. Shapes'
    BY BoundsAssumption DEF IInv, Places, Shapes, TeardownEnds, BatchDone, registry, history, BagRecord, DrainRecord, Gen, Stage
  <1>2. Once' /\ Places'
    BY BoundsAssumption DEF IInv, Shapes, Once, Places, TeardownEnds, BatchDone, registry, history, BagRecord, DrainRecord, Gen, Stage
  <1>3. \A g \in Gen, d \in Disposer : Kept(g, d) => Kept(g, d)'
    BY MembersOf, BoundsAssumption DEF IInv, Shapes, Places, Kept, Awaits, TeardownEnds, BatchDone, registry, history, BagRecord, DrainRecord, Gen, Stage
  <1>4. UNCHANGED added
    BY DEF TeardownEnds, BatchDone, registry, history, BagRecord, DrainRecord, Gen, Stage
  <1> QED
    BY <1>1, <1>2, <1>3, <1>4, KeepsAll DEF IInv

LEMMA TimeOutKeeps ==
  ASSUME IInv, TimeOut
  PROVE  IInv'
  <1>1. Shapes'
    BY BoundsAssumption DEF IInv, Places, Shapes, TimeOut, registry, history, BagRecord, DrainRecord, Gen
  <1>2. Once' /\ Places'
    BY BoundsAssumption DEF IInv, Shapes, Once, Places, TimeOut, registry, history, BagRecord, DrainRecord, Gen
  <1>3. \A g \in Gen, d \in Disposer : Kept(g, d) => Kept(g, d)'
    BY BoundsAssumption DEF IInv, Shapes, Places, Kept, Awaits, TimeOut, registry, history, BagRecord, DrainRecord, Gen
  <1>4. UNCHANGED added
    BY DEF TimeOut, registry, history, BagRecord, DrainRecord, Gen
  <1> QED
    BY <1>1, <1>2, <1>3, <1>4, KeepsAll DEF IInv

LEMMA SettleKeeps ==
  ASSUME IInv, NEW h \in Gen, NEW e \in Disposer, Settle(h, e)
  PROVE  IInv'
  <1>1. Shapes'
    BY BoundsAssumption DEF IInv, Places, Shapes, Settle, registry, history, BagRecord, DrainRecord, Gen
  <1>2. Once' /\ Places'
    BY BoundsAssumption DEF IInv, Shapes, Once, Places, Settle, registry, history, BagRecord, DrainRecord, Gen
  <1>3. \A g \in Gen, d \in Disposer : Kept(g, d) => Kept(g, d)'
    BY BoundsAssumption DEF IInv, Shapes, Places, Kept, Awaits, Settle, registry, history, BagRecord, DrainRecord, Gen
  <1>4. UNCHANGED added
    BY DEF Settle, registry, history, BagRecord, DrainRecord, Gen
  <1> QED
    BY <1>1, <1>2, <1>3, <1>4, KeepsAll DEF IInv

LEMMA BeginAcquireKeeps ==
  ASSUME IInv, BeginAcquire
  PROVE  IInv'
  <1>1. /\ gen \in 0 .. MaxGen /\ gen' = gen + 1 /\ gen' \in Gen /\ gen' \in 0 .. MaxGen
        /\ stage = "idle" /\ stage' = "acquiring" /\ drain.rest = <<>>
        /\ UNCHANGED <<bag, list, settled, hook, invoked, drain, calls, added, forgotten>>
    BY BoundsAssumption DEF IInv, Shapes, Places, BeginAcquire, history, Gen
  <1>2. Shapes' /\ Once'
    BY <1>1 DEF IInv, Shapes, Once, Stage
  <1>3. Places'
    BY <1>1 DEF IInv, Places, Gen
  <1>4. \A g \in Gen, d \in Disposer : Kept(g, d) => Kept(g, d)'
    BY <1>1, MembersOf DEF IInv, Shapes, DrainRecord, Kept, Awaits
  <1> QED
    BY <1>1, <1>2, <1>3, <1>4, KeepsAll DEF IInv

LEMMA HookDrainedKeeps ==
  ASSUME IInv, HookDrained
  PROVE  IInv'
  <1>1. /\ gen \in Gen /\ list[gen] \in Seq(Disposer) /\ drain.rest = <<>>
        /\ hook[gen].list = <<>> /\ stage' = "teardown" /\ stage = "hookDrain"
        /\ UNCHANGED <<gen, bag, settled, invoked, calls, added, forgotten>>
    BY DEF IInv, Shapes, Places, HookDrained, BatchDone, history
  <1>2. /\ drain' \in DrainRecord /\ Members(drain'.rest) = Members(list[gen])
    BY <1>1, MembersDrain DEF HookDrained
  <1>3. /\ list' \in [Gen -> Seq(Disposer)]
        /\ \A g \in Gen : g # gen => list'[g] = list[g]
    BY <1>1 DEF IInv, Shapes, HookDrained
  <1>4. /\ hook' \in [Gen -> [list : Seq(Disposer), is : {"none", "open", "closed"}]]
        /\ \A g \in Gen : /\ g # gen => hook'[g] = hook[g]
                          /\ hook'[gen].is = "closed"
    BY <1>1 DEF IInv, Shapes, HookDrained
  <1>5. Shapes' /\ Once' /\ Places'
    BY <1>1, <1>2, <1>3, <1>4 DEF IInv, Shapes, Once, Places, Stage
  <1>6. ASSUME NEW g \in Gen, NEW d \in Disposer, Kept(g, d)
        PROVE  Kept(g, d)'
    BY <1>1, <1>2, <1>3, <1>4, <1>6, MembersOf DEF IInv, Shapes, DrainRecord, Kept, Awaits
  <1> QED
    BY <1>1, <1>5, <1>6, KeepsAll DEF IInv

LEMMA InterruptTeardownKeeps ==
  ASSUME IInv, InterruptTeardown
  PROVE  IInv'
  <1>1. /\ gen \in Gen /\ stage' = "torn" /\ drain' = NoDrain
        /\ hook' = [hook EXCEPT ![gen] = [list |-> <<>>, is |-> "closed"]]
        /\ UNCHANGED <<gen, bag, list, settled, invoked, calls, added>>
        /\ stage \in {"releasing", "hookDrain", "teardown"}
    BY DEF IInv, Places, InterruptTeardown
  <1>2. NoDrain \in DrainRecord /\ NoDrain.rest = <<>>
    BY DEF NoDrain, DrainRecord
  <1>3. /\ hook' \in [Gen -> [list : Seq(Disposer), is : {"none", "open", "closed"}]]
        /\ hook'[gen].is = "closed" /\ \A g \in Gen : g # gen => hook'[g] = hook[g]
    BY <1>1 DEF IInv, Shapes
  <1>4. Shapes' /\ Once' /\ Places'
    BY <1>1, <1>2, <1>3 DEF IInv, Shapes, Once, Places, Stage
  <1>5. drain.rest \in Seq(Disposer) /\ hook[gen].list \in Seq(Disposer)
    BY <1>1 DEF IInv, Shapes, DrainRecord
  <1>6. /\ \A p : p \in forgotten => p \in forgotten'
        /\ \A d \in Members(drain.rest) \cup Members(hook[gen].list) : <<gen, d>> \in forgotten'
    BY <1>5, MembersConcat DEF InterruptTeardown, Losing
  <1>7. ASSUME NEW g \in Gen, NEW d \in Disposer, Kept(g, d)
        PROVE  Kept(g, d)'
    BY <1>1, <1>3, <1>6, <1>7 DEF Kept, Awaits
  <1> QED
    BY <1>1, <1>4, <1>7, KeepsAll DEF IInv

\* invokeDisposerOnce counts what it runs.
LEMMA InvokeCounts ==
  ASSUME IInv, NEW h \in Gen, NEW e \in Disposer, NEW promise, Invoke(h, e, promise)
  PROVE  /\ invoked' = [invoked EXCEPT ![h] = @ \cup {e}]
         /\ calls' \in [Gen -> [Disposer -> Nat]] /\ Once'
  <1>1. CASE e \in invoked[h]
    BY <1>1 DEF IInv, Shapes, Once, Invoke
  <1>2. CASE e \notin invoked[h]
    <2>1. /\ invoked' = [invoked EXCEPT ![h] = @ \cup {e}]
          /\ calls' = [calls EXCEPT ![h][e] = @ + 1]
      BY <1>2 DEF Invoke
    <2>2. calls' \in [Gen -> [Disposer -> Nat]]
      BY <2>1 DEF IInv, Shapes
    <2>3. ASSUME NEW g \in Gen, NEW d \in Disposer
          PROVE  calls'[g][d] = IF d \in invoked'[g] THEN 1 ELSE 0
      <3>1. CASE g = h /\ d = e
        BY <1>2, <2>1, <3>1 DEF IInv, Shapes, Once
      <3>2. CASE ~(g = h /\ d = e)
        <4>1. calls'[g][d] = calls[g][d] /\ (d \in invoked'[g] <=> d \in invoked[g])
          BY <2>1, <3>2 DEF IInv, Shapes
        <4> QED
          BY <4>1 DEF IInv, Once
      <3> QED
        BY <3>1, <3>2
    <2> QED
      BY <2>1, <2>2, <2>3 DEF Once
  <1> QED
    BY <1>1, <1>2

LEMMA RunNextKeeps ==
  ASSUME IInv, NEW promise \in BOOLEAN, RunNext(promise)
  PROVE  IInv'
  <1>1. gen \in Gen /\ drain.rest \in Seq(Disposer) /\ drain.rest # <<>>
    BY DEF IInv, Places, Shapes, DrainRecord, RunNext
  <1>2. /\ Head(drain.rest) \in Disposer /\ Tail(drain.rest) \in Seq(Disposer)
        /\ Members(drain.rest) = {Head(drain.rest)} \cup Members(Tail(drain.rest))
    BY <1>1, MembersHead
  <1>3. Invoke(gen, Head(drain.rest), promise)
    BY DEF RunNext
  <1>4. /\ invoked' = [invoked EXCEPT ![gen] = @ \cup {Head(drain.rest)}]
        /\ calls' \in [Gen -> [Disposer -> Nat]] /\ Once'
    BY <1>1, <1>2, <1>3, InvokeCounts
  <1>5. drain' \in DrainRecord /\ drain'.rest = Tail(drain.rest)
    BY <1>2 DEF RunNext, DrainRecord
  <1>6. UNCHANGED <<stage, gen, bag, list, settled, hook, added, forgotten>>
    BY DEF RunNext, registry
  <1>7. invoked' \in [Gen -> SUBSET Disposer]
    BY <1>2, <1>4 DEF IInv, Shapes
  <1>8. Shapes'
    BY <1>4, <1>5, <1>6, <1>7 DEF IInv, Shapes
  <1>9. stage \in {"cleaning", "interrupting", "hookDrain", "teardown"}
    BY <1>1 DEF IInv, Places
  <1>10. Places'
    BY <1>6, <1>9 DEF IInv, Places
  <1>11. ASSUME NEW g \in Gen, NEW d \in Disposer, Kept(g, d)
         PROVE  Kept(g, d)'
    <2>1. CASE g = gen /\ d = Head(drain.rest)
      BY <1>1, <1>4, <2>1 DEF IInv, Shapes, Kept
    <2>2. CASE ~(g = gen /\ d = Head(drain.rest))
      BY <1>1, <1>2, <1>4, <1>5, <1>6, <1>11, <2>2 DEF IInv, Shapes, Kept, Awaits
    <2> QED
      BY <2>1, <2>2
  <1> QED
    BY <1>4, <1>6, <1>8, <1>10, <1>11, KeepsAll DEF IInv

\* A registration is run at once, or lands where it will be found.
LEMMA AddKeeps ==
  ASSUME IInv, NEW b \in Bag, NEW e \in Disposer, NEW promise \in BOOLEAN, Add(b, e, promise)
  PROVE  IInv'
  <1> DEFINE late == \/ bag[b].reason # "none"
                     \/ bag[b].handedOff /\ settled[b[1]]
             h == b[1]
  <1>1. /\ h \in Gen /\ b = <<h, b[2]>> /\ b[2] \in {"acquire", "operation"}
        /\ bag[b] \in BagRecord /\ list[h] \in Seq(Disposer) /\ settled[h] \in BOOLEAN
    BY DEF IInv, Shapes, Bag
  <1>2. /\ added' = added \cup {<<b, e>>}
        /\ IF late THEN Invoke(h, e, promise) ELSE UNCHANGED <<invoked, calls, running>>
        /\ bag' = IF late \/ bag[b].handedOff THEN bag
                  ELSE [bag EXCEPT ![b].pending = Append(@, e)]
        /\ list' = IF bag[b].handedOff /\ ~late THEN [list EXCEPT ![h] = Append(@, e)] ELSE list
        /\ UNCHANGED <<stage, gen, settled, hook, drain, forgotten>>
    BY DEF Add, Collect
  <1>3. /\ invoked' \in [Gen -> SUBSET Disposer] /\ calls' \in [Gen -> [Disposer -> Nat]] /\ Once'
        /\ \A g \in Gen : invoked[g] \subseteq invoked'[g]
        /\ late => e \in invoked'[h]
    <2>1. CASE late
      <3>1. invoked' = [invoked EXCEPT ![h] = @ \cup {e}] /\ calls' \in [Gen -> [Disposer -> Nat]] /\ Once'
        BY <1>1, <1>2, <2>1, InvokeCounts
      <3> QED
        BY <1>1, <3>1 DEF IInv, Shapes
    <2>2. CASE ~late
      BY <1>2, <2>2 DEF IInv, Shapes, Once
    <2> QED
      BY <2>1, <2>2
  <1>4. /\ bag' \in [Bag -> BagRecord]
        /\ \A k \in Bag : /\ bag'[k].reason = bag[k].reason
                          /\ Members(bag[k].pending) \subseteq Members(bag'[k].pending)
        /\ ~late /\ ~bag[b].handedOff => e \in Members(bag'[b].pending)
    <2>1. CASE late \/ bag[b].handedOff
      BY <1>2, <2>1 DEF IInv, Shapes
    <2>2. CASE ~(late \/ bag[b].handedOff)
      <3>1. bag' = [bag EXCEPT ![b].pending = Append(@, e)]
        BY <1>2, <2>2
      <3>2. /\ Append(bag[b].pending, e) \in Seq(Disposer)
            /\ Members(Append(bag[b].pending, e)) = Members(bag[b].pending) \cup {e}
        BY <1>1, MembersOf DEF BagRecord
      <3>3. bag'[b] = [bag[b] EXCEPT !.pending = Append(@, e)]
            /\ \A k \in Bag : k # b => bag'[k] = bag[k]
        BY <3>1 DEF IInv, Shapes
      <3>4. bag'[b] \in BagRecord /\ bag'[b].pending = Append(bag[b].pending, e)
            /\ bag'[b].reason = bag[b].reason
        BY <1>1, <3>2, <3>3 DEF BagRecord
      <3>5. bag' \in [Bag -> BagRecord]
        BY <3>1, <3>3, <3>4 DEF IInv, Shapes
      <3> QED
        BY <3>2, <3>3, <3>4, <3>5
    <2> QED
      BY <2>1, <2>2
  <1>5. /\ list' \in [Gen -> Seq(Disposer)]
        /\ \A g \in Gen : Members(list[g]) \subseteq Members(list'[g])
        /\ ~late /\ bag[b].handedOff => e \in Members(list'[h])
    <2>1. CASE ~(bag[b].handedOff /\ ~late)
      BY <1>2, <2>1 DEF IInv, Shapes
    <2>2. CASE bag[b].handedOff /\ ~late
      BY <1>1, <1>2, <2>2, MembersOf DEF IInv, Shapes
    <2> QED
      BY <2>1, <2>2
  <1>6. Shapes'
    <2>1. added' \subseteq (Gen \X {"acquire", "operation", "hook"}) \X Disposer
      BY <1>1, <1>2 DEF IInv, Shapes, Bag
    <2> QED
      BY <1>2, <1>3, <1>4, <1>5, <2>1 DEF IInv, Shapes
  <1>7. Places'
    BY <1>2 DEF IInv, Places
  <1>8. ~late => bag[b].reason = "none" /\ (bag[b].handedOff => ~settled[h])
    OBVIOUS
  <1> HIDE DEF late
  <1>9. ASSUME NEW g \in Gen, NEW d \in Disposer, Kept(g, d)
        PROVE  Kept(g, d)'
    BY <1>2, <1>3, <1>4, <1>5, <1>9, BagKinds DEF Kept, Awaits
  <1>10. Kept(h, e)'
    BY <1>1, <1>2, <1>3, <1>4, <1>5, <1>8, BagKinds DEF Kept, Awaits
  <1>11. NothingLost'
    <2> SUFFICES ASSUME NEW a \in added' PROVE Kept(a[1][1], a[2])'
      BY DEF NothingLost, Kept
    <2>1. CASE a \in added
      <3>1. a[1][1] \in Gen /\ a[2] \in Disposer /\ Kept(a[1][1], a[2])
        BY <2>1 DEF IInv, Shapes, NothingLost, Kept
      <3> QED
        BY <1>9, <3>1
    <2>2. CASE a = <<b, e>>
      BY <1>10, <2>2
    <2> QED
      BY <1>2, <2>1, <2>2
  <1> QED
    BY <1>3, <1>6, <1>7, <1>11 DEF IInv

LEMMA HookAddKeeps ==
  ASSUME IInv, NEW h \in Gen, NEW e \in Disposer, HookAdd(h, e)
  PROVE  IInv'
  <1>1. /\ added' = added \cup {<<<<h, "hook">>, e>>}
        /\ UNCHANGED <<stage, gen, bag, list, settled, invoked, drain, calls>>
        /\ \A p : p \in forgotten => p \in forgotten'
    BY DEF HookAdd
  <1>2. /\ hook' \in [Gen -> [list : Seq(Disposer), is : {"none", "open", "closed"}]]
        /\ \A g \in Gen : /\ hook'[g].is = hook[g].is
                          /\ Members(hook[g].list) \subseteq Members(hook'[g].list)
        /\ hook[h].is = "open" => e \in Members(hook'[h].list)
        /\ hook[h].is # "open" => <<h, e>> \in forgotten'
    <2>1. hook[h] \in [list : Seq(Disposer), is : {"none", "open", "closed"}]
      BY DEF IInv, Shapes
    <2>2. CASE hook[h].is = "open"
      <3>1. hook' = [hook EXCEPT ![h].list = Append(@, e)]
        BY <2>2 DEF HookAdd
      <3>2. /\ Append(hook[h].list, e) \in Seq(Disposer)
            /\ Members(Append(hook[h].list, e)) = Members(hook[h].list) \cup {e}
        BY <2>1, MembersOf
      <3>3. /\ hook'[h] = [hook[h] EXCEPT !.list = Append(@, e)]
            /\ \A g \in Gen : g # h => hook'[g] = hook[g]
        BY <3>1 DEF IInv, Shapes
      <3>4. /\ hook'[h] \in [list : Seq(Disposer), is : {"none", "open", "closed"}]
            /\ hook'[h].list = Append(hook[h].list, e) /\ hook'[h].is = hook[h].is
        BY <2>1, <3>2, <3>3
      <3>5. hook' \in [Gen -> [list : Seq(Disposer), is : {"none", "open", "closed"}]]
        BY <3>1, <3>3, <3>4 DEF IInv, Shapes
      <3> QED
        BY <2>2, <3>2, <3>3, <3>4, <3>5
    <2>3. CASE hook[h].is # "open"
      <3>1. hook' = hook /\ <<h, e>> \in forgotten'
        BY <2>3 DEF HookAdd
      <3> QED
        BY <2>3, <3>1 DEF IInv, Shapes
    <2> QED
      BY <2>2, <2>3
  <1>3. Shapes' /\ Once' /\ Places'
    <2>1. added' \subseteq (Gen \X {"acquire", "operation", "hook"}) \X Disposer
      BY <1>1 DEF IInv, Shapes
    <2>2. Shapes'
      BY <1>1, <1>2, <2>1 DEF IInv, Shapes
    <2>3. Once'
      BY <1>1 DEF IInv, Once
    <2>4. Places'
      BY <1>1, <1>2 DEF IInv, Places
    <2> QED
      BY <2>2, <2>3, <2>4
  <1>4. ASSUME NEW g \in Gen, NEW d \in Disposer, Kept(g, d)
        PROVE  Kept(g, d)'
    BY <1>1, <1>2, <1>4 DEF Kept, Awaits
  <1>5. Kept(h, e)'
    BY <1>1, <1>2 DEF Kept, Awaits
  <1>6. NothingLost'
    <2> SUFFICES ASSUME NEW a \in added' PROVE Kept(a[1][1], a[2])'
      BY DEF NothingLost, Kept
    <2>1. CASE a \in added
      <3>1. a[1][1] \in Gen /\ a[2] \in Disposer /\ Kept(a[1][1], a[2])
        BY <2>1 DEF IInv, Shapes, NothingLost, Kept
      <3> QED
        BY <1>4, <3>1
    <2>2. CASE a = <<<<h, "hook">>, e>>
      BY <1>5, <2>2
    <2> QED
      BY <1>1, <2>1, <2>2
  <1> QED
    BY <1>3, <1>6 DEF IInv

-----------------------------------------------------------------------------
(* Results *)

LEMMA InitIInv == Init => IInv
  <1> SUFFICES ASSUME Init PROVE IInv
    OBVIOUS
  <1>1. Shapes
    BY BoundsAssumption DEF Init, Shapes, BagRecord, DrainRecord, Stage, NoDrain
  <1>2. Once /\ Places /\ NothingLost
    BY DEF Init, Once, Places, NothingLost, NoDrain
  <1> QED
    BY <1>1, <1>2 DEF IInv

LEMMA StepKeeps ==
  ASSUME IInv, [Next]_vars
  PROVE  IInv'
  <1>1. CASE UNCHANGED vars
    BY <1>1 DEF vars, registry, history, IInv, Shapes, Once, Places, NothingLost, Awaits
  <1>2. CASE Worker
    BY <1>2, RunNextKeeps, TimeOutKeeps, CleaningEndsKeeps, InterruptEndsKeeps, AcquireEndsKeeps,
       OperationEndsKeeps, ReleaseEndsKeeps, HookLoopsKeeps, HookDrainedKeeps,
       TeardownLoopsKeeps, TeardownEndsKeeps DEF Worker, Draining
  <1>3. CASE Driver
    BY <1>3, BeginAcquireKeeps, HandOffKeeps, AcquireFailsKeeps, BeginOperationKeeps,
       StartTeardownKeeps, AddKeeps, HookAddKeeps, SettleKeeps DEF Driver
  <1>4. CASE Interruption
    BY <1>4, InterruptAcquireKeeps, InterruptOperationKeeps, InterruptTeardownKeeps
    DEF Interruption
  <1> QED
    BY <1>1, <1>2, <1>3, <1>4 DEF Next

LEMMA Invariance == Spec => []IInv
  BY InitIInv, StepKeeps, PTL DEF Spec

\* A disposer runs at most once in one incarnation, over every bag and registry
\* it was added to, however late and wherever the worker was interrupted
\* (disposers.ts:7).
THEOREM DisposersRunOnce == Spec => []OnceOnly
  <1>1. IInv => OnceOnly
    BY DEF IInv, Once, OnceOnly
  <1> QED
    BY <1>1, Invariance, PTL

\* No registration is dropped unnoticed: it has run, or somebody who will run it
\* holds it, or it is one of those the code is known to lose
\* (operationDisposers.ts:243).
THEOREM RegistrationsAreOwned == Spec => []NothingLost
  <1>1. IInv => NothingLost
    BY DEF IInv
  <1> QED
    BY <1>1, Invariance, PTL
=============================================================================
