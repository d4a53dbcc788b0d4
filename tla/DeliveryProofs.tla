--------------------------- MODULE DeliveryProofs ---------------------------
(***************************************************************************)
(* Proofs of the safety properties of Delivery, for any number of changes  *)
(* and of requests that outlive their timeout.                             *)
(***************************************************************************)
EXTENDS Delivery, FiniteSetTheorems, TLAPS

\* Nothing is newer than the store.
NothingNewer ==
    /\ api <= store
    /\ \A s \in Senders : flights[s].version <= store
    /\ \A v \in Versions : strays[v] > 0 => v <= store

\* What is asked for is a deletion or the payload of the day.
OwedIsDue ==
    /\ owed \in {Nothing, Gone, due}
    /\ owed = Nothing => causes = {}

\* What is asked for is at the API, on its way there, or to be built by the next flush.
OwedIsComing ==
    owed # Nothing /\ causes = {} =>
        \/ api = owed
        \/ buffered /\ owed = due /\ owed # Gone
        \/ \E s \in Senders : OnTheWay(s) /\ flights[s].version = owed

\* As long as requests go one at a time, none on its way differs from what was asked for
\* and is there.
OneAtATime ==
    owed # Nothing /\ ~company =>
        /\ ~Company
        /\ api = owed => \A s \in Senders : OnTheWay(s) => flights[s].version = owed

IInv ==
    /\ DeliveryTypeOK
    /\ NothingNewer
    /\ OwedIsDue
    /\ OwedIsComing
    /\ OneAtATime
    /\ OvertakenInCompany

-----------------------------------------------------------------------------
LEMMA VersionRange ==
    /\ Gone \in Versions
    /\ Nothing \notin Versions
    /\ \A v \in Versions : v \in Nat
    /\ \A v \in Versions : v < MaxVersion => v + 1 \in Versions
BY DeliveryAssumption DEF Gone, Nothing, Versions

LEMMA FlightParts ==
    ASSUME DeliveryTypeOK, NEW s \in Senders
    PROVE  /\ flights[s].version \in Versions
           /\ flights[s].stage \in {"idle", "sent", "applied"}
BY DEF DeliveryTypeOK

\* A request given up here was on its way, and strays do not end by that.
LEMMA StraysWereOnTheWay ==
    ASSUME DeliveryTypeOK, NEW senders \in SUBSET Senders, Strays(senders)
    PROVE  /\ strays' \in [Versions -> Nat]
           /\ \A v \in Versions : strays'[v] >= strays[v]
           /\ \A v \in Versions : strays'[v] > 0 =>
                 \/ strays[v] > 0
                 \/ \E s \in Senders : flights[s].version = v
<1>1. PICK left \in SUBSET {s \in senders : OnTheWay(s)} :
         strays' = [v \in Versions |->
                       strays[v] + Cardinality({s \in left : flights[s].version = v})]
  BY DEF Strays
<1>2. IsFiniteSet(Senders)
  <2>1. IsFiniteSet({"flush"})
    BY FS_Singleton
  <2>2. IsFiniteSet({"flush"} \cup {"retry"})
    BY <2>1, FS_AddElement
  <2>3. IsFiniteSet(({"flush"} \cup {"retry"}) \cup {"bulk"})
    BY <2>2, FS_AddElement
  <2>4. Senders = ({"flush"} \cup {"retry"}) \cup {"bulk"}
    BY DEF Senders
  <2> QED
    BY <2>3, <2>4
<1> DEFINE carrying(v) == {s \in left : flights[s].version = v}
<1>3. ASSUME NEW v \in Versions
      PROVE  /\ Cardinality(carrying(v)) \in Nat
             /\ Cardinality(carrying(v)) > 0 => \E s \in Senders : flights[s].version = v
  <2>1. carrying(v) \subseteq Senders
    OBVIOUS
  <2>2. IsFiniteSet(carrying(v))
    BY <1>2, <2>1, FS_Subset
  <2>3. Cardinality(carrying(v)) \in Nat /\ (Cardinality(carrying(v)) = 0 <=> carrying(v) = {})
    BY <2>2, FS_CardinalityType, FS_EmptySet
  <2> QED
    BY <2>1, <2>3
<1>4. \A v \in Versions : strays'[v] = strays[v] + Cardinality(carrying(v))
  BY <1>1
<1>5. \A v \in Versions : strays[v] \in Nat
  BY DEF DeliveryTypeOK
<1>6. strays' \in [Versions -> Nat]
  BY <1>1, <1>3, <1>5
<1> HIDE DEF carrying
<1> QED
  BY <1>3, <1>4, <1>5, <1>6

\* What noting causes does to the history.
LEMMA NotesKeepsHistory ==
    ASSUME IInv, NEW now \in SUBSET {"failed", "overtaken", "ended"}, Notes(now)
    PROVE  /\ owed' = owed
           /\ owed' \in Versions \cup {Nothing}
           /\ causes' \in SUBSET {"failed", "overtaken", "ended"}
           /\ company' \in BOOLEAN
           /\ owed = Nothing => causes' = {}
           /\ owed # Nothing => causes' = causes \cup now
           /\ owed # Nothing => (company' <=> company \/ Company')
<1>1. owed' = owed /\ owed' \in Versions \cup {Nothing}
  BY DEF Notes, IInv, DeliveryTypeOK
<1>2. causes' \in SUBSET {"failed", "overtaken", "ended"}
  BY DEF Notes, IInv, DeliveryTypeOK
<1>3. company' \in BOOLEAN
  BY DEF Notes
<1> QED
  BY <1>1, <1>2, <1>3 DEF Notes

\* Nothing overtakes without company, so what was noted before keeps being true.
LEMMA NotesKeepsCompany ==
    ASSUME IInv, NEW now \in SUBSET {"failed", "overtaken", "ended"}, Notes(now),
           owed # Nothing /\ "overtaken" \in now => company
    PROVE  OvertakenInCompany'
BY NotesKeepsHistory DEF IInv, OvertakenInCompany

-----------------------------------------------------------------------------
\* A change is newer than everything, so only the next flush can bring it.
LEMMA ChangeKeepsInvariant ==
    ASSUME IInv, NEW complete \in BOOLEAN,
           LiveChange(complete) \/ SilentChange(complete)
    PROVE  IInv'
<1> USE VersionRange
<1>1. /\ store \in Versions /\ store' = store + 1 /\ store' \in Versions
      /\ due' = IF complete THEN store + 1 ELSE 0
      /\ UNCHANGED <<stranded, pending, flights, strays, api>>
      /\ store \in Nat /\ store < store'
  BY DEF LiveChange, SilentChange, Changes, IInv, DeliveryTypeOK, Versions
<1>2. /\ buffered' \in BOOLEAN /\ (stranded => buffered')
      /\ causes' = {}
      /\ company' = (owed' # Nothing /\ Company')
      /\ owed' \in {Nothing, due'}
      /\ owed' # Nothing => buffered' /\ owed' = store + 1
  BY <1>1 DEF LiveChange, SilentChange, Owes, IInv, DeliveryTypeOK
<1>3. DeliveryTypeOK'
  <2>1. due' \in {0, store'} /\ owed' \in Versions \cup {Nothing}
    BY <1>1, <1>2 DEF Gone
  <2>2. company' \in BOOLEAN
    BY <1>2
  <2> QED
    BY <1>1, <1>2, <2>1, <2>2 DEF IInv, DeliveryTypeOK
<1>4. NothingNewer'
  <2>1. api <= store'
    BY <1>1 DEF IInv, NothingNewer, DeliveryTypeOK, Versions
  <2>2. \A s \in Senders : flights[s].version <= store'
    <3> SUFFICES ASSUME NEW s \in Senders
                 PROVE  flights[s].version <= store'
      OBVIOUS
    <3>1. flights[s].version \in Nat /\ flights[s].version <= store
      BY FlightParts DEF IInv, NothingNewer
    <3> QED
      BY <1>1, <3>1
  <2>3. \A v \in Versions : strays[v] > 0 => v <= store'
    <3> SUFFICES ASSUME NEW v \in Versions, strays[v] > 0
                 PROVE  v <= store'
      OBVIOUS
    <3>1. v \in Nat /\ v <= store
      BY DEF IInv, NothingNewer
    <3> QED
      BY <1>1, <3>1
  <2> QED
    BY <1>1, <2>1, <2>2, <2>3 DEF NothingNewer
<1>5. OwedIsDue'
  BY <1>2 DEF OwedIsDue
<1>6. OwedIsComing'
  <2>1. owed' # Nothing => owed' = due' /\ owed' # Gone
    BY <1>1, <1>2 DEF Gone
  <2> QED
    BY <1>2, <2>1 DEF OwedIsComing
<1>7. OneAtATime'
  <2>1. owed' # Nothing => api' # owed'
    BY <1>1, <1>2 DEF IInv, NothingNewer, DeliveryTypeOK, Versions
  <2> QED
    BY <1>2, <2>1 DEF OneAtATime
<1>8. OvertakenInCompany'
  BY <1>2 DEF OvertakenInCompany
<1> QED
  BY <1>3, <1>4, <1>5, <1>6, <1>7, <1>8 DEF IInv

\* A request with the payload of the day leaves, where none of its sender was on its way.
LEMMA SendKeepsTypes ==
    ASSUME IInv, NEW s \in Senders, NEW v \in {Gone, due},
           flights' = [flights EXCEPT ![s] = Sent(v)],
           UNCHANGED <<store, due, strays, api>>
    PROVE  /\ flights' \in [Senders -> [stage: {"idle", "sent", "applied"},
                                        version: Versions]]
           /\ NothingNewer'
           /\ flights'[s].version = v /\ OnTheWay(s)'
           /\ \A t \in Senders \ {s} : flights'[t] = flights[t] /\ (OnTheWay(t)' <=> OnTheWay(t))
<1> USE VersionRange
<1>1. v \in Versions /\ v <= store
  BY DEF IInv, DeliveryTypeOK, Gone, Versions
<1>2. flights'[s] = Sent(v)
  BY DEF IInv, DeliveryTypeOK
<1>3. \A t \in Senders \ {s} : flights'[t] = flights[t]
  BY DEF IInv, DeliveryTypeOK
<1>4. Sent(v) \in [stage: {"idle", "sent", "applied"}, version: Versions]
  BY <1>1 DEF Sent
<1>5. flights' \in [Senders -> [stage: {"idle", "sent", "applied"}, version: Versions]]
  BY <1>4 DEF IInv, DeliveryTypeOK
<1>6. flights'[s].version = v /\ flights'[s].stage = "sent"
  BY <1>2 DEF Sent
<1>7. NothingNewer'
  BY <1>1, <1>3, <1>6 DEF IInv, NothingNewer
<1> QED
  BY <1>3, <1>5, <1>6, <1>7 DEF OnTheWay

\* A bulk operation asks for what it sends.
LEMMA BulkKeepsInvariant ==
    ASSUME IInv, SyncStarts \/ DeleteStarts
    PROVE  IInv'
<1> USE VersionRange
<1>1. PICK v \in {Gone, due} :
         /\ flights' = [flights EXCEPT !["bulk"] = Sent(v)]
         /\ UNCHANGED <<store, due, buffered, stranded, pending, strays, api>>
         /\ owed' = v /\ causes' = {} /\ company' = (v # Nothing /\ Company')
  BY DEF SyncStarts, DeleteStarts, Owes
<1>2. "bulk" \in Senders
  BY DEF Senders
<1>3. /\ flights' \in [Senders -> [stage: {"idle", "sent", "applied"}, version: Versions]]
      /\ NothingNewer'
      /\ flights'["bulk"].version = v /\ OnTheWay("bulk")'
  BY <1>1, <1>2, SendKeepsTypes
<1>4. v \in Versions
  BY DEF IInv, DeliveryTypeOK, Gone
<1>5. DeliveryTypeOK'
  <2>1. company' \in BOOLEAN
    BY <1>1
  <2> QED
    BY <1>1, <1>3, <1>4, <2>1 DEF IInv, DeliveryTypeOK
<1>6. OwedIsDue' /\ OvertakenInCompany'
  BY <1>1, <1>4 DEF OwedIsDue, OvertakenInCompany
<1>7. OwedIsComing'
  BY <1>1, <1>2, <1>3 DEF OwedIsComing
<1>8. OneAtATime'
  <2> SUFFICES ASSUME ~Company', NEW s \in Senders, OnTheWay(s)'
               PROVE  flights'[s].version = v
    BY <1>1, <1>4 DEF OneAtATime
  <2>1. s = "bulk"
    BY <1>2, <1>3 DEF Company
  <2> QED
    BY <1>3, <2>1
<1> QED
  BY <1>3, <1>5, <1>6, <1>7, <1>8 DEF IInv

\* The flush and the retry loop send the payload of the day, which is what is asked for
\* unless that is a deletion.
LEMMA TakeKeepsInvariant ==
    ASSUME IInv, NEW s \in {"flush", "retry"}, flights[s] = Idle, BuildsAndSends(s),
           UNCHANGED <<store, due, strays, api>>,
           pending' \in BOOLEAN, buffered' \in BOOLEAN,
           stranded' \in BOOLEAN, stranded' => buffered'
    PROVE  IInv'
<1> USE VersionRange
<1>1. s \in Senders /\ due \in {Gone, due} /\ due # Gone
  BY DEF Senders, BuildsAndSends, Gone
<1>2. flights' = [flights EXCEPT ![s] = Sent(due)]
  BY DEF BuildsAndSends
<1>3. /\ flights' \in [Senders -> [stage: {"idle", "sent", "applied"}, version: Versions]]
      /\ NothingNewer'
      /\ flights'[s].version = due /\ OnTheWay(s)'
      /\ \A t \in Senders \ {s} : flights'[t] = flights[t] /\ (OnTheWay(t)' <=> OnTheWay(t))
  BY <1>1, <1>2, SendKeepsTypes
<1>4. CASE owed = Gone /\ Owes(Nothing)
  <2>1. owed' = Nothing /\ causes' = {} /\ company' = FALSE
    BY <1>4 DEF Owes
  <2>2. DeliveryTypeOK'
    BY <1>3, <2>1 DEF IInv, DeliveryTypeOK
  <2> QED
    BY <1>3, <2>1, <2>2 DEF IInv, OwedIsDue, OwedIsComing, OneAtATime, OvertakenInCompany
<1>5. CASE owed # Gone /\ Notes({})
  <2>1. /\ owed' = owed /\ owed' \in Versions \cup {Nothing}
        /\ causes' \in SUBSET {"failed", "overtaken", "ended"}
        /\ company' \in BOOLEAN
        /\ owed = Nothing => causes' = {}
        /\ owed # Nothing => (company' <=> company \/ Company')
    BY <1>5, NotesKeepsHistory
  <2>2. DeliveryTypeOK'
    BY <1>3, <2>1 DEF IInv, DeliveryTypeOK
  <2>3. owed \in {Nothing, due}
    BY <1>5 DEF IInv, OwedIsDue
  <2>4. OwedIsDue'
    BY <2>1, <2>3 DEF OwedIsDue
  <2>5. OwedIsComing'
    BY <1>1, <1>3, <2>1, <2>3 DEF OwedIsComing
  <2>6. OneAtATime'
    <3> SUFFICES ASSUME owed # Nothing, ~Company', NEW t \in Senders, OnTheWay(t)'
                 PROVE  flights'[t].version = owed
      BY <2>1 DEF OneAtATime
    <3>1. t = s
      BY <1>1, <1>3 DEF Company
    <3> QED
      BY <1>3, <2>3, <3>1
  <2>7. OvertakenInCompany'
    BY <1>5, NotesKeepsCompany
  <2> QED
    BY <1>3, <2>2, <2>4, <2>5, <2>6, <2>7 DEF IInv
<1> QED
  BY <1>4, <1>5 DEF BuildsAndSends

LEMMA FlushTakesKeepsInvariant ==
    ASSUME IInv, FlushTakes
    PROVE  IInv'
<1>1. CASE BuildsAndSends("flush") /\ UNCHANGED pending
  <2>1. /\ flights["flush"] = Idle /\ UNCHANGED <<store, due, strays, api>>
        /\ pending' \in BOOLEAN /\ buffered' \in BOOLEAN
        /\ stranded' \in BOOLEAN /\ (stranded' => buffered')
    BY <1>1 DEF FlushTakes, IInv, DeliveryTypeOK
  <2> QED
    BY <1>1, <2>1, TakeKeepsInvariant
<1>2. CASE due = 0 /\ pending' = TRUE /\ UNCHANGED flights /\ Notes({})
  <2>1. UNCHANGED <<store, due, flights, strays, api>> /\ buffered' = FALSE /\ stranded' = FALSE
    BY <1>2 DEF FlushTakes
  <2>2. /\ owed' = owed /\ owed' \in Versions \cup {Nothing}
        /\ causes' \in SUBSET {"failed", "overtaken", "ended"}
        /\ company' \in BOOLEAN
        /\ owed = Nothing => causes' = {}
        /\ owed # Nothing => causes' = causes
        /\ owed # Nothing => (company' <=> company \/ Company')
    BY <1>2, NotesKeepsHistory
  <2>3. DeliveryTypeOK' /\ NothingNewer'
    BY <1>2, <2>1, <2>2 DEF IInv, DeliveryTypeOK, NothingNewer
  <2>4. OwedIsDue' /\ OneAtATime'
    BY <2>1, <2>2 DEF IInv, OwedIsDue, OneAtATime, Company, OnTheWay
  <2>5. OwedIsComing'
    BY <1>2, <2>1, <2>2 DEF IInv, OwedIsComing, OnTheWay, Gone
  <2>6. OvertakenInCompany'
    BY <1>2, NotesKeepsCompany
  <2> QED
    BY <2>3, <2>4, <2>5, <2>6 DEF IInv
<1> QED
  BY <1>1, <1>2 DEF FlushTakes

LEMMA RetryTakesKeepsInvariant ==
    ASSUME IInv, RetryTakes
    PROVE  IInv'
<1>1. /\ flights["retry"] = Idle /\ UNCHANGED <<store, due, strays, api>>
      /\ pending' \in BOOLEAN /\ buffered' \in BOOLEAN
      /\ stranded' \in BOOLEAN /\ (stranded' => buffered')
      /\ BuildsAndSends("retry")
  BY DEF RetryTakes, IInv, DeliveryTypeOK
<1> QED
  BY <1>1, TakeKeepsInvariant

-----------------------------------------------------------------------------
\* A step that ends requests, or none, and applies nothing: what was to come and is no more
\* reached the API before, or leaves a cause.
Ending(now) ==
    /\ now \in SUBSET {"failed", "ended"}
    /\ Notes(now)
    /\ UNCHANGED <<store, due, api>>
    /\ pending' \in BOOLEAN /\ buffered' \in BOOLEAN
    /\ stranded' \in BOOLEAN /\ (stranded' => buffered')
    /\ flights' \in [Senders -> [stage: {"idle", "sent", "applied"}, version: Versions]]
    /\ strays' \in [Versions -> Nat]
    /\ \A s \in Senders : flights'[s] = flights[s] \/ flights'[s] = Idle
    /\ \A v \in Versions : strays'[v] > 0 =>
          strays[v] > 0 \/ \E s \in Senders : flights[s].version = v
    /\ now = {} =>
          /\ buffered => buffered'
          /\ \A s \in Senders :
                OnTheWay(s) /\ flights[s].version = owed => flights'[s] = flights[s]

LEMMA EndingKeepsInvariant ==
    ASSUME IInv, NEW now, Ending(now)
    PROVE  IInv'
<1> USE VersionRange DEF Ending
<1>1. /\ owed' = owed /\ owed' \in Versions \cup {Nothing}
      /\ causes' \in SUBSET {"failed", "overtaken", "ended"}
      /\ company' \in BOOLEAN
      /\ owed = Nothing => causes' = {}
      /\ owed # Nothing => causes' = causes \cup now
      /\ owed # Nothing => (company' <=> company \/ Company')
  BY NotesKeepsHistory
<1>2. DeliveryTypeOK'
  BY <1>1 DEF IInv, DeliveryTypeOK
<1>3. \A s \in Senders : OnTheWay(s)' => OnTheWay(s) /\ flights'[s] = flights[s]
  BY DEF OnTheWay, Idle
<1>4. NothingNewer'
  <2>1. \A s \in Senders : flights'[s].version <= store
    BY DEF IInv, NothingNewer, Idle, DeliveryTypeOK
  <2>2. \A v \in Versions : strays'[v] > 0 => v <= store
    BY DEF IInv, NothingNewer
  <2> QED
    BY <2>1, <2>2 DEF IInv, NothingNewer
<1>5. OwedIsDue'
  BY <1>1 DEF IInv, OwedIsDue
<1>6. OwedIsComing'
  <2> SUFFICES ASSUME owed # Nothing, causes = {}, now = {}
               PROVE  \/ api = owed
                      \/ buffered' /\ owed = due /\ owed # Gone
                      \/ \E s \in Senders : OnTheWay(s)' /\ flights'[s].version = owed
    BY <1>1 DEF OwedIsComing
  <2> QED
    BY DEF IInv, OwedIsComing, OnTheWay
<1>7. OneAtATime'
  <2> SUFFICES ASSUME owed # Nothing, ~company, ~Company'
               PROVE  api = owed => \A s \in Senders :
                                       OnTheWay(s)' => flights'[s].version = owed
    BY <1>1 DEF OneAtATime
  <2> QED
    BY <1>3 DEF IInv, OneAtATime
<1>8. OvertakenInCompany'
  BY NotesKeepsCompany
<1> QED
  BY <1>2, <1>4, <1>5, <1>6, <1>7, <1>8 DEF IInv

LEMMA RequestEndsKeepsInvariant ==
    ASSUME IInv, NEW s \in Senders, RequestResolves(s) \/ RequestIsRejected(s)
    PROVE  IInv'
<1> USE VersionRange
<1>1. flights' = [flights EXCEPT ![s] = Idle]
  BY DEF RequestResolves, RequestIsRejected
<1>2. Idle \in [stage: {"idle", "sent", "applied"}, version: Versions]
  BY DEF Idle, Gone
<1>3. /\ flights' \in [Senders -> [stage: {"idle", "sent", "applied"}, version: Versions]]
      /\ \A t \in Senders : flights'[t] = IF t = s THEN Idle ELSE flights[t]
  BY <1>1, <1>2 DEF IInv, DeliveryTypeOK
<1>4. /\ UNCHANGED <<store, due, api, buffered>>
      /\ pending' \in BOOLEAN /\ buffered' \in BOOLEAN
      /\ stranded' \in BOOLEAN /\ (stranded' => buffered')
  <2>1. UNCHANGED <<store, due, api, buffered, stranded>>
    BY DEF RequestResolves, RequestIsRejected
  <2>2. pending' \in BOOLEAN
    BY DEF RequestResolves, RequestIsRejected, IInv, DeliveryTypeOK
  <2> QED
    BY <2>1, <2>2 DEF IInv, DeliveryTypeOK
<1>5. CASE RequestResolves(s)
  <2>1. strays' = strays /\ Notes({}) /\ ~OnTheWay(s)
    BY <1>5 DEF RequestResolves, OnTheWay
  <2>2. strays' \in [Versions -> Nat]
    BY <2>1 DEF IInv, DeliveryTypeOK
  <2>3. Ending({})
    BY <1>3, <1>4, <2>1, <2>2 DEF Ending
  <2> QED
    BY <2>3, EndingKeepsInvariant
<1>6. CASE RequestIsRejected(s)
  <2>1. Strays({s}) /\ Notes(Failure(s))
    BY <1>6 DEF RequestIsRejected
  <2>2. /\ strays' \in [Versions -> Nat]
        /\ \A v \in Versions : strays'[v] > 0 =>
              strays[v] > 0 \/ \E t \in Senders : flights[t].version = v
    BY <2>1, StraysWereOnTheWay DEF IInv
  <2>3. /\ Failure(s) \in SUBSET {"failed", "ended"}
        /\ Failure(s) = {} => ~(OnTheWay(s) /\ flights[s].version = owed)
    BY DEF Failure
  <2>4. Ending(Failure(s))
    BY <1>3, <1>4, <2>1, <2>2, <2>3 DEF Ending
  <2> QED
    BY <2>4, EndingKeepsInvariant
<1> QED
  BY <1>5, <1>6

LEMMA ProcessEndsKeepsInvariant ==
    ASSUME IInv, ProcessEnds
    PROVE  IInv'
<1> USE VersionRange
<1> DEFINE now == IF buffered \/ \E s \in Senders : OnTheWay(s) THEN {"ended"} ELSE {}
<1>1. /\ UNCHANGED <<store, due, api>> /\ buffered' = FALSE /\ stranded' = FALSE /\ pending' = FALSE
      /\ flights' = [s \in Senders |-> Idle]
      /\ Strays(Senders) /\ Notes(now)
  BY DEF ProcessEnds
<1>2. Idle \in [stage: {"idle", "sent", "applied"}, version: Versions]
  BY DEF Idle, Gone
<1>3. /\ flights' \in [Senders -> [stage: {"idle", "sent", "applied"}, version: Versions]]
      /\ \A s \in Senders : flights'[s] = Idle
  BY <1>1, <1>2
<1>4. /\ strays' \in [Versions -> Nat]
      /\ \A v \in Versions : strays'[v] > 0 =>
            strays[v] > 0 \/ \E t \in Senders : flights[t].version = v
  BY <1>1, StraysWereOnTheWay DEF IInv
<1>5. /\ now \in SUBSET {"failed", "ended"}
      /\ now = {} => ~buffered /\ \A s \in Senders : ~OnTheWay(s)
  OBVIOUS
<1> HIDE DEF now
<1>6. Ending(now)
  BY <1>1, <1>3, <1>4, <1>5 DEF Ending
<1> QED
  BY <1>6, EndingKeepsInvariant

LEMMA IdleStepKeepsInvariant ==
    ASSUME IInv, TimerFiresInVain \/ RetryGivesUp \/ \E v \in Versions : StrayIsLost(v)
    PROVE  IInv'
<1> USE VersionRange
<1>1. /\ UNCHANGED <<store, due, api, buffered, flights>> /\ Notes({})
      /\ pending' \in BOOLEAN /\ buffered' \in BOOLEAN
      /\ stranded' \in BOOLEAN /\ (stranded' => buffered')
  <2>1. CASE TimerFiresInVain
    BY <2>1 DEF TimerFiresInVain, IInv, DeliveryTypeOK
  <2>2. CASE RetryGivesUp
    BY <2>2 DEF RetryGivesUp, IInv, DeliveryTypeOK
  <2>3. CASE \E v \in Versions : StrayIsLost(v)
    BY <2>3 DEF StrayIsLost, IInv, DeliveryTypeOK
  <2> QED
    BY <2>1, <2>2, <2>3
<1>2. /\ strays' \in [Versions -> Nat]
      /\ \A v \in Versions : strays'[v] > 0 => strays[v] > 0
  <2>1. CASE TimerFiresInVain \/ RetryGivesUp
    BY <2>1 DEF TimerFiresInVain, RetryGivesUp, IInv, DeliveryTypeOK
  <2>2. CASE \E v \in Versions : StrayIsLost(v)
    BY <2>2 DEF StrayIsLost, IInv, DeliveryTypeOK
  <2> QED
    BY <2>1, <2>2
<1>3. /\ flights' \in [Senders -> [stage: {"idle", "sent", "applied"}, version: Versions]]
      /\ \A s \in Senders : flights'[s] = flights[s]
  BY <1>1 DEF IInv, DeliveryTypeOK
<1>4. Ending({})
  BY <1>1, <1>2, <1>3 DEF Ending
<1> QED
  BY <1>4, EndingKeepsInvariant

-----------------------------------------------------------------------------
\* The API applies a request of a sender, or one that was given up.
LEMMA ApplyKeepsInvariant ==
    ASSUME IInv, NEW v \in Versions, v <= store, Applies(v),
           flights' \in [Senders -> [stage: {"idle", "sent", "applied"}, version: Versions]],
           strays' \in [Versions -> Nat],
           \A s \in Senders : /\ flights'[s].version = flights[s].version
                              /\ OnTheWay(s)' => OnTheWay(s)
                              /\ OnTheWay(s) => OnTheWay(s)' \/ flights[s].version = v,
           \A w \in Versions : strays'[w] > 0 => strays[w] > 0,
           Company \/ \A s \in Senders : OnTheWay(s) => ~OnTheWay(s)' /\ flights[s].version = v,
           ~Company => \E s \in Senders : OnTheWay(s)
    PROVE  IInv'
<1> USE VersionRange
<1> DEFINE now == IF api = owed /\ v # owed THEN {"overtaken"} ELSE {}
<1>1. /\ api' = v /\ UNCHANGED <<store, due, buffered, stranded, pending>> /\ Notes(now)
      /\ now \in SUBSET {"failed", "overtaken", "ended"}
  BY DEF Applies
<1>2. /\ owed' = owed /\ owed' \in Versions \cup {Nothing}
      /\ causes' \in SUBSET {"failed", "overtaken", "ended"}
      /\ company' \in BOOLEAN
      /\ owed = Nothing => causes' = {}
      /\ owed # Nothing => causes' = causes \cup now
      /\ owed # Nothing => (company' <=> company \/ Company')
  BY <1>1, NotesKeepsHistory
<1>3. DeliveryTypeOK' /\ OwedIsDue'
  BY <1>1, <1>2 DEF IInv, DeliveryTypeOK, OwedIsDue
<1>4. NothingNewer'
  BY <1>1 DEF IInv, NothingNewer
<1>5. OwedIsComing'
  <2> SUFFICES ASSUME owed # Nothing, causes = {}, now = {}, v # owed
               PROVE  \/ buffered /\ owed = due /\ owed # Gone
                      \/ \E s \in Senders : OnTheWay(s)' /\ flights'[s].version = owed
    BY <1>1, <1>2 DEF OwedIsComing
  <2> QED
    BY DEF IInv, OwedIsComing
<1>6. owed # Nothing /\ Company => company
  BY DEF IInv, OneAtATime
<1>7. OneAtATime'
  <2> SUFFICES ASSUME owed # Nothing, ~company, ~Company'
               PROVE  api' = owed => \A s \in Senders :
                                        OnTheWay(s)' => flights'[s].version = owed
    BY <1>2 DEF OneAtATime
  <2> QED
    BY <1>6
<1>8. owed # Nothing /\ "overtaken" \in now => company
  <2> SUFFICES ASSUME owed # Nothing, api = owed, v # owed, ~company
               PROVE  FALSE
    OBVIOUS
  <2>1. PICK s \in Senders : OnTheWay(s) /\ flights[s].version = v
    BY <1>6
  <2> QED
    BY <2>1 DEF IInv, OneAtATime
<1>9. OvertakenInCompany'
  BY <1>1, <1>8, NotesKeepsCompany
<1> QED
  BY <1>3, <1>4, <1>5, <1>7, <1>9 DEF IInv

LEMMA ApiAppliesKeepsInvariant ==
    ASSUME IInv, NEW s \in Senders, ApiApplies(s)
    PROVE  IInv'
<1> DEFINE v == flights[s].version
<1>1. /\ OnTheWay(s) /\ flights' = [flights EXCEPT ![s].stage = "applied"]
      /\ strays' = strays /\ Applies(v)
  BY DEF ApiApplies
<1>2. v \in Versions /\ v <= store
  BY FlightParts DEF IInv, NothingNewer
<1>3. /\ flights' \in [Senders -> [stage: {"idle", "sent", "applied"}, version: Versions]]
      /\ \A t \in Senders : flights'[t].version = flights[t].version
      /\ \A t \in Senders : flights'[t].stage = IF t = s THEN "applied" ELSE flights[t].stage
  BY <1>1 DEF IInv, DeliveryTypeOK
<1>4. strays' \in [Versions -> Nat]
  BY <1>1 DEF IInv, DeliveryTypeOK
<1>5. ~OnTheWay(s)' /\ \A t \in Senders : t # s => (OnTheWay(t)' <=> OnTheWay(t))
  BY <1>3 DEF OnTheWay
<1>6. ~Company => \A t \in Senders : OnTheWay(t) => t = s
  BY <1>1 DEF Company
<1>7. \A t \in Senders : /\ flights'[t].version = flights[t].version
                         /\ OnTheWay(t)' => OnTheWay(t)
                         /\ OnTheWay(t) => OnTheWay(t)' \/ flights[t].version = v
  BY <1>1, <1>3, <1>5
<1>8. /\ Company \/ \A t \in Senders : OnTheWay(t) => ~OnTheWay(t)' /\ flights[t].version = v
      /\ ~Company => \E t \in Senders : OnTheWay(t)
      /\ \A w \in Versions : strays'[w] > 0 => strays[w] > 0
  BY <1>1, <1>5, <1>6
<1> HIDE DEF v
<1> QED
  BY <1>1, <1>2, <1>3, <1>4, <1>7, <1>8, ApplyKeepsInvariant

LEMMA StrayAppliesKeepsInvariant ==
    ASSUME IInv, NEW v \in Versions, ApiAppliesStray(v)
    PROVE  IInv'
<1>1. /\ strays[v] > 0 /\ strays' = [strays EXCEPT ![v] = @ - 1]
      /\ flights' = flights /\ Applies(v)
  BY DEF ApiAppliesStray
<1>2. Company /\ v <= store
  BY <1>1 DEF Company, IInv, NothingNewer
<1>3. /\ strays' \in [Versions -> Nat]
      /\ \A w \in Versions : strays'[w] > 0 => strays[w] > 0
  BY <1>1 DEF IInv, DeliveryTypeOK
<1>4. /\ flights' \in [Senders -> [stage: {"idle", "sent", "applied"}, version: Versions]]
      /\ \A s \in Senders : /\ flights'[s].version = flights[s].version
                             /\ OnTheWay(s)' <=> OnTheWay(s)
  BY <1>1 DEF IInv, DeliveryTypeOK, OnTheWay
<1> QED
  BY <1>1, <1>2, <1>3, <1>4, ApplyKeepsInvariant

-----------------------------------------------------------------------------
LEMMA InitInvariant ==
    ASSUME Init
    PROVE  IInv
<1> USE VersionRange
<1>1. Idle \in [stage: {"idle", "sent", "applied"}, version: Versions] /\ Idle.version = 0
  BY DEF Idle, Gone
<1>2. DeliveryTypeOK
  BY <1>1 DEF Init, DeliveryTypeOK, Gone
<1>3. NothingNewer
  BY <1>1 DEF Init, NothingNewer, Gone
<1> QED
  BY <1>2, <1>3 DEF IInv, Init, OwedIsDue, OwedIsComing, OneAtATime, OvertakenInCompany

LEMMA NextKeepsInvariant ==
    ASSUME IInv, [Next]_vars
    PROVE  IInv'
<1>1. CASE UNCHANGED vars
  <2>1. /\ UNCHANGED <<store, due, buffered, stranded, pending, flights, strays, api>>
        /\ UNCHANGED <<owed, causes, company>>
    BY <1>1 DEF vars, delivery
  <2>2. DeliveryTypeOK' /\ NothingNewer' /\ OwedIsDue' /\ OvertakenInCompany'
    BY <2>1 DEF IInv, DeliveryTypeOK, NothingNewer, OwedIsDue, OvertakenInCompany
  <2>3. OwedIsComing' /\ OneAtATime'
    BY <2>1 DEF IInv, OwedIsComing, OneAtATime, Company, OnTheWay
  <2> QED
    BY <2>2, <2>3 DEF IInv
<1>2. CASE \E complete \in BOOLEAN : LiveChange(complete) \/ SilentChange(complete)
  BY <1>2, ChangeKeepsInvariant
<1>3. CASE FlushTakes
  BY <1>3, FlushTakesKeepsInvariant
<1>4. CASE RetryTakes
  BY <1>4, RetryTakesKeepsInvariant
<1>5. CASE SyncStarts \/ DeleteStarts
  BY <1>5, BulkKeepsInvariant
<1>6. ASSUME NEW s \in Senders, ApiApplies(s) \/ RequestResolves(s) \/ RequestIsRejected(s)
      PROVE  IInv'
  BY <1>6, ApiAppliesKeepsInvariant, RequestEndsKeepsInvariant
<1>7. ASSUME NEW v \in Versions, ApiAppliesStray(v)
      PROVE  IInv'
  BY <1>7, StrayAppliesKeepsInvariant
<1>8. CASE TimerFiresInVain \/ RetryGivesUp \/ \E v \in Versions : StrayIsLost(v)
  BY <1>8, IdleStepKeepsInvariant
<1>9. CASE ProcessEnds
  BY <1>9, ProcessEndsKeepsInvariant
<1> QED
  BY <1>1, <1>2, <1>3, <1>4, <1>5, <1>6, <1>7, <1>8, <1>9 DEF Next

-----------------------------------------------------------------------------
\* Every behaviour keeps the inductive invariant.
THEOREM Invariant == Spec => []IInv
<1>1. Init => IInv
  BY InitInvariant
<1>2. IInv /\ [Next]_vars => IInv'
  BY NextKeepsInvariant
<1> QED
  BY <1>1, <1>2, PTL DEF Spec

\* The state of the composition is well formed, for any number of strays.
THEOREM TypeCorrect == Spec => []DeliveryTypeOK
<1>1. IInv => DeliveryTypeOK
  BY DEF IInv
<1> QED
  BY <1>1, Invariant, PTL

\* At rest the API has what was asked for last, but for the three causes.
THEOREM CopyIsStaleForAReason == Spec => []StaleForAReason
<1>1. IInv => StaleForAReason
  BY DEF IInv, OwedIsComing, StaleForAReason, AtRest, OnTheWay, Idle
<1> QED
  BY <1>1, Invariant, PTL

\* Requests that go one at a time, without outliving their timeout, overtake nothing.
THEOREM NothingOvertakesAlone == Spec => []OvertakenInCompany
<1>1. IInv => OvertakenInCompany
  BY DEF IInv
<1> QED
  BY <1>1, Invariant, PTL

\* As long as none of the three causes is noted, what is asked for is at no moment
\* lost: it is at the API, on its way there, or to be built by the next flush.  What
\* DemandsArrive adds is that those that have it go on.
THEOREM DemandsAreKept == Spec => []OwedIsComing
<1>1. IInv => OwedIsComing
  BY DEF IInv
<1> QED
  BY <1>1, Invariant, PTL
=============================================================================
