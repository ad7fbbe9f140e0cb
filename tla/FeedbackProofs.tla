--------------------------- MODULE FeedbackProofs ---------------------------
(***************************************************************************)
(* Proofs about FeedbackService for any calls, chunks and queue size, any  *)
(* age and bounds: no retrieval judges a chunk twice, and close reports    *)
(* every event that was attempted.                                         *)
(***************************************************************************)
EXTENDS FeedbackService, FiniteSetTheorems, FunctionTheorems, SequenceTheorems,
        TLAPS

Events ==
  {e \in [kind : {"none", "retrieve", "present", "read", "finish"},
          call : FbCalls \cup {0}, chunk : Chunks \cup {0}, at : Nat] :
     /\ e.kind \in {"retrieve", "present"} => e.call \in FbCalls
     /\ e.kind = "read" => e.chunk \in Chunks}

Places == {"top", "select", "got", "handle", "parked", "done"}

(* The types; the worker has an event in hand only between taking it and   *)
(* having handled it.                                                      *)
FbType ==
  /\ fbTime \in Nat
  /\ fbRun \in [retrieved : SUBSET FbCalls, left : Int, finished : BOOLEAN]
  /\ fbQueue \in Seq(Events) /\ fbHand \in Events
  /\ fbReport \in [attempted : Nat, completed : Nat, dropped : Nat]
  /\ fbWorker \in Places
  /\ fbPending \subseteq FbCalls /\ fbJoined \subseteq FbCalls
  /\ fbCredited \subseteq Pairs /\ fbInteracted \subseteq Pairs
  /\ fbWindows \in [FbCalls -> Int]
  /\ fbPositive \in [Pairs -> Nat] /\ fbNegative \in [Pairs -> Nat]
  /\ fbWorker \notin {"got", "handle"} => fbHand = NoEvent

-----------------------------------------------------------------------------
(* What has to hold for the worker to go on judging.  A call is fresh      *)
(* until its window opens: nothing was ever recorded for it.  It announces *)
(* itself once, is fresh while it is announced or pending, and an open     *)
(* window has at most one signal per chunk, which is remembered both as    *)
(* credited and as an interaction.                                         *)
Untold(c, k) ==
  /\ fbPositive[<<c, k>>] = 0 /\ fbNegative[<<c, k>>] = 0
  /\ <<c, k>> \notin fbInteracted /\ <<c, k>> \notin fbCredited

Fresh(c) == /\ fbWindows[c] = Never /\ c \notin fbJoined
            /\ \A k \in Chunks : Untold(c, k)

RetrieveOf(e, c) == e.kind = "retrieve" /\ e.call = c

Announced(c) == \/ RetrieveOf(fbHand, c)
                \/ \E i \in DOMAIN fbQueue : RetrieveOf(fbQueue[i], c)

AnnouncedOnce(c) ==
  /\ \A i, j \in DOMAIN fbQueue :
       RetrieveOf(fbQueue[i], c) /\ RetrieveOf(fbQueue[j], c) => i = j
  /\ RetrieveOf(fbHand, c) =>
       \A i \in DOMAIN fbQueue : ~RetrieveOf(fbQueue[i], c)

WindowGood(c, k) ==
  fbWindows[c] # Never =>
    /\ fbNegative[<<c, k>>] = 0
    /\ fbPositive[<<c, k>>] # 0 =>
         /\ fbPositive[<<c, k>>] = 1
         /\ <<c, k>> \in fbInteracted /\ <<c, k>> \in fbCredited

CallGood(c) ==
  /\ c \notin fbRun.retrieved => ~Announced(c) /\ c \notin fbPending /\ Fresh(c)
  /\ Announced(c) => c \notin fbPending /\ Fresh(c)
  /\ c \in fbPending => Fresh(c)
  /\ AnnouncedOnce(c)
  /\ c \in fbJoined => fbWindows[c] # Never
  /\ \A k \in Chunks : WindowGood(c, k)

(* The worker handles nothing any more: the state it would judge by may    *)
(* disagree with the store, which failed after committing.                 *)
Spent == fbWorker \in {"parked", "done"} \/ (fbWorker = "top" /\ fbDisabled)

JudgeInv == /\ FbType /\ JudgedOnce
            /\ Spent \/ \A c \in FbCalls : CallGood(c)

-----------------------------------------------------------------------------
LEMMA NoEventIs == NoEvent \in Events /\ NoEvent.kind = "none"
BY DEF NoEvent, Events

LEMMA BumpTyped ==
  ASSUME NEW tally \in [Pairs -> Nat], NEW S
  PROVE  Bump(tally, S) \in [Pairs -> Nat]
BY DEF Bump

(* An observer's call: the queue gets the event or stays as it is.         *)
LEMMA AdmitEffect ==
  ASSUME FbType, NEW e \in Events, AdmitEvent(e)
  PROVE  /\ fbQueue' \in Seq(Events)
         /\ fbQueue' = fbQueue \/ fbQueue' = Append(fbQueue, e)
         /\ fbReport' \in [attempted : Nat, completed : Nat, dropped : Nat]
         /\ fbDisabled => fbDisabled'
         /\ UNCHANGED <<fbTime, fbStopped, fbTimedOut, fbWorker, fbHand, joins,
                        collector, store, fbCloser>>
<1>1. fbQueue \in Seq(Events) /\ Append(fbQueue, e) \in Seq(Events)
  BY DEF FbType
<1>2. fbQueue' = fbQueue \/ fbQueue' = Append(fbQueue, e)
  BY DEF AdmitEvent
<1>3. fbReport' \in [attempted : Nat, completed : Nat, dropped : Nat]
  <2>1. fbReport \in [attempted : Nat, completed : Nat, dropped : Nat]
    BY DEF FbType
  <2>2. \/ fbReport' = fbReport
        \/ fbReport' = [fbReport EXCEPT !.attempted = @ + 1]
        \/ fbReport' = [fbReport EXCEPT !.attempted = @ + 1, !.dropped = @ + 1]
    BY DEF AdmitEvent, Overflow
  <2>3. CASE fbReport' = fbReport
    BY <2>1, <2>3
  <2>4. CASE fbReport' = [fbReport EXCEPT !.attempted = @ + 1]
    BY <2>1, <2>4
  <2>5. CASE fbReport' = [fbReport EXCEPT !.attempted = @ + 1, !.dropped = @ + 1]
    <3> DEFINE counted == [fbReport EXCEPT !.attempted = @ + 1]
    <3>1. counted \in [attempted : Nat, completed : Nat, dropped : Nat]
      BY <2>1
    <3>2. fbReport' = [counted EXCEPT !.dropped = fbReport.dropped + 1]
      BY <2>5
    <3>3. fbReport.dropped + 1 \in Nat
      BY <2>1
    <3> HIDE DEF counted
    <3> QED  BY <3>1, <3>2, <3>3
  <2> QED  BY <2>2, <2>3, <2>4, <2>5
<1>4. /\ fbDisabled => fbDisabled'
      /\ UNCHANGED <<fbTime, fbStopped, fbTimedOut, fbWorker, fbHand, joins,
                     collector, store, fbCloser>>
  BY DEF AdmitEvent
<1> QED  BY <1>1, <1>2, <1>3, <1>4

(* What the observers post.                                                *)
LEMMA EventTyped ==
  ASSUME FbType
  PROVE  /\ \A c \in FbCalls : Event("retrieve", c, 0, fbTime) \in Events
         /\ \A c \in FbCalls : Event("present", c, 0, fbTime) \in Events
         /\ \A k \in Chunks : Event("read", 0, k, fbTime) \in Events
         /\ Event("finish", 0, 0, fbTime) \in Events
BY DEF FbType, Event, Events

(* The observers' steps in one: some event is admitted, and only a         *)
(* retrieve call that has not announced itself yet announces itself.       *)
Posted(e) ==
  /\ AdmitEvent(e)
  /\ fbRun' \in [retrieved : SUBSET FbCalls, left : Int, finished : BOOLEAN]
  /\ IF e.kind = "retrieve"
       THEN /\ e.call \notin fbRun.retrieved
            /\ fbRun'.retrieved = fbRun.retrieved \cup {e.call}
       ELSE fbRun'.retrieved = fbRun.retrieved

Observe == \/ \E c \in FbCalls : ObserveRetrieve(c)
           \/ ObserveUse \/ FinishRun

LEMMA ObservePosts ==
  ASSUME FbType, Observe
  PROVE  \E e \in Events : Posted(e)
<1>1. ASSUME NEW c \in FbCalls, ObserveRetrieve(c)
      PROVE  Posted(Event("retrieve", c, 0, fbTime))
  <2>1. Event("retrieve", c, 0, fbTime).kind = "retrieve"
        /\ Event("retrieve", c, 0, fbTime).call = c
    BY DEF Event
  <2>2. AdmitEvent(Event("retrieve", c, 0, fbTime))
    BY <1>1 DEF ObserveRetrieve
  <2>3. c \notin fbRun.retrieved
        /\ fbRun' = [fbRun EXCEPT !.retrieved = @ \cup {c}]
    BY <1>1 DEF ObserveRetrieve
  <2> HIDE DEF Event
  <2> QED  BY <2>1, <2>2, <2>3 DEF Posted, FbType
<1>2. ASSUME NEW e \in Events, e.kind # "retrieve", AdmitEvent(e),
             \/ fbRun' = [fbRun EXCEPT !.left = @ - 1]
             \/ fbRun' = [fbRun EXCEPT !.finished = TRUE]
      PROVE  Posted(e)
  <2>1. fbRun \in [retrieved : SUBSET FbCalls, left : Int, finished : BOOLEAN]
    BY DEF FbType
  <2>2. CASE fbRun' = [fbRun EXCEPT !.left = @ - 1]
    BY <1>2, <2>1, <2>2 DEF Posted
  <2>3. CASE fbRun' = [fbRun EXCEPT !.finished = TRUE]
    <3>1. fbRun' \in [retrieved : SUBSET FbCalls, left : Int, finished : BOOLEAN]
      BY <2>1, <2>3
    <3>2. fbRun'.retrieved = fbRun.retrieved
      BY <2>1, <2>3
    <3> QED  BY <1>2, <3>1, <3>2 DEF Posted
  <2> QED  BY <1>2, <2>2, <2>3
<1>3. \A c, k \in {0} \cup FbCalls \cup Chunks :
        /\ Event("present", c, k, fbTime).kind # "retrieve"
        /\ Event("read", c, k, fbTime).kind # "retrieve"
        /\ Event("finish", c, k, fbTime).kind # "retrieve"
  BY DEF Event
<1>4. CASE ObserveUse
  <2>1. PICK e \in Events : AdmitEvent(e) /\ e.kind # "retrieve"
    <3>1. FbType /\ fbRun.retrieved \subseteq FbCalls
      BY DEF FbType
    <3> QED  BY <1>3, <1>4, <3>1, EventTyped DEF ObserveUse
  <2>2. fbRun' = [fbRun EXCEPT !.left = @ - 1]
    BY <1>4 DEF ObserveUse
  <2> QED  BY <1>2, <2>1, <2>2
<1>5. CASE FinishRun
  <2>1. Event("finish", 0, 0, fbTime) \in Events
    BY EventTyped
  <2> QED  BY <1>2, <1>3, <1>5, <2>1 DEF FinishRun
<1> QED  BY <1>1, <1>4, <1>5, EventTyped DEF Observe

(* Abandoning empties the queue, the hand, the maps and the windows.       *)
LEMMA CountedInNat ==
  ASSUME NEW q \in Seq(Events)
  PROVE  CountedIn(q) \in Nat
<1>1. DOMAIN q = 1 .. Len(q) /\ Len(q) \in Nat
  OBVIOUS
<1>2. IsFiniteSet(1 .. Len(q))
  BY <1>1, FS_Interval
<1>3. IsFiniteSet({i \in DOMAIN q : Counted(q[i])})
  BY <1>1, <1>2, FS_Subset
<1> QED  BY <1>3, FS_CardinalityType DEF CountedIn

LEMMA AbandonTyped ==
  ASSUME FbType, Abandon
  PROVE  /\ fbReport' \in [attempted : Nat, completed : Nat, dropped : Nat]
         /\ fbQueue' \in Seq(Events) /\ fbHand' = NoEvent
         /\ fbPending' = {} /\ fbJoined' = {} /\ fbCredited' = {}
         /\ fbInteracted' = {} /\ fbWindows' \in [FbCalls -> Int]
<1>1. Append(fbQueue, fbHand) \in Seq(Events)
  BY DEF FbType
<1>2. CountedIn(Append(fbQueue, fbHand)) \in Nat
  BY <1>1, CountedInNat
<1>3. fbReport' \in [attempted : Nat, completed : Nat, dropped : Nat]
  <2> DEFINE lost == CountedIn(Append(fbQueue, fbHand))
  <2>1. fbReport' = [fbReport EXCEPT !.dropped = @ + lost]
    BY DEF Abandon
  <2>2. fbReport \in [attempted : Nat, completed : Nat, dropped : Nat]
    BY DEF FbType
  <2>3. lost \in Nat
    BY <1>2
  <2> HIDE DEF lost
  <2> QED  BY <2>1, <2>2, <2>3
<1>4. fbQueue' \in Seq(Events)
  BY DEF Abandon
<1> QED  BY <1>3, <1>4 DEF Abandon, Discard, Never

LEMMA EndedTyped ==
  ASSUME FbType, NEW outcome, Ended(outcome)
  PROVE  /\ fbReport' \in [attempted : Nat, completed : Nat, dropped : Nat]
         /\ fbHand' = NoEvent /\ fbWorker' = "top"
         /\ UNCHANGED <<fbTime, fbRun, fbQueue, fbStopped, fbTimedOut, fbCloser>>
BY DEF FbType, Ended

LEMMA SweptTyped ==
  ASSUME FbType, NEW cs, Swept(cs)
  PROVE  fbNegative' \in [Pairs -> Nat]
BY BumpTyped DEF Swept, FbType

LEMMA SweepStopsSwept ==
  ASSUME NEW gone, SweepStops(gone)
  PROVE  \E cs \in SUBSET AllExpired : Swept(cs)
BY DEF SweepStops

LEMMA TypeStep == ASSUME FbType, [FbNext]_fbVars PROVE FbType'
<1> USE DEF joins, collector, store, admission
<1>1. CASE Observe
  <2>1. PICK e \in Events : Posted(e)
    BY <1>1, ObservePosts
  <2> QED  BY <2>1, AdmitEffect DEF Posted, FbType
<1>2. CASE WorkerAbandons \/ ContextDone
  <2>1. Abandon /\ fbWorker' \in Places
    BY <1>2 DEF WorkerAbandons, ContextDone, Places
  <2>2. UNCHANGED <<fbTime, fbRun, fbPositive, fbNegative>>
    BY <1>2 DEF WorkerAbandons, ContextDone
  <2> QED  BY <2>1, <2>2, AbandonTyped, NoEventIs DEF FbType
<1>3. CASE WorkerGoesOn
  BY <1>3 DEF WorkerGoesOn, FbType, Places
<1>4. CASE Dequeue
  <2>1. fbHand' \in Events /\ fbQueue' \in Seq(Events)
    BY <1>4, HeadTailProperties DEF Dequeue, FbType
  <2> QED  BY <1>4, <2>1 DEF Dequeue, FbType, Places
<1>5. CASE ParkedStops \/ CloseStops \/ CloseTimesOut \/ CloseReports \/ TimePasses
  BY <1>5
  DEF ParkedStops, CloseStops, CloseTimesOut, CloseReports, TimePasses, FbType, Places
<1>6. CASE HandleRetrieve
  <2>1. Ended("ok") /\ fbHand.call \in FbCalls
    BY <1>6 DEF HandleRetrieve, FbType, Events
  <2> QED  BY <1>6, <2>1, EndedTyped, NoEventIs DEF HandleRetrieve, FbType, Places
<1>7. CASE HandlePresentation
  <2>1. Ended("ok") \/ Ended("write")
    BY <1>7 DEF HandlePresentation
  <2>2. fbHand.call \in FbCalls /\ fbHand.at \in Int
    BY <1>7 DEF HandlePresentation, FbType, Events
  <2>3. /\ fbPending' \subseteq FbCalls /\ fbJoined' \subseteq FbCalls
        /\ fbWindows' \in [FbCalls -> Int]
    BY <1>7, <2>2 DEF HandlePresentation, FbType
  <2> QED  BY <1>7, <2>1, <2>3, EndedTyped, NoEventIs
           DEF HandlePresentation, FbType, Places
<1>8. CASE PresentationMisses
  BY <1>8, EndedTyped, NoEventIs DEF PresentationMisses, FbType, Places
<1>9. CASE HandleRead
  <2>1. Ended("ok") \/ Ended("maintenance") \/ Ended("write")
    BY <1>9 DEF HandleRead
  <2>2. Recorded \subseteq Pairs
    <3>1. fbHand.chunk \in Chunks
      BY <1>9 DEF HandleRead, FbType, Events
    <3> QED  BY <3>1 DEF Recorded, Credits, FbType, Pairs
  <2>3. fbPositive' \in [Pairs -> Nat]
    BY <1>9, BumpTyped DEF HandleRead, FbType
  <2>4. fbCredited' \subseteq Pairs /\ fbInteracted' \subseteq Pairs
    BY <1>9, <2>2 DEF HandleRead, FbType
  <2> QED  BY <1>9, <2>1, <2>3, <2>4, EndedTyped, NoEventIs
           DEF HandleRead, FbType, Places
<1>10. CASE HandleFinish
  BY <1>10, EndedTyped, NoEventIs DEF HandleFinish, FbType, Places
<1>11. CASE Sweep
  <2>1. fbNegative' \in [Pairs -> Nat]
    BY <1>11, SweptTyped, SweepStopsSwept DEF Sweep
  <2>2. PICK cs : Gone(cs)
    BY <1>11 DEF Sweep
  <2>3. fbWindows' \in [FbCalls -> Int] /\ fbJoined' \subseteq FbCalls
    BY <2>2 DEF Gone, FbType, Never
  <2> QED  BY <1>11, <2>1, <2>3 DEF Sweep, FbType, Places
<1>12. CASE FinalSweep
  <2>1. fbNegative' \in [Pairs -> Nat]
    BY <1>12, SweptTyped, SweepStopsSwept DEF FinalSweep
  <2> QED  BY <1>12, <2>1 DEF FinalSweep, Discard, FbType, Places, Never
<1>13. CASE UNCHANGED fbVars
  BY <1>13 DEF fbVars, FbType
<1> QED
  BY <1>1, <1>2, <1>3, <1>4, <1>5, <1>6, <1>7, <1>8, <1>9, <1>10, <1>11, <1>12,
     <1>13 DEF FbNext, Observe

-----------------------------------------------------------------------------
(* Nothing but the observers and the worker's handling changes what a call *)
(* is judged by.                                                           *)
Judged == <<fbPending, fbJoined, fbCredited, fbInteracted, fbWindows,
            fbPositive, fbNegative>>

LEMMA SameJudged ==
  ASSUME UNCHANGED Judged, NEW c \in FbCalls
  PROVE  /\ Fresh(c)' <=> Fresh(c)
         /\ \A k \in Chunks : WindowGood(c, k)' <=> WindowGood(c, k)
         /\ c \in fbPending' <=> c \in fbPending
         /\ c \in fbJoined' => c \in fbJoined
BY DEF Judged, Fresh, Untold, WindowGood

(* One signal for a pair that has none leaves every pair judged once.      *)
LEMMA BumpOnce ==
  ASSUME FbType, JudgedOnce, NEW S \in SUBSET Pairs,
         \A p \in S : fbPositive[p] = 0 /\ fbNegative[p] = 0,
         \/ fbPositive' = Bump(fbPositive, S) /\ fbNegative' = fbNegative
         \/ fbNegative' = Bump(fbNegative, S) /\ fbPositive' = fbPositive
  PROVE  JudgedOnce'
<1> SUFFICES ASSUME NEW p \in Pairs PROVE fbPositive'[p] + fbNegative'[p] <= 1
  BY DEF JudgedOnce
<1>1. /\ fbPositive[p] \in Nat /\ fbNegative[p] \in Nat
      /\ fbPositive[p] + fbNegative[p] <= 1
  BY DEF FbType, JudgedOnce
<1>2. CASE p \in S
  <2>1. fbPositive[p] = 0 /\ fbNegative[p] = 0
    BY <1>2
  <2>2. \/ fbPositive'[p] = fbPositive[p] + 1 /\ fbNegative'[p] = fbNegative[p]
        \/ fbNegative'[p] = fbNegative[p] + 1 /\ fbPositive'[p] = fbPositive[p]
    BY <1>2 DEF Bump
  <2> QED  BY <2>1, <2>2
<1>3. CASE p \notin S
  <2>1. fbPositive'[p] = fbPositive[p] /\ fbNegative'[p] = fbNegative[p]
    BY <1>3 DEF Bump
  <2> QED  BY <1>1, <2>1
<1> QED  BY <1>2, <1>3

(* Sweeping gives weak negatives only to pairs that were told nothing.     *)
LEMMA SweepOnce ==
  ASSUME FbType, JudgedOnce, \A c \in FbCalls : CallGood(c),
         NEW cs \in SUBSET AllExpired, Swept(cs), fbPositive' = fbPositive
  PROVE  JudgedOnce'
<1>1. WeakNegatives(cs) \in SUBSET Pairs
  BY DEF WeakNegatives, AllExpired, Pairs
<1>2. ASSUME NEW p \in WeakNegatives(cs)
      PROVE  fbPositive[p] = 0 /\ fbNegative[p] = 0
  <2>1. PICK c \in cs, k \in Chunks : p = <<c, k>>
    BY DEF WeakNegatives
  <2>2. c \in FbCalls /\ fbWindows[c] # Never /\ p \notin fbInteracted
    BY DEF AllExpired, Expired, WeakNegatives
  <2>3. WindowGood(c, k)
    BY <2>2 DEF CallGood
  <2> QED  BY <2>1, <2>2, <2>3 DEF WindowGood
<1> QED  BY <1>1, <1>2, BumpOnce DEF Swept

(* An event leaves the hand.                                               *)
LEMMA HandCleared ==
  ASSUME NEW c \in FbCalls, AnnouncedOnce(c), fbHand' = NoEvent,
         fbQueue' = fbQueue
  PROVE  /\ AnnouncedOnce(c)'
         /\ Announced(c)' => Announced(c) /\ ~RetrieveOf(fbHand, c)
<1>1. ~RetrieveOf(NoEvent, c)
  BY NoEventIs DEF RetrieveOf
<1> QED  BY <1>1 DEF AnnouncedOnce, Announced

(* An observer's event goes to the end of the queue.                       *)
LEMMA PostedGood ==
  ASSUME FbType, NEW e \in Events, Posted(e), NEW c \in FbCalls, CallGood(c)
  PROVE  CallGood(c)'
<1>1. /\ fbQueue' = fbQueue \/ fbQueue' = Append(fbQueue, e)
      /\ fbHand' = fbHand /\ UNCHANGED Judged
  BY AdmitEffect DEF Posted, Judged, joins, collector, store
<1>2. fbQueue \in Seq(Events)
  BY DEF FbType
<1>3. Announced(c)' => Announced(c) \/ RetrieveOf(e, c)
  BY <1>1, <1>2 DEF Announced
<1>4. RetrieveOf(e, c) =>
        /\ c \notin fbRun.retrieved /\ c \in fbRun'.retrieved
        /\ ~Announced(c) /\ c \notin fbPending /\ Fresh(c)
  BY DEF Posted, RetrieveOf, CallGood
<1>5. AnnouncedOnce(c)'
  <2>1. AnnouncedOnce(c)
    BY DEF CallGood
  <2>2. CASE fbQueue' = fbQueue
    BY <1>1, <2>1, <2>2 DEF AnnouncedOnce
  <2>3. CASE fbQueue' = Append(fbQueue, e)
    <3>1. \A i \in DOMAIN fbQueue' :
            \/ i \in DOMAIN fbQueue /\ fbQueue'[i] = fbQueue[i]
            \/ i = Len(fbQueue) + 1 /\ fbQueue'[i] = e
      BY <1>2, <2>3
    <3>2. RetrieveOf(e, c) =>
            /\ ~RetrieveOf(fbHand, c)
            /\ \A i \in DOMAIN fbQueue : ~RetrieveOf(fbQueue[i], c)
      BY <1>4 DEF Announced
    <3> QED  BY <1>1, <2>1, <3>1, <3>2 DEF AnnouncedOnce
  <2> QED  BY <1>1, <2>2, <2>3
<1>6. c \notin fbRun'.retrieved => c \notin fbRun.retrieved
  BY DEF Posted
<1>7. c \in fbJoined' => fbWindows'[c] # Never
  BY <1>1 DEF Judged, CallGood
<1> QED  BY <1>1, <1>3, <1>4, <1>5, <1>6, <1>7, SameJudged DEF CallGood

(* The worker takes the head of the queue with an empty hand.              *)
LEMMA DequeuedGood ==
  ASSUME FbType, Dequeue, NEW c \in FbCalls, CallGood(c)
  PROVE  CallGood(c)'
<1>1. /\ fbQueue \in Seq(Events) /\ fbQueue # <<>> /\ fbHand = NoEvent
      /\ fbHand' = fbQueue[1] /\ fbQueue' = Tail(fbQueue)
  BY DEF Dequeue, FbType
<1>2. UNCHANGED Judged /\ UNCHANGED fbRun
  BY DEF Dequeue, Judged, joins, collector, store
<1>3. /\ 1 \in DOMAIN fbQueue
      /\ \A i \in DOMAIN fbQueue' :
           i + 1 \in DOMAIN fbQueue /\ i + 1 # 1 /\ fbQueue'[i] = fbQueue[i + 1]
  BY <1>1
<1>4. Announced(c)' => Announced(c)
  BY <1>1, <1>3 DEF Announced
<1>5. AnnouncedOnce(c)'
  <2>1. ASSUME NEW i \in DOMAIN fbQueue', NEW j \in DOMAIN fbQueue',
               RetrieveOf(fbQueue'[i], c), RetrieveOf(fbQueue'[j], c)
        PROVE  i = j
    <3>1. i + 1 = j + 1
      BY <1>3, <2>1 DEF CallGood, AnnouncedOnce
    <3>2. i \in Int /\ j \in Int
      BY <1>1
    <3> QED  BY <3>1, <3>2
  <2>2. ASSUME RetrieveOf(fbHand', c), NEW i \in DOMAIN fbQueue'
        PROVE  ~RetrieveOf(fbQueue'[i], c)
    BY <1>1, <1>3, <2>2 DEF CallGood, AnnouncedOnce
  <2> QED  BY <2>1, <2>2 DEF AnnouncedOnce
<1>6. c \in fbJoined' => fbWindows'[c] # Never
  BY <1>2 DEF Judged, CallGood
<1> QED  BY <1>2, <1>4, <1>5, <1>6, SameJudged DEF CallGood

(* A retrieval becomes pending: it is announced no more, and still fresh.  *)
LEMMA RetrieveGood ==
  ASSUME FbType, HandleRetrieve, NEW c \in FbCalls, CallGood(c)
  PROVE  CallGood(c)'
<1>1. /\ fbQueue' = fbQueue /\ fbHand' = NoEvent /\ fbRun' = fbRun
      /\ fbHand.kind = "retrieve" /\ fbPending' = fbPending \cup {fbHand.call}
      /\ UNCHANGED <<fbJoined, fbCredited, fbInteracted, fbWindows, fbPositive,
                     fbNegative>>
  BY DEF HandleRetrieve, Ended, collector, store
<1>2. /\ AnnouncedOnce(c)'
      /\ Announced(c)' => Announced(c) /\ c # fbHand.call
  BY <1>1, HandCleared DEF CallGood, RetrieveOf
<1>3. c = fbHand.call => Announced(c)
  BY <1>1 DEF Announced, RetrieveOf
<1>4. /\ Fresh(c)' <=> Fresh(c)
      /\ \A k \in Chunks : WindowGood(c, k)' <=> WindowGood(c, k)
  BY <1>1 DEF Fresh, Untold, WindowGood
<1> QED  BY <1>1, <1>2, <1>3, <1>4 DEF CallGood

(* A presentation joins a pending call, whose window opens untold.         *)
LEMMA PresentationGood ==
  ASSUME FbType, HandlePresentation, ~Spent', NEW c \in FbCalls, CallGood(c)
  PROVE  CallGood(c)'
<1> DEFINE d == fbHand.call
<1>0. fbWorker' = "top" /\ ~fbDisabled'
  BY DEF HandlePresentation, Ended, Spent
<1>1. /\ fbWindows' = [fbWindows EXCEPT ![d] = fbHand.at]
      /\ fbPending' = fbPending \ {d} /\ fbJoined' = fbJoined \cup {d}
  BY <1>0 DEF HandlePresentation, Ended, DisabledOnError
<1>2. /\ fbQueue' = fbQueue /\ fbHand' = NoEvent /\ fbRun' = fbRun
      /\ d \in fbPending /\ d \in FbCalls /\ fbHand.at \in Nat
      /\ UNCHANGED <<fbCredited, fbInteracted, fbPositive, fbNegative>>
  BY DEF HandlePresentation, Ended, Joins, store, FbType, Events
<1>3. /\ AnnouncedOnce(c)'
      /\ Announced(c)' => Announced(c)
  BY <1>2, HandCleared DEF CallGood
<1>4. CASE c = d
  <2>1. Fresh(c) /\ ~Announced(c) /\ c \in fbRun.retrieved
    BY <1>2, <1>4 DEF CallGood
  <2>2. fbWindows'[c] # Never
    BY <1>1, <1>2, <1>4 DEF Never, FbType
  <2>3. \A k \in Chunks : WindowGood(c, k)'
    BY <1>2, <2>1 DEF Fresh, Untold, WindowGood
  <2>4. c \notin fbPending' /\ c \in fbRun'.retrieved /\ ~Announced(c)'
    BY <1>1, <1>2, <1>3, <1>4, <2>1
  <2> HIDE DEF d
  <2> QED  BY <1>3, <2>2, <2>3, <2>4 DEF CallGood
<1>5. CASE c # d
  <2>1. /\ fbWindows'[c] = fbWindows[c]
        /\ c \in fbPending' <=> c \in fbPending
        /\ c \in fbJoined' <=> c \in fbJoined
    BY <1>1, <1>5 DEF FbType
  <2>2. /\ Fresh(c)' <=> Fresh(c)
        /\ \A k \in Chunks : WindowGood(c, k)' <=> WindowGood(c, k)
    BY <1>2, <2>1 DEF Fresh, Untold, WindowGood
  <2> QED  BY <1>2, <1>3, <2>1, <2>2 DEF CallGood
<1> QED  BY <1>4, <1>5

(* A read credits each joined call with the chunk once.                    *)
LEMMA RecordedUntold ==
  ASSUME FbType, HandleRead, \A c \in FbCalls : CallGood(c)
  PROVE  /\ Recorded \in SUBSET Pairs
         /\ \A p \in Recorded : fbPositive[p] = 0 /\ fbNegative[p] = 0
         /\ \A c \in FbCalls, k \in Chunks :
              <<c, k>> \in Recorded => c \in fbJoined
<1>1. fbHand.chunk \in Chunks /\ fbJoined \subseteq FbCalls
  BY DEF HandleRead, FbType, Events
<1>2. ASSUME NEW p \in Recorded
      PROVE  /\ p \in Pairs /\ p = <<p[1], p[2]>> /\ p[1] \in fbJoined
             /\ fbPositive[p] = 0 /\ fbNegative[p] = 0
  <2>1. PICK c \in fbJoined : p = <<c, fbHand.chunk>> /\ p \notin fbCredited
    BY DEF Recorded, Credits
  <2>2. WindowGood(c, fbHand.chunk) /\ fbWindows[c] # Never
    BY <1>1 DEF CallGood
  <2> QED  BY <1>1, <2>1, <2>2 DEF WindowGood, Pairs
<1> QED  BY <1>2

LEMMA ReadGood ==
  ASSUME FbType, HandleRead, ~Spent', \A c \in FbCalls : CallGood(c),
         NEW c \in FbCalls
  PROVE  CallGood(c)'
<1>0. fbWorker' = "top" /\ ~fbDisabled'
  BY DEF HandleRead, Ended, Spent
<1>1. /\ fbPositive' = Bump(fbPositive, Recorded)
      /\ fbInteracted' = fbInteracted \cup Recorded
      /\ fbCredited' = fbCredited \cup Recorded
  BY <1>0 DEF HandleRead, Ended, DisabledOnError
<1>2. /\ fbQueue' = fbQueue /\ fbHand' = NoEvent /\ fbRun' = fbRun
      /\ UNCHANGED <<fbPending, fbJoined, fbWindows, fbNegative>>
  BY DEF HandleRead, Ended
<1>3. /\ AnnouncedOnce(c)'
      /\ Announced(c)' => Announced(c)
  BY <1>2, HandCleared DEF CallGood
<1>4. ASSUME NEW k \in Chunks
      PROVE  /\ <<c, k>> \in Recorded =>
                  /\ c \in fbJoined /\ fbPositive[<<c, k>>] = 0
                  /\ fbPositive'[<<c, k>>] = 1
             /\ <<c, k>> \notin Recorded =>
                  fbPositive'[<<c, k>>] = fbPositive[<<c, k>>]
  <2>1. <<c, k>> \in Pairs
    BY DEF Pairs
  <2> QED  BY <1>1, <2>1, RecordedUntold DEF Bump
<1>5. Fresh(c) => Fresh(c)'
  BY <1>1, <1>2, <1>4 DEF Fresh, Untold
<1>6. ASSUME NEW k \in Chunks PROVE WindowGood(c, k)'
  BY <1>1, <1>2, <1>4 DEF WindowGood, CallGood
<1>7. c \in fbJoined' => fbWindows'[c] # Never
  BY <1>2 DEF CallGood
<1>8. CallGood(c)
  OBVIOUS
<1> QED  BY <1>2, <1>3, <1>5, <1>6, <1>7, <1>8 DEF CallGood

(* A sweep that succeeds closes the expired windows.                       *)
LEMMA SweepGood ==
  ASSUME FbType, Sweep, ~Spent', NEW c \in FbCalls, CallGood(c)
  PROVE  CallGood(c)'
<1>0. fbWorker' = "top" /\ ~fbDisabled'
  BY DEF Sweep, Spent
<1>1. Swept(AllExpired) /\ Gone(AllExpired)
  BY <1>0 DEF Sweep
<1>2. /\ fbQueue' = fbQueue /\ fbHand' = fbHand /\ fbRun' = fbRun
      /\ UNCHANGED <<fbPending, fbCredited, fbInteracted, fbPositive>>
  BY DEF Sweep
<1>3. (Announced(c)' <=> Announced(c)) /\ (AnnouncedOnce(c)' <=> AnnouncedOnce(c))
  BY <1>2 DEF Announced, AnnouncedOnce
<1>4. CASE c \in AllExpired
  <2>1. fbWindows[c] # Never
    BY <1>4 DEF AllExpired, Expired
  <2>2. fbWindows'[c] = Never /\ c \notin fbJoined'
    BY <1>1, <1>4 DEF Gone
  <2>3. ~Fresh(c)
    BY <2>1 DEF Fresh
  <2>4. \A k \in Chunks : WindowGood(c, k)'
    BY <2>2 DEF WindowGood
  <2> QED  BY <1>2, <1>3, <2>2, <2>3, <2>4 DEF CallGood
<1>5. CASE c \notin AllExpired
  <2>1. /\ fbWindows'[c] = fbWindows[c]
        /\ c \in fbJoined' <=> c \in fbJoined
    BY <1>1, <1>5 DEF Gone
  <2>2. \A k \in Chunks : fbNegative'[<<c, k>>] = fbNegative[<<c, k>>]
    BY <1>1, <1>5 DEF Swept, Bump, WeakNegatives, Pairs
  <2>3. /\ Fresh(c)' <=> Fresh(c)
        /\ \A k \in Chunks : WindowGood(c, k)' <=> WindowGood(c, k)
    BY <1>2, <2>1, <2>2 DEF Fresh, Untold, WindowGood
  <2> QED  BY <1>2, <1>3, <2>1, <2>3 DEF CallGood
<1> QED  BY <1>4, <1>5

LEMMA JudgeStep ==
  ASSUME JudgeInv, [FbNext]_fbVars
  PROVE  JudgeInv'
<1> USE DEF joins, collector, store, admission
<1> DEFINE AllGood == \A c \in FbCalls : CallGood(c)
           Goal == JudgedOnce' /\ (Spent' \/ AllGood')
<1>0. FbType /\ JudgedOnce /\ (Spent \/ AllGood)
  BY DEF JudgeInv
<1> SUFFICES Goal
  BY <1>0, TypeStep DEF JudgeInv
<1>1. UNCHANGED <<fbPositive, fbNegative>> => JudgedOnce'
  BY <1>0 DEF JudgedOnce
<1>2. CASE Observe
  <2>1. PICK e \in Events : Posted(e)
    BY <1>0, <1>2, ObservePosts
  <2>2. /\ UNCHANGED <<fbPositive, fbNegative, fbWorker>>
        /\ fbDisabled => fbDisabled'
    BY <1>0, <2>1, AdmitEffect DEF Posted
  <2>3. Spent => Spent'
    BY <2>2 DEF Spent
  <2>4. AllGood => AllGood'
    BY <1>0, <2>1, PostedGood
  <2> QED  BY <1>0, <1>1, <2>2, <2>3, <2>4
<1>3. CASE WorkerAbandons \/ ContextDone
  <2>1. Spent' /\ UNCHANGED <<fbPositive, fbNegative>>
    BY <1>3 DEF WorkerAbandons, ContextDone, Spent
  <2> QED  BY <1>1, <2>1
<1>4. ASSUME UNCHANGED Judged, UNCHANGED <<fbRun, fbQueue, fbHand>>
      PROVE  JudgedOnce' /\ (AllGood => AllGood')
  BY <1>1, <1>4
  DEF Judged, CallGood, Fresh, Untold, WindowGood, Announced, AnnouncedOnce
<1>5. CASE WorkerGoesOn
  <2>1. ~Spent
    BY <1>5 DEF WorkerGoesOn, Spent
  <2>2. UNCHANGED Judged /\ UNCHANGED <<fbRun, fbQueue, fbHand>>
    BY <1>5 DEF WorkerGoesOn, Judged
  <2> QED  BY <1>0, <1>4, <2>1, <2>2
<1>6. CASE Dequeue
  <2>1. ~Spent
    BY <1>6 DEF Dequeue, Spent
  <2>2. UNCHANGED <<fbPositive, fbNegative>>
    BY <1>6 DEF Dequeue
  <2> QED  BY <1>0, <1>1, <1>6, <2>1, <2>2, DequeuedGood
<1>7. CASE ParkedStops \/ CloseStops \/ CloseTimesOut \/ CloseReports \/ TimePasses
  <2>1. Spent => Spent'
    BY <1>7
    DEF ParkedStops, CloseStops, CloseTimesOut, CloseReports, TimePasses, Spent
  <2>2. UNCHANGED Judged /\ UNCHANGED <<fbRun, fbQueue, fbHand>>
    BY <1>7
    DEF ParkedStops, CloseStops, CloseTimesOut, CloseReports, TimePasses, Judged
  <2> QED  BY <1>0, <1>4, <2>1, <2>2
<1>8. fbWorker \in {"handle", "select"} => AllGood
  BY <1>0 DEF Spent
<1>9. CASE HandleRetrieve
  BY <1>0, <1>1, <1>8, <1>9, RetrieveGood DEF HandleRetrieve
<1>10. CASE HandlePresentation
  BY <1>0, <1>1, <1>8, <1>10, PresentationGood DEF HandlePresentation
<1>11. CASE PresentationMisses
  <2>1. AllGood /\ UNCHANGED Judged /\ UNCHANGED <<fbRun, fbQueue>>
        /\ fbHand' = NoEvent
    BY <1>8, <1>11 DEF PresentationMisses, Ended, Judged
  <2>2. ASSUME NEW c \in FbCalls PROVE CallGood(c)'
    <3>1. CallGood(c) /\ AnnouncedOnce(c)
      BY <2>1 DEF CallGood
    <3>2. AnnouncedOnce(c)' /\ (Announced(c)' => Announced(c))
      BY <2>1, <3>1, HandCleared
    <3>3. c \in fbJoined' => fbWindows'[c] # Never
      BY <2>1, <3>1 DEF Judged, CallGood
    <3> QED  BY <2>1, <3>1, <3>2, <3>3, SameJudged DEF CallGood
  <2> QED  BY <1>1, <2>1, <2>2 DEF Judged
<1>12. CASE HandleRead
  <2>1. AllGood
    BY <1>8, <1>12 DEF HandleRead
  <2>2. JudgedOnce'
    <3>1. \/ UNCHANGED <<fbPositive, fbNegative>>
          \/ fbPositive' = Bump(fbPositive, Recorded) /\ fbNegative' = fbNegative
      BY <1>12 DEF HandleRead
    <3>2. /\ Recorded \in SUBSET Pairs
          /\ \A p \in Recorded : fbPositive[p] = 0 /\ fbNegative[p] = 0
      BY <1>0, <1>12, <2>1, RecordedUntold
    <3> QED  BY <1>0, <1>1, <3>1, <3>2, BumpOnce
  <2>3. Spent' \/ AllGood'
    BY <1>0, <1>12, <2>1, ReadGood
  <2> QED  BY <2>2, <2>3
<1>13. CASE HandleFinish
  <2>1. /\ AllGood /\ fbHand' = NoEvent /\ UNCHANGED <<fbRun, fbQueue>>
        /\ fbPending' = {} /\ fbJoined' = {}
        /\ UNCHANGED <<fbCredited, fbWindows, fbInteracted, fbPositive, fbNegative>>
    BY <1>8, <1>13 DEF HandleFinish, Ended
  <2>2. ASSUME NEW c \in FbCalls PROVE CallGood(c)'
    <3>1. CallGood(c) /\ AnnouncedOnce(c)
      BY <2>1 DEF CallGood
    <3>2. AnnouncedOnce(c)' /\ (Announced(c)' => Announced(c))
      BY <2>1, <3>1, HandCleared
    <3>3. /\ Fresh(c) => Fresh(c)'
          /\ \A k \in Chunks : WindowGood(c, k)' <=> WindowGood(c, k)
      BY <2>1 DEF Fresh, Untold, WindowGood
    <3> QED  BY <2>1, <3>1, <3>2, <3>3 DEF CallGood
  <2> QED  BY <1>1, <2>1, <2>2
<1>14. CASE Sweep \/ FinalSweep
  <2>1. AllGood /\ fbPositive' = fbPositive
    BY <1>8, <1>14 DEF Sweep, FinalSweep
  <2>2. PICK cs \in SUBSET AllExpired : Swept(cs)
    BY <1>14, SweepStopsSwept DEF Sweep, FinalSweep
  <2>3. JudgedOnce'
    BY <1>0, <2>1, <2>2, SweepOnce
  <2>4. FinalSweep => Spent'
    BY DEF FinalSweep, Spent
  <2>5. Sweep => Spent' \/ AllGood'
    BY <1>0, <2>1, SweepGood
  <2> QED  BY <1>14, <2>3, <2>4, <2>5
<1>15. CASE UNCHANGED fbVars
  <2>1. (Spent => Spent') /\ UNCHANGED Judged /\ UNCHANGED <<fbRun, fbQueue, fbHand>>
    BY <1>15 DEF fbVars, Spent, Judged
  <2> QED  BY <1>0, <1>4, <2>1
<1> HIDE DEF Goal
<1> QED
  BY <1>2, <1>3, <1>5, <1>6, <1>7, <1>9, <1>10, <1>11, <1>12, <1>13, <1>14, <1>15
  DEF FbNext, Observe

LEMMA TypeInit == FbInit => FbType
<1>1. fbQueue = <<>> => fbQueue \in Seq(Events)
  OBVIOUS
<1> QED  BY <1>1, NoEventIs, FbBounds DEF FbInit, FbType, Places, Never

LEMMA TypeAlways == FbSpec => []FbType
BY TypeInit, TypeStep, PTL DEF FbSpec

(* No retrieval judges a chunk twice: whatever the order of posts, joins,  *)
(* reads, sweeps and failures, and even if the store commits and then      *)
(* reports an error, no pair gets a second signal.                         *)
THEOREM NeverJudgedTwice == FbSpec => []JudgedOnce
<1>1. FbInit => JudgeInv
  <2>1. FbInit => JudgedOnce
    BY DEF FbInit, JudgedOnce
  <2>2. ASSUME FbInit, NEW c \in FbCalls PROVE CallGood(c)
    <3>1. \A k \in Chunks : <<c, k>> \in Pairs
      BY DEF Pairs
    <3>2. Fresh(c)
      BY <2>2, <3>1 DEF FbInit, Fresh, Untold
    <3>3. ~Announced(c) /\ AnnouncedOnce(c)
      BY <2>2, NoEventIs DEF FbInit, Announced, AnnouncedOnce, RetrieveOf
    <3>4. \A k \in Chunks : WindowGood(c, k)
      BY <3>2 DEF Fresh, WindowGood
    <3> QED  BY <2>2, <3>2, <3>3, <3>4 DEF FbInit, CallGood
  <2> QED  BY <2>1, <2>2, TypeInit DEF JudgeInv
<1>2. JudgeInv /\ [FbNext]_fbVars => JudgeInv'
  BY JudgeStep
<1>3. JudgeInv => JudgedOnce
  BY DEF JudgeInv
<1> QED  BY <1>1, <1>2, <1>3, PTL DEF FbSpec
-----------------------------------------------------------------------------
(* Counting: an event at the end, an event from the front.                 *)
Weight(e) == IF Counted(e) THEN 1 ELSE 0

LEMMA CountedAppend ==
  ASSUME NEW q \in Seq(Events), NEW e \in Events
  PROVE  CountedIn(Append(q, e)) = CountedIn(q) + Weight(e)
<1> DEFINE S == {i \in DOMAIN q : Counted(q[i])}
           T == {i \in DOMAIN Append(q, e) : Counted(Append(q, e)[i])}
           l == Len(q) + 1
<1>1. /\ DOMAIN q = 1 .. Len(q) /\ Len(q) \in Nat
      /\ DOMAIN Append(q, e) = 1 .. l /\ Append(q, e)[l] = e
      /\ \A i \in 1 .. Len(q) : Append(q, e)[i] = q[i]
  OBVIOUS
<1>2. IsFiniteSet(S) /\ l \notin S
  <2>1. IsFiniteSet(1 .. Len(q))
    BY <1>1, FS_Interval
  <2> QED  BY <1>1, <2>1, FS_Subset
<1>3. T = IF Counted(e) THEN S \cup {l} ELSE S
  BY <1>1
<1>4. Cardinality(S) \in Nat
      /\ Cardinality(S \cup {l}) = Cardinality(S) + 1
  BY <1>2, FS_CardinalityType, FS_AddElement
<1> HIDE DEF S, T, l
<1>5. Cardinality(T) = Cardinality(S) + Weight(e)
  BY <1>3, <1>4 DEF Weight
<1> QED  BY <1>5 DEF CountedIn, S, T

LEMMA CountedTail ==
  ASSUME NEW q \in Seq(Events), q # <<>>
  PROVE  CountedIn(q) = CountedIn(Tail(q)) + Weight(Head(q))
<1> DEFINE t == Tail(q)
           S == {i \in DOMAIN q : Counted(q[i])}
           T == {i \in DOMAIN t : Counted(t[i])}
           f == [i \in T |-> i + 1]
<1>1. /\ DOMAIN q = 1 .. Len(q) /\ Len(q) \in Nat /\ Len(q) >= 1
      /\ DOMAIN t = 1 .. (Len(q) - 1)
      /\ \A i \in 1 .. (Len(q) - 1) : t[i] = q[i + 1]
      /\ Head(q) = q[1]
  OBVIOUS
<1> HIDE DEF t
<1>2. IsFiniteSet(S)
  <2>1. IsFiniteSet(1 .. Len(q))
    BY <1>1, FS_Interval
  <2> QED  BY <1>1, <2>1, FS_Subset
<1>3. IsFiniteSet(T)
  <2>1. IsFiniteSet(1 .. (Len(q) - 1))
    BY <1>1, FS_Interval
  <2> QED  BY <1>1, <2>1, FS_Subset
<1>4. Cardinality(S \ {1}) = Cardinality(T)
  <2>1. f \in [T -> S \ {1}]
    BY <1>1
  <2>2. \A i, j \in T : f[i] = f[j] => i = j
    BY <1>1
  <2>3. ASSUME NEW j \in S \ {1} PROVE \E i \in T : f[i] = j
    <3>1. j - 1 \in T /\ f[j - 1] = j
      BY <1>1
    <3> QED  BY <3>1
  <2>4. f \in Bijection(T, S \ {1})
    BY <2>1, <2>2, <2>3, Fun_IsBij
  <2>5. ExistsBijection(T, S \ {1})
    BY <2>4 DEF ExistsBijection
  <2> QED  BY <1>3, <2>5, FS_Bijection
<1>5. 1 \in S <=> Counted(Head(q))
  BY <1>1
<1>6. /\ Cardinality(S) \in Nat /\ Cardinality(T) \in Nat
      /\ Cardinality(S \ {1}) = IF 1 \in S THEN Cardinality(S) - 1
                                           ELSE Cardinality(S)
  BY <1>2, <1>3, FS_CardinalityType, FS_RemoveElement
<1> HIDE DEF S, T, f
<1>7. Cardinality(S) = Cardinality(T) + Weight(Head(q))
  BY <1>4, <1>5, <1>6 DEF Weight
<1> QED  BY <1>7 DEF CountedIn, S, T, t

LEMMA CountedNone == CountedIn(<<>>) = 0 /\ Weight(NoEvent) = 0
<1>1. {i \in DOMAIN <<>> : Counted(<<>>[i])} = {}
  OBVIOUS
<1>2. ~Counted(NoEvent)
  BY NoEventIs DEF Counted
<1> QED  BY <1>1, <1>2, FS_EmptySet DEF CountedIn, Weight

-----------------------------------------------------------------------------
(* The books of the service: what was attempted is completed, dropped,     *)
(* queued or in the worker's hand.                                         *)
Balanced ==
  fbReport.attempted =
    fbReport.completed + fbReport.dropped + CountedIn(fbQueue) + Weight(fbHand)

(* Nobody posts behind a worker that has stopped reading: it parks only    *)
(* when the service is disabled and ends only after a stop.                *)
Stopping ==
  /\ fbWorker \in {"parked", "done"} => fbQueue = <<>>
  /\ fbWorker = "parked" => fbDisabled
  /\ fbWorker = "done" => fbStopped
  /\ fbTimedOut => fbStopped
  /\ fbCloser # "open" => fbStopped
  /\ fbCloser = "closed" => fbWorker = "done"

LEMMA AdmitBalanced ==
  ASSUME FbType, Balanced, NEW e \in Events, AdmitEvent(e)
  PROVE  Balanced'
<1>1. /\ fbReport \in [attempted : Nat, completed : Nat, dropped : Nat]
      /\ CountedIn(fbQueue) \in Nat /\ fbHand' = fbHand
      /\ Weight(fbHand) \in Nat /\ Weight(e) \in Nat
  BY CountedInNat DEF FbType, AdmitEvent, Weight
<1>2. CountedIn(Append(fbQueue, e)) = CountedIn(fbQueue) + Weight(e)
  BY CountedAppend DEF FbType
<1>3. CASE fbDisabled \/ Len(fbQueue) = FbQueueSize
  <2>1. /\ fbQueue' = fbQueue
        /\ fbReport'.attempted = fbReport.attempted + Weight(e)
        /\ fbReport'.completed = fbReport.completed
        /\ fbReport'.dropped = fbReport.dropped + Weight(e)
    <3>1. fbQueue' = fbQueue /\ Overflow(e)
      BY <1>3 DEF AdmitEvent
    <3>2. CASE Counted(e)
      <4> DEFINE counted == [fbReport EXCEPT !.attempted = @ + 1]
      <4>1. /\ counted \in [attempted : Nat, completed : Nat, dropped : Nat]
            /\ counted.attempted = fbReport.attempted + 1
            /\ counted.completed = fbReport.completed
        BY <1>1
      <4>2. fbReport' = [counted EXCEPT !.dropped = fbReport.dropped + 1]
        BY <3>1, <3>2 DEF Overflow
      <4> HIDE DEF counted
      <4> QED  BY <3>1, <3>2, <4>1, <4>2 DEF Weight
    <3>3. CASE ~Counted(e)
      BY <1>1, <3>1, <3>3 DEF Overflow, Weight
    <3> QED  BY <3>2, <3>3
  <2> QED  BY <1>1, <2>1 DEF Balanced
<1>4. CASE ~(fbDisabled \/ Len(fbQueue) = FbQueueSize)
  <2>1. /\ fbQueue' = Append(fbQueue, e)
        /\ fbReport'.attempted = fbReport.attempted + Weight(e)
        /\ fbReport'.completed = fbReport.completed
        /\ fbReport'.dropped = fbReport.dropped
    BY <1>1, <1>4 DEF AdmitEvent, Weight
  <2> QED  BY <1>1, <1>2, <2>1 DEF Balanced
<1> QED  BY <1>3, <1>4

LEMMA AbandonBalanced ==
  ASSUME FbType, Balanced, Abandon
  PROVE  Balanced'
<1> DEFINE lost == CountedIn(Append(fbQueue, fbHand))
<1>1. lost = CountedIn(fbQueue) + Weight(fbHand)
  BY CountedAppend DEF FbType
<1>2. /\ fbReport \in [attempted : Nat, completed : Nat, dropped : Nat]
      /\ CountedIn(fbQueue) \in Nat /\ Weight(fbHand) \in Nat
  BY CountedInNat DEF FbType, Weight
<1>3. /\ fbReport' = [fbReport EXCEPT !.dropped = @ + lost]
      /\ CountedIn(fbQueue') = 0 /\ Weight(fbHand') = 0
  BY CountedNone DEF Abandon
<1> HIDE DEF lost
<1> QED  BY <1>1, <1>2, <1>3 DEF Balanced

LEMMA EndedBalanced ==
  ASSUME FbType, Balanced, NEW outcome, Ended(outcome)
  PROVE  Balanced'
<1>1. /\ fbReport \in [attempted : Nat, completed : Nat, dropped : Nat]
      /\ CountedIn(fbQueue) \in Nat /\ Weight(fbHand) \in Nat
  BY CountedInNat DEF FbType, Weight
<1>2. fbQueue' = fbQueue /\ Weight(fbHand') = 0
  BY CountedNone DEF Ended
<1>3. /\ fbReport'.attempted = fbReport.attempted
      /\ fbReport'.completed + fbReport'.dropped
           = fbReport.completed + fbReport.dropped + Weight(fbHand)
  BY <1>1 DEF Ended, Weight
<1>4. /\ fbReport'.completed \in Nat /\ fbReport'.dropped \in Nat
  BY EndedTyped
<1> QED  BY <1>1, <1>2, <1>3, <1>4 DEF Balanced

LEMMA BalancedStep ==
  ASSUME FbType, Balanced, [FbNext]_fbVars
  PROVE  Balanced'
<1> USE DEF joins, collector, store, admission
<1>1. CASE Observe
  <2>1. PICK e \in Events : Posted(e)
    BY <1>1, ObservePosts
  <2> QED  BY <2>1, AdmitBalanced DEF Posted
<1>2. CASE WorkerAbandons \/ ContextDone
  BY <1>2, AbandonBalanced DEF WorkerAbandons, ContextDone
<1>3. CASE Dequeue
  <2>1. /\ fbQueue \in Seq(Events) /\ fbQueue # <<>> /\ fbHand = NoEvent
        /\ fbHand' = Head(fbQueue) /\ fbQueue' = Tail(fbQueue)
        /\ fbReport' = fbReport
    BY <1>3 DEF Dequeue, FbType
  <2>2. CountedIn(fbQueue) = CountedIn(fbQueue') + Weight(fbHand')
    BY <2>1, CountedTail
  <2>3. Weight(fbHand) = 0 /\ Weight(fbHand') \in Nat
    BY <2>1, CountedNone DEF Weight
  <2>4. fbQueue' \in Seq(Events)
    BY <2>1
  <2>5. CountedIn(fbQueue') \in Nat /\ CountedIn(fbQueue) \in Nat
    BY <2>1, <2>4, CountedInNat
  <2>6. fbReport \in [attempted : Nat, completed : Nat, dropped : Nat]
    BY DEF FbType
  <2> QED  BY <2>1, <2>2, <2>3, <2>5, <2>6 DEF Balanced
<1>4. ASSUME UNCHANGED <<fbReport, fbQueue, fbHand>> PROVE Balanced'
  BY <1>4 DEF Balanced
<1>5. CASE \/ ParkedStops \/ CloseStops \/ CloseTimesOut \/ CloseReports
           \/ TimePasses \/ WorkerGoesOn \/ Sweep \/ FinalSweep
  BY <1>4, <1>5
  DEF ParkedStops, CloseStops, CloseTimesOut, CloseReports, TimePasses,
      WorkerGoesOn, Sweep, FinalSweep
<1>6. CASE \/ HandleRetrieve \/ HandlePresentation \/ PresentationMisses
           \/ HandleRead \/ HandleFinish
  <2>1. \E outcome : Ended(outcome)
    BY <1>6 DEF HandleRetrieve, HandlePresentation, PresentationMisses,
                HandleRead, HandleFinish
  <2> QED  BY <2>1, EndedBalanced
<1>7. CASE UNCHANGED fbVars
  BY <1>4, <1>7 DEF fbVars
<1> QED
  BY <1>1, <1>2, <1>3, <1>5, <1>6, <1>7 DEF FbNext, Observe

LEMMA StoppingStep ==
  ASSUME FbType, Stopping, [FbNext]_fbVars
  PROVE  Stopping'
<1> USE DEF joins, collector, store, admission
<1>1. CASE Observe
  <2>1. PICK e \in Events : Posted(e)
    BY <1>1, ObservePosts
  <2> QED  BY <2>1 DEF Posted, AdmitEvent, Stopping
<1>2. CASE WorkerAbandons \/ ContextDone
  BY <1>2 DEF WorkerAbandons, ContextDone, Abandon, Stopping
<1>3. CASE WorkerGoesOn \/ Dequeue \/ ParkedStops
  BY <1>3 DEF WorkerGoesOn, Dequeue, ParkedStops, Stopping
<1>4. CASE CloseStops \/ CloseTimesOut \/ CloseReports \/ TimePasses
  BY <1>4 DEF CloseStops, CloseTimesOut, CloseReports, TimePasses, Stopping
<1>5. CASE \/ HandleRetrieve \/ HandlePresentation \/ PresentationMisses
           \/ HandleRead \/ HandleFinish
  <2>1. fbWorker = "handle" /\ \E outcome : Ended(outcome)
    BY <1>5 DEF HandleRetrieve, HandlePresentation, PresentationMisses,
                HandleRead, HandleFinish
  <2> QED  BY <2>1 DEF Ended, Stopping
<1>6. CASE Sweep \/ FinalSweep
  BY <1>6 DEF Sweep, FinalSweep, Stopping
<1>7. CASE UNCHANGED fbVars
  BY <1>7 DEF fbVars, Stopping
<1> QED
  BY <1>1, <1>2, <1>3, <1>4, <1>5, <1>6, <1>7 DEF FbNext, Observe

(* When close reports, nothing is left in the queue and every attempted    *)
(* event was completed or dropped, for any queue size and any race of      *)
(* observers, overflow, store errors, the stop and its timeout.            *)
THEOREM ReportsBalance == FbSpec => []ReportBalances
<1>1. FbInit => Balanced /\ Stopping
  BY CountedNone DEF FbInit, Balanced, Stopping
<1>2. FbType /\ Balanced /\ Stopping /\ [FbNext]_fbVars => Balanced' /\ Stopping'
  BY BalancedStep, StoppingStep
<1>3. FbType /\ Balanced /\ Stopping => ReportBalances
  <2> SUFFICES ASSUME FbType, Balanced, Stopping, fbCloser = "closed"
               PROVE  /\ fbReport.attempted = fbReport.completed + fbReport.dropped
                      /\ fbQueue = <<>>
    BY DEF ReportBalances
  <2>1. fbQueue = <<>> /\ fbHand = NoEvent
    BY DEF Stopping, FbType
  <2>2. CountedIn(fbQueue) = 0 /\ Weight(fbHand) = 0
    BY <2>1, CountedNone
  <2> QED  BY <2>1, <2>2 DEF Balanced, FbType
<1> QED  BY <1>1, <1>2, <1>3, TypeAlways, PTL DEF FbSpec
=============================================================================
