-------------------------- MODULE EdgeEventProofs --------------------------
(***************************************************************************)
(* Theorems about the events EdgeRuntime stores, for every value of its    *)
(* constants: the rule engine and the health monitor decide before the     *)
(* spooler stores, and what is stored still agrees with them.              *)
(***************************************************************************)
EXTENDS EdgeReportProofs

\* A step that only moves a program counter is always seen expanded.
USE DEF MoveCollector, MoveSpooler, MoveSender

-----------------------------------------------------------------------------
(* What a failed spooler takes with it.                                    *)

\* The spooler ended, or is about to, with a worker's failure after a call
\* that raised: what it held is gone.
SpoolerLost ==
  faults > 0 /\ (spc = "raised" \/ (spc = "done" /\ worker_failure))

\* Only a new process, or a start() that outlives the failure, revives it.
LEMMA LostStays ==
  ASSUME IInv, [Next]_vars, ~Crash, ~outlived', ~SpoolerLost'
  PROVE  ~outlived /\ ~SpoolerLost
<1>0. HandOK /\ faults \in Nat /\ faults' \in Nat
  BY StepTypes DEF IInv, TypeOK, ControlTypes
<1>1. CASE Restart
  <2>1. faults' = faults /\ spc = "done"
    BY <1>1 DEF Restart, AllDone, bounds
  <2>2. ~outlived /\ ~(worker_failure /\ faults > 0)
    BY <1>1 DEF Restart
  <2>3. QED BY <2>1, <2>2 DEF SpoolerLost
<1>2. CASE ~Restart
  <2>1. /\ outlived' = outlived /\ faults' >= faults
        /\ worker_failure => worker_failure'
        /\ spc = "raised" => spc' = "raised" \/ (spc' = "done" /\ worker_failure')
        /\ spc = "done" => spc' = "done"
    <3>1. CASE Collector \/ CollectorFault
      BY <1>0, <3>1, CollectorFrame, WorkerSteps
    <3>2. CASE Spooler \/ SpoolerFault \/ CallbackFault
      <4>1. spc = "raised" => spc' = "done" /\ worker_failure'
        BY <3>2 DEF Spooler, SpoolerFault, CallbackFault, SpoolerCheck,
           TakeTransition, TakeItem, GetTimeout, Reserve, ReserveEvent, Store,
           Wake, SpoolerFailed, RecordWorkerFailure
      <4>2. spc # "done"
        BY <3>2 DEF Spooler, SpoolerFault, CallbackFault, SpoolerCheck,
           TakeTransition, TakeItem, GetTimeout, Reserve, ReserveEvent, Store,
           Wake, SpoolerFailed
      <4>3. QED BY <1>0, <3>2, <4>1, <4>2, SpoolerFrame, WorkerSteps
    <3>3. CASE Sender \/ WaitTimeout \/ SenderFault
      BY <1>0, <3>3, SenderFrame, WorkerSteps
    <3>4. CASE Start \/ Flush \/ StopCollector \/ Stop
      <4>1. spc' = spc \/ spc = "new"
        BY <1>0, <3>4 DEF Start, Flush, StopCollector, Stop, StopSpooler,
           StopSender, StopReturns, HandOK
      <4>2. QED BY <1>0, <3>4, <4>1, ControlFrame
    <3>5. CASE UNCHANGED vars
      BY <1>0, <3>5, VarsFrame
    <3>6. QED
      BY <1>2, <3>1, <3>2, <3>3, <3>4, <3>5 DEF Next, Finished
  <2>2. QED BY <1>0, <2>1 DEF SpoolerLost
<1>3. QED BY <1>1, <1>2
-----------------------------------------------------------------------------
(* No incident goes unreported.                                            *)

\* A threshold event at least as severe as status p stands, and no milder
\* window has been stored since the window it names.
CoveredBy(e, p) ==
  /\ e.kind = "THRESHOLD_EXCEEDED"
  /\ STATUS_RANK[e.status] >= STATUS_RANK[p]
  /\ \A u \in spooled : u.kind = "telemetry" /\ e.related <= u.seq =>
       STATUS_RANK[u.status] >= STATUS_RANK[p]

Covered(p) == STATUS_RANK[p] > 0 => \E e \in spooled : CoveredBy(e, p)

\* The rule engine's status is covered, or about to be.
AlarmOK ==
  /\ item.kind = "window" => previous_status = item.status
  /\ spc = "new" => previous_status = "NORMAL"
  /\ ~outlived => \/ SpoolerLost
                  \/ Alarming /\ spc # "wake"
                  \/ Covered(previous_status)

LEMMA Ranks ==
  /\ \A p \in Statuses : STATUS_RANK[p] \in Nat
  /\ STATUS_RANK["NORMAL"] = 0
  /\ \A p \in Statuses : p # "NORMAL" => STATUS_RANK[p] > 0
BY DEF Statuses, STATUS_RANK

\* A milder status is covered by the same event.
LEMMA CoveredMilder ==
  ASSUME TypeOK, NEW p \in Statuses, NEW q \in Statuses, Covered(p),
         STATUS_RANK[q] <= STATUS_RANK[p]
  PROVE  Covered(q)
<1> SUFFICES ASSUME STATUS_RANK[q] > 0 PROVE \E e \in spooled : CoveredBy(e, q)
  BY DEF Covered
<1>1. PICK e \in spooled : CoveredBy(e, p)
  BY Ranks DEF Covered
<1>2. \A m \in spooled : STATUS_RANK[m.status] \in Nat
  BY Ranks DEF TypeOK, BlackboxTypes, Messages
<1>3. CoveredBy(e, q)
  BY <1>1, <1>2, Ranks DEF CoveredBy
<1>4. QED BY <1>3

\* What IncidentReported says of one telemetry message.
ReportedBy(e, t) ==
  /\ e.kind = "THRESHOLD_EXCEEDED" /\ e.related <= t.seq
  /\ STATUS_RANK[e.status] >= STATUS_RANK[t.status]
  /\ ~\E u \in spooled :
       /\ u.kind = "telemetry" /\ e.related <= u.seq /\ u.seq <= t.seq
       /\ STATUS_RANK[u.status] < STATUS_RANK[t.status]

LEMMA IncidentsReported ==
  IncidentReported <=>
    (~outlived =>
       \A t \in spooled : t.kind = "telemetry" /\ t.status # "NORMAL" =>
         \E e \in spooled : ReportedBy(e, t))
BY DEF IncidentReported, ReportedBy

\* A transaction keeps the reports of the incidents stored before it.
LEMMA ReportStays ==
  ASSUME NEW e, NEW t, ReportedBy(e, t), t.seq \in Nat,
         \A m \in spooled' \ spooled : m.seq \in Nat /\ t.seq < m.seq
  PROVE  ReportedBy(e, t)'
<1>1. ASSUME NEW u \in spooled', u.seq <= t.seq PROVE u \in spooled
  BY <1>1
<1>2. QED BY <1>1 DEF ReportedBy

\* The store of a window that raises an alarm: its own event reports it.
LEMMA StoreAlarm ==
  ASSUME IInv, NEW m \in Messages, NEW e \in Messages,
         spooled' = spooled \cup {m, e}, \A n \in spooled : n.seq < m.seq,
         m.kind = "telemetry", e.kind = "THRESHOLD_EXCEEDED",
         e.status = m.status, e.related = m.seq, e.seq = m.seq + 1
  PROVE  ReportedBy(e, m)' /\ Covered(m.status)'
<1>1. /\ m.seq \in Nat /\ STATUS_RANK[m.status] \in Nat
      /\ \A n \in spooled : n.seq \in Nat
  BY Ranks DEF IInv, TypeOK, BlackboxTypes, Messages
<1>2. ASSUME NEW u \in spooled', u.kind = "telemetry", m.seq <= u.seq
      PROVE  u = m
  BY <1>1, <1>2
<1>3. ReportedBy(e, m)'
  BY <1>1, <1>2 DEF ReportedBy
<1>4. CoveredBy(e, m.status)' /\ e \in spooled'
  BY <1>1, <1>2 DEF CoveredBy
<1>5. QED BY <1>3, <1>4 DEF Covered

\* The store of a message that raises none: the standing event reports it.
LEMMA StoreQuietly ==
  ASSUME IInv, EventFollowsTelemetry, NEW m \in Messages,
         spooled' = spooled \cup {m}, \A n \in spooled : n.seq < m.seq,
         NEW p \in Statuses, Covered(p),
         m.kind = "telemetry" => m.status = p
  PROVE  /\ Covered(p)'
         /\ m.kind = "telemetry" /\ m.status # "NORMAL" =>
              \E e \in spooled' : ReportedBy(e, m)'
<1>1. /\ m.seq \in Nat /\ STATUS_RANK[p] \in Nat
      /\ \A n \in spooled : n.seq \in Nat /\ STATUS_RANK[n.status] \in Nat
  BY Ranks DEF IInv, TypeOK, BlackboxTypes, Messages
<1>2. CASE STATUS_RANK[p] > 0
  <2>1. PICK e \in spooled : CoveredBy(e, p)
    BY <1>2 DEF Covered
  <2>2. e.related \in Nat /\ e.related < m.seq
    <3>1. PICK t \in spooled : t.seq = e.related
      BY <2>1 DEF CoveredBy, EventFollowsTelemetry
    <3>2. QED BY <1>1, <3>1
  <2>3. CoveredBy(e, p)'
    BY <1>1, <2>1 DEF CoveredBy
  <2>4. m.kind = "telemetry" => ReportedBy(e, m)'
    BY <1>1, <2>1, <2>2, <2>3 DEF CoveredBy, ReportedBy
  <2>5. QED BY <2>1, <2>3, <2>4 DEF Covered
<1>3. CASE ~(STATUS_RANK[p] > 0)
  <2>1. Covered(p)'
    BY <1>3 DEF Covered
  <2>2. p = "NORMAL"
    BY <1>3, Ranks
  <2>3. QED BY <2>1, <2>2
<1>4. QED BY <1>2, <1>3

LEMMA StoreIncident ==
  ASSUME IInv, ReportInv, AlarmOK, IncidentReported, Store, ~outlived
  PROVE  /\ Covered(previous_status)'
         /\ \A t \in spooled' : t.kind = "telemetry" /\ t.status # "NORMAL" =>
              \E e \in spooled' : ReportedBy(e, t)'
<1>1. PICK m \in Messages :
        /\ m = BuiltFrom(item, m.seq)
        /\ \A n \in spooled : n.seq < m.seq
        /\ spooled' = IF Alarming
                      THEN spooled \cup {m, ThresholdEvent(item, m.seq)}
                      ELSE spooled \cup {m}
        /\ Alarming => ThresholdEvent(item, m.seq) \in Messages
  BY StoreReports DEF ReportInv
<1>2. /\ m.seq \in Nat /\ item \in HandItems /\ item # NoneItem
      /\ \A n \in spooled : n.seq \in Nat
      /\ previous_status \in Statuses /\ UNCHANGED previous_status
      /\ EventFollowsTelemetry /\ spc = "store"
  BY StoresItem
  DEF Messages, IInv, TypeOK, BlackboxTypes, SpoolerTypes, Store, ReportInv
<1>3. /\ item.kind = "window" => m.kind = "telemetry" /\ m.status = previous_status
      /\ item.kind # "window" => m.kind # "telemetry"
  <2>1. item.kind \in {"window", "incomplete"} \cup Transitions
    BY <1>2 DEF HandItems, TransitionItems, NoneItem
  <2>2. QED BY <1>1, <1>2, <2>1, BuiltFields DEF AlarmOK, Transitions
<1>4. /\ Covered(previous_status)'
      /\ m.kind = "telemetry" /\ m.status # "NORMAL" =>
           \E e \in spooled' : ReportedBy(e, m)'
      /\ \A t \in spooled' : t.kind = "telemetry" => t \in spooled \/ t = m
      /\ \A t \in spooled' \ spooled : t.seq \in Nat /\ m.seq <= t.seq
  <2>1. CASE Alarming
    <3>1. PICK e \in Messages : e = ThresholdEvent(item, m.seq)
      BY <1>1, <2>1
    <3>2. /\ e.kind = "THRESHOLD_EXCEEDED" /\ e.status = item.status
          /\ e.related = m.seq /\ e.seq = m.seq + 1
      BY <3>1 DEF ThresholdEvent, Message
    <3>3. m.kind = "telemetry" /\ m.status = item.status /\ previous_status = item.status
      BY <1>3, <2>1 DEF Alarming, AlarmOK
    <3>4. spooled' = spooled \cup {m, e}
      BY <1>1, <2>1, <3>1
    <3>5. ReportedBy(e, m)' /\ Covered(m.status)'
      BY <1>1, <3>2, <3>3, <3>4, StoreAlarm
    <3>6. Covered(previous_status)'
      BY <1>2, <3>3, <3>5 DEF Covered, CoveredBy
    <3>7. QED BY <1>2, <3>2, <3>4, <3>5, <3>6
  <2>2. CASE ~Alarming
    <3>1. Covered(previous_status)
      BY <1>2, <2>2 DEF AlarmOK, SpoolerLost
    <3>2. spooled' = spooled \cup {m}
      BY <1>1, <2>2
    <3>3. /\ \E q \in Statuses : q = previous_status /\ Covered(q)'
          /\ m.kind = "telemetry" /\ m.status # "NORMAL" =>
               \E e \in spooled' : ReportedBy(e, m)'
      BY <1>1, <1>2, <1>3, <3>1, <3>2, StoreQuietly
    <3>4. Covered(previous_status)'
      BY <1>2, <3>3 DEF Covered, CoveredBy
    <3>5. QED BY <1>2, <3>2, <3>3, <3>4
  <2>3. QED BY <2>1, <2>2
<1>5. ASSUME NEW t \in spooled', t.kind = "telemetry", t.status # "NORMAL"
      PROVE  \E e \in spooled' : ReportedBy(e, t)'
  <2>1. CASE t \in spooled
    <3>1. PICK e \in spooled : ReportedBy(e, t)
      BY <1>5, <2>1, IncidentsReported
    <3>2. \A n \in spooled' \ spooled : n.seq \in Nat /\ t.seq < n.seq
      BY <1>1, <1>2, <1>4, <2>1
    <3>3. ReportedBy(e, t)' /\ e \in spooled'
      BY <1>1, <1>2, <2>1, <3>1, <3>2, ReportStays
    <3>4. QED BY <3>3
  <2>2. QED BY <1>4, <1>5, <2>1
<1>6. QED BY <1>4, <1>5

\* What the rule engine keeps agrees with the window in hand, and is covered.
LEMMA AlarmStep ==
  ASSUME IInv, ReportInv, AlarmOK, IncidentReported, [Next]_vars
  PROVE  AlarmOK'
<1>0. /\ TypeOK /\ HandOK /\ previous_status \in Statuses
      /\ faults \in Nat
  BY DEF IInv, TypeOK, SpoolerTypes, ControlTypes
<1>1. CASE Crash
  <2>1. /\ item' = NoneItem /\ previous_status' = "NORMAL"
    BY <1>1 DEF Crash
  <2>2. Covered(previous_status)'
    BY <2>1, Ranks DEF Covered
  <2>3. QED BY <2>1, <2>2 DEF AlarmOK, NoneItem
<1>2. CASE TakeItem
  <2>1. PICK h \in Items \cup {NoneItem} :
          /\ h.kind = "none" =>
               /\ item' = NoneItem /\ spc' = "done"
               /\ previous_status' = previous_status
          /\ h.kind = "incomplete" =>
               /\ item' = h /\ spc' = "reserve"
               /\ previous_status' = previous_status
          /\ h.kind = "window" =>
               /\ item' = [kind |-> "window", status |-> h.status, no |-> h.no,
                           emit |-> Emits(previous_status, h.status)]
               /\ spc' = "reserve" /\ previous_status' = h.status
    BY <1>2, TakeEffect
  <2>2. /\ UNCHANGED spooled /\ spc = "get" /\ item = NoneItem
        /\ UNCHANGED outlived
    BY <1>0, <1>2, SpoolerFrame DEF TakeItem, Spooler, HandOK
  <2>3. h.kind \in {"none", "incomplete", "window"}
    BY DEF Items, NoneItem
  <2>4. h.kind = "window" => h.status \in Statuses
    BY DEF Items, NoneItem
  <2>5. ~outlived' => Covered(previous_status)
    BY <2>2 DEF AlarmOK, SpoolerLost, Alarming, NoneItem
  <2>6. CASE h.kind = "window"
    <3>1. CASE Emits(previous_status, h.status)
      BY <2>1, <2>6, <3>1 DEF AlarmOK, Alarming
    <3>2. CASE ~Emits(previous_status, h.status)
      <4>1. STATUS_RANK[h.status] <= STATUS_RANK[previous_status]
        BY <1>0, <2>4, <2>6, <3>2, Ranks DEF Emits
      <4>2. ~outlived' => Covered(h.status)
        BY <1>0, <2>4, <2>5, <2>6, <4>1, CoveredMilder
      <4>3. ~outlived' => Covered(previous_status)'
        BY <2>1, <2>2, <2>6, <4>2 DEF Covered, CoveredBy
      <4>4. QED BY <2>1, <2>6, <4>3 DEF AlarmOK
    <3>3. QED BY <3>1, <3>2
  <2>7. CASE h.kind # "window"
    <3>1. previous_status' = previous_status /\ item'.kind # "window"
          /\ spc' # "new"
      BY <2>1, <2>3, <2>7 DEF NoneItem
    <3>2. ~outlived' => Covered(previous_status)'
      BY <2>2, <2>5, <3>1 DEF Covered, CoveredBy
    <3>3. QED BY <3>1, <3>2 DEF AlarmOK
  <2>8. QED BY <2>6, <2>7
<1>3. CASE Store
  <2>1. /\ UNCHANGED <<item, previous_status, outlived>> /\ spc' = "wake"
    BY <1>3, SpoolerFrame DEF Store, Spooler
  <2>2. ~outlived' => Covered(previous_status)'
    BY <1>3, <2>1, StoreIncident
  <2>3. QED BY <2>1, <2>2 DEF AlarmOK
<1>4. CASE ~Crash /\ ~TakeItem /\ ~Store
  <2>1. UNCHANGED spooled
    BY <1>4, OnlyStoreAdds
  <2>2. /\ previous_status' = previous_status
        /\ item'.kind = "window" => item' = item
        /\ spc' = "new" => spc = "new"
        /\ Alarming => \/ item' = item /\ (spc # "wake" => spc' # "wake")
                       \/ spc = "wake"
                       \/ spc' = "raised" /\ faults' > 0
    <3>1. CASE Spooler \/ SpoolerFault \/ CallbackFault
      <4>1. CASE TakeTransition
        <5>1. \/ item' = item
              \/ transition_queue # <<>> /\ item' = Head(transition_queue)
          BY <4>1 DEF TakeTransition
        <5>2. transition_queue # <<>> =>
                Head(transition_queue) \in TransitionItems
          BY <1>0, TailSeq DEF TypeOK, QueueTypes
        <5>3. item'.kind = "window" => item' = item
          BY <5>1, <5>2 DEF TransitionItems, Transitions
        <5>4. item = NoneItem /\ spc' # "new" /\ UNCHANGED previous_status
          BY <1>0, <4>1 DEF TakeTransition, HandOK
        <5>5. QED BY <5>3, <5>4 DEF Alarming, NoneItem
      <4>2. CASE SpoolerFault \/ CallbackFault
        BY <1>0, <4>2, SpoolerFrame
        DEF SpoolerFault, CallbackFault, NoneItem
      <4>3. CASE Spooler /\ ~TakeTransition
        BY <1>4, <4>3 DEF Spooler, SpoolerCheck, GetTimeout, Reserve,
           ReserveEvent, Wake, SpoolerFailed, NoneItem
      <4>4. QED BY <3>1, <4>1, <4>2, <4>3
    <3>2. CASE Start \/ Flush \/ StopCollector \/ Stop
      <4>1. spc' = spc \/ (spc = "new" /\ spc' = "check")
        BY <1>0, <3>2 DEF Start, Flush, StopCollector, Stop, StopSpooler,
           StopSender, StopReturns, HandOK
      <4>2. QED BY <3>2, <4>1, ControlFrame
    <3>3. CASE Restart
      BY <3>3 DEF Restart
    <3>4. QED
      BY <1>4, <3>1, <3>2, <3>3, CollectorFrame, SenderFrame, VarsFrame
      DEF Next, Finished
  <2>3. ASSUME ~outlived', ~SpoolerLost'
        PROVE  (Alarming /\ spc # "wake")' \/ Covered(previous_status)'
    <3>1. ~outlived /\ ~SpoolerLost
      BY <1>4, <2>3, LostStays
    <3>2. CASE Covered(previous_status)
      BY <2>1, <2>2, <3>2 DEF Covered, CoveredBy
    <3>3. CASE Alarming /\ spc # "wake"
      <4>1. ~(spc' = "raised" /\ faults' > 0)
        BY <1>0, <2>3 DEF SpoolerLost
      <4>2. item' = item /\ spc' # "wake"
        BY <2>2, <3>3, <4>1
      <4>3. QED BY <3>3, <4>2 DEF Alarming
    <3>4. QED BY <3>1, <3>2, <3>3 DEF AlarmOK
  <2>4. /\ item'.kind = "window" => previous_status' = item'.status
        /\ spc' = "new" => previous_status' = "NORMAL"
    BY <2>2 DEF AlarmOK
  <2>5. QED BY <2>3, <2>4 DEF AlarmOK
<1>5. QED BY <1>1, <1>2, <1>3, <1>4

\* What has outlived a failure has outlived it for good.
LEMMA OutlivedStays ==
  ASSUME [Next]_vars, ~outlived'
  PROVE  ~outlived
<1>1. CASE Start \/ Flush \/ StopCollector \/ Stop
  BY <1>1, ControlFrame
<1>2. CASE Restart \/ Crash
  BY <1>2 DEF Restart, Crash
<1>3. QED
  BY <1>1, <1>2, CollectorFrame, SpoolerFrame, SenderFrame, VarsFrame
  DEF Next, Finished

LEMMA IncidentStep ==
  ASSUME IInv, ReportInv, AlarmOK, IncidentReported, [Next]_vars
  PROVE  IncidentReported'
<1>1. SUFFICES ASSUME ~outlived'
               PROVE  \A t \in spooled' :
                        t.kind = "telemetry" /\ t.status # "NORMAL" =>
                          \E e \in spooled' : ReportedBy(e, t)'
  BY DEF IncidentReported, ReportedBy
<1>2. ~outlived
  BY <1>1, OutlivedStays
<1>3. CASE Store
  BY <1>2, <1>3, StoreIncident
<1>4. CASE ~Store
  <2>1. spooled' = spooled
    BY <1>4, OnlyStoreAdds
  <2>2. QED BY <1>2, <2>1, IncidentsReported DEF ReportedBy
<1>5. QED BY <1>3, <1>4

\* Every stored WARNING or DANGER window is reported by a threshold event at
\* least as severe with no milder window in between, although the rule engine
\* advances before the messages are stored: as long as no rule engine has been
\* started again after a failed call.
THEOREM IncidentsSafe == Spec => []IncidentReported
<1>1. Init => AlarmOK /\ IncidentReported
  BY Ranks DEF Init, AlarmOK, IncidentReported, Covered, NoneItem
<1>2. IInv /\ ReportInv /\ AlarmOK /\ IncidentReported /\ [Next]_vars
        => AlarmOK' /\ IncidentReported'
  BY AlarmStep, IncidentStep
<1>3. QED BY <1>1, <1>2, Invariant, ReportInvariant, PTL DEF Spec
-----------------------------------------------------------------------------
(* The stored connection events tell the story of the health monitor.      *)

LOST == "CONNECTION_LOST"
RECOVERED == "CONNECTION_RECOVERED"

\* The last stored connection event is not a loss.
LogUp ==
  \A m \in ConnectionEvents : m.kind = LOST =>
    \E n \in ConnectionEvents : n.kind = RECOVERED /\ m.seq < n.seq

Alternates ==
  \A m, n \in ConnectionEvents : m.seq < n.seq /\ m.kind = n.kind =>
    \E o \in ConnectionEvents :
      m.seq < o.seq /\ o.seq < n.seq /\ o.kind # m.kind

\* The spooler holds a transition it has not stored yet.
InHand == item.kind \in Transitions /\ spc # "wake"

\* What the log will say once that one is stored, and once those that wait
\* are stored too.
AfterItem == IF InHand THEN item.kind = RECOVERED ELSE LogUp

AfterQueue ==
  IF transition_queue = <<>> THEN AfterItem
  ELSE transition_queue[Len(transition_queue)].kind = RECOVERED

\* Stored, in hand and waiting transitions alternate, and end in the state of
\* the health monitor.
ConnOK ==
  /\ InHand => (item.kind = LOST <=> LogUp)
  /\ transition_queue # <<>> => (transition_queue[1].kind = LOST <=> AfterItem)
  /\ \A i \in 1..Len(transition_queue) : i + 1 <= Len(transition_queue) =>
       transition_queue[i].kind # transition_queue[i + 1].kind
  /\ health.connected <=> AfterQueue

LogOK ==
  crashes = 0 /\ ~outlived => Alternates /\ (SpoolerLost \/ ConnOK)

LEMMA TransitionKinds ==
  ASSUME TypeOK
  PROVE  /\ transition_queue \in Seq(TransitionItems)
         /\ Len(transition_queue) \in Nat
         /\ transition_queue # <<>> => Len(transition_queue) >= 1
         /\ \A i \in 1..Len(transition_queue) :
              transition_queue[i].kind \in {LOST, RECOVERED}
         /\ LOST # RECOVERED
<1>1. transition_queue \in Seq(TransitionItems)
  BY DEF TypeOK, QueueTypes
<1>2. \A i \in 1..Len(transition_queue) : transition_queue[i] \in TransitionItems
  BY <1>1
<1>3. Len(transition_queue) \in Nat /\ (transition_queue # <<>> => Len(transition_queue) >= 1)
  BY <1>1
<1>4. QED BY <1>1, <1>2, <1>3 DEF TransitionItems, Transitions, LOST, RECOVERED

\* A step that touches neither the log, nor what waits, nor the monitor.
LEMMA ConnFrame ==
  ASSUME ConnOK, UNCHANGED <<transition_queue, spooled>>,
         health'.connected = health.connected,
         InHand' <=> InHand, InHand => item' = item
  PROVE  ConnOK'
<1>1. LogUp' <=> LogUp
  BY DEF LogUp, ConnectionEvents
<1>2. AfterItem' <=> AfterItem
  BY <1>1 DEF AfterItem
<1>3. AfterQueue' <=> AfterQueue
  BY <1>2 DEF AfterQueue
<1>4. QED BY <1>1, <1>2, <1>3 DEF ConnOK

\* The monitor's verdict and the transition it returns go together.
LEMMA ObserveConn ==
  ASSUME IInv, ConnOK, EnqueueTransition(health, health'),
         health'.connected \in BOOLEAN, UNCHANGED <<item, spc, spooled>>
  PROVE  ConnOK'
<1>0. TypeOK /\ health.connected \in BOOLEAN
  BY DEF IInv, TypeOK, SenderTypes
<1> DEFINE q == transition_queue
           n == Len(transition_queue)
<1>1. (LogUp' <=> LogUp) /\ (InHand' <=> InHand)
  BY DEF LogUp, ConnectionEvents, InHand
<1>2. AfterItem' <=> AfterItem
  BY <1>1 DEF AfterItem
<1>3. CASE health'.connected = health.connected
  BY <1>1, <1>3, ConnFrame DEF EnqueueTransition
<1>4. CASE health'.connected # health.connected
  <2>1. PICK x \in TransitionItems :
          /\ q' = Append(q, x)
          /\ x.kind = RECOVERED <=> health'.connected
          /\ x.kind = LOST <=> ~health'.connected
    BY <1>0, <1>4 DEF EnqueueTransition, TransitionItems, Transitions, LOST,
       RECOVERED
  <2>2. /\ Len(q') = n + 1 /\ n \in Nat /\ q' # <<>>
        /\ \A i \in 1..n : q'[i] = q[i]
        /\ q'[n + 1] = x
    BY <1>0, <2>1, TransitionKinds, ShortSeqs
  <2>3. AfterQueue' <=> health'.connected
    BY <2>1, <2>2 DEF AfterQueue
  <2>4. q'[1].kind = LOST <=> AfterItem
    <3>1. CASE q = <<>>
      BY <1>0, <1>4, <2>1, <2>2, <3>1 DEF ConnOK, AfterQueue
    <3>2. CASE q # <<>>
      BY <1>0, <2>2, <3>2, TransitionKinds DEF ConnOK
    <3>3. QED BY <3>1, <3>2
  <2>5. ASSUME NEW i \in 1..(n + 1), i + 1 <= n + 1
        PROVE  q'[i].kind # q'[i + 1].kind
    <3>1. i \in 1..n /\ q'[i] = q[i]
      BY <2>2, <2>5
    <3>2. CASE i = n
      <4>1. q # <<>> /\ (q[n].kind = RECOVERED <=> health.connected)
        BY <1>0, <2>2, <3>1, <3>2, TransitionKinds DEF ConnOK, AfterQueue
      <4>2. q[n].kind \in {LOST, RECOVERED} /\ LOST # RECOVERED
        BY <1>0, <3>1, <3>2, TransitionKinds
      <4>3. QED BY <1>0, <1>4, <2>1, <2>2, <3>1, <3>2, <4>1, <4>2
    <3>3. CASE i # n
      <4>1. i + 1 \in 1..n /\ i + 1 <= n
        BY <2>2, <2>5, <3>3
      <4>2. QED BY <2>2, <3>1, <4>1 DEF ConnOK
    <3>4. QED BY <3>2, <3>3
  <2>6. InHand' => (item'.kind = LOST <=> LogUp')
    BY <1>1 DEF ConnOK
  <2>7. QED BY <1>2, <2>2, <2>3, <2>4, <2>5, <2>6 DEF ConnOK
<1>5. QED BY <1>3, <1>4

\* The spooler takes the oldest transition that waits.
LEMMA TakeConn ==
  ASSUME IInv, ConnOK, TakeTransition
  PROVE  ConnOK'
<1>0. TypeOK /\ item = NoneItem
  BY DEF IInv, HandOK, TakeTransition
<1> DEFINE q == transition_queue
           n == Len(transition_queue)
<1>1. /\ UNCHANGED <<spooled, health>> /\ ~InHand
      /\ (LogUp' <=> LogUp) /\ (AfterItem <=> LogUp)
  BY <1>0, SpoolerFrame
  DEF Spooler, TakeTransition, InHand, NoneItem, Transitions, LogUp,
      ConnectionEvents, AfterItem
<1>2. CASE q = <<>>
  <2>1. UNCHANGED <<transition_queue, item>>
    BY <1>2 DEF TakeTransition
  <2>2. ~InHand'
    BY <1>0, <2>1 DEF InHand, NoneItem, Transitions
  <2>3. QED BY <1>1, <2>1, <2>2, ConnFrame
<1>3. CASE q # <<>>
  <2>1. item' = Head(q) /\ q' = Tail(q) /\ spc' = "reserve"
    BY <1>3 DEF TakeTransition
  <2>2. /\ item' = q[1] /\ 1 \in 1..n /\ n \in Nat /\ Len(q') = n - 1
        /\ q' \in Seq(TransitionItems)
        /\ \A i \in 1..Len(q') : q'[i] = q[i + 1] /\ i + 1 \in 1..n
    BY <1>0, <1>3, <2>1, TransitionKinds, TailSeq
  <2>3. /\ \A i \in 1..n : q[i].kind \in {LOST, RECOVERED}
        /\ LOST # RECOVERED
    BY <1>0, TransitionKinds
  <2>4. /\ InHand' /\ (item'.kind = LOST <=> LogUp')
        /\ AfterItem' <=> item'.kind = RECOVERED
    BY <1>1, <1>3, <2>1, <2>2, <2>3
    DEF ConnOK, InHand, AfterItem, Transitions, LOST, RECOVERED
  <2>5. q' # <<>> => (q'[1].kind = LOST <=> AfterItem')
    <3>1. SUFFICES ASSUME q' # <<>> PROVE q'[1].kind = LOST <=> AfterItem'
      OBVIOUS
    <3>2. Len(q') >= 1 /\ 1 + 1 <= n
      BY <2>2, <3>1
    <3>3. q'[1] = q[1 + 1] /\ q[1].kind # q[1 + 1].kind /\ 1 + 1 \in 1..n
      BY <2>2, <3>2 DEF ConnOK
    <3>4. QED BY <2>2, <2>3, <2>4, <3>3
  <2>6. ASSUME NEW i \in 1..Len(q'), i + 1 <= Len(q')
        PROVE  q'[i].kind # q'[i + 1].kind
    <3>1. /\ i + 1 \in 1..Len(q') /\ i + 1 \in 1..n /\ (i + 1) + 1 <= n
          /\ q'[i] = q[i + 1] /\ q'[i + 1] = q[(i + 1) + 1]
      BY <2>2, <2>6
    <3>2. QED BY <3>1 DEF ConnOK
  <2>7. health'.connected <=> AfterQueue'
    <3>1. CASE q' = <<>>
      <4>1. n = 1
        BY <2>2, <3>1
      <4>2. health.connected <=> q[1].kind = RECOVERED
        BY <1>3, <4>1 DEF ConnOK, AfterQueue
      <4>3. QED BY <1>1, <2>2, <2>4, <3>1, <4>2 DEF AfterQueue
    <3>2. CASE q' # <<>>
      <4>1. Len(q') \in 1..Len(q') /\ q'[Len(q')] = q[n]
        BY <2>2, <3>2
      <4>2. QED BY <1>1, <1>3, <3>2, <4>1 DEF ConnOK, AfterQueue
    <3>3. QED BY <3>1, <3>2
  <2>8. QED BY <2>4, <2>5, <2>6, <2>7 DEF ConnOK
<1>4. QED BY <1>2, <1>3

\* The transaction that stores the transition in hand continues the story.
LEMMA StoreConn ==
  ASSUME IInv, ReportInv, Alternates, ConnOK, Store
  PROVE  Alternates' /\ ConnOK'
<1>0. TypeOK /\ spc = "store" /\ item \in HandItems /\ item # NoneItem
  BY StoresItem DEF IInv, Store
<1>1. PICK m \in Messages :
        /\ m = BuiltFrom(item, m.seq)
        /\ \A n \in spooled : n.seq < m.seq
        /\ spooled' = IF Alarming
                      THEN spooled \cup {m, ThresholdEvent(item, m.seq)}
                      ELSE spooled \cup {m}
  BY StoreReports DEF ReportInv
<1>2. /\ UNCHANGED <<item, transition_queue, health>> /\ ~InHand'
      /\ m.seq \in Nat /\ \A n \in spooled : n.seq \in Nat
  BY <1>0, SpoolerFrame
  DEF Spooler, Store, InHand, Messages, TypeOK, BlackboxTypes
<1>3. CASE item.kind \notin Transitions
  <2>1. m.kind \notin Transitions
    <3>1. item.kind \in {"window", "incomplete"}
      BY <1>0, <1>3 DEF HandItems, TransitionItems, NoneItem
    <3>2. QED BY <1>0, <1>1, <1>2, <3>1, BuiltFields DEF Transitions
  <2>2. Alarming => ThresholdEvent(item, m.seq).kind \notin Transitions
    BY DEF ThresholdEvent, Message, Transitions
  <2>3. ConnectionEvents' = ConnectionEvents
    BY <1>1, <2>1, <2>2 DEF ConnectionEvents
  <2>4. (LogUp' <=> LogUp) /\ Alternates'
    BY <2>3 DEF LogUp, Alternates
  <2>5. ~InHand /\ (AfterItem' <=> AfterItem)
    BY <1>2, <1>3, <2>4 DEF InHand, AfterItem
  <2>6. QED BY <1>2, <2>4, <2>5 DEF ConnOK, AfterQueue
<1>4. CASE item.kind \in Transitions
  <2>1. m.kind = item.kind /\ m.kind \in Transitions /\ ~Alarming /\ InHand
    BY <1>0, <1>1, <1>2, <1>4, BuiltFields DEF Alarming, Transitions, InHand
  <2>2. ConnectionEvents' = ConnectionEvents \cup {m}
    BY <1>1, <2>1 DEF ConnectionEvents
  <2>3. /\ \A n \in ConnectionEvents :
             /\ n.seq < m.seq /\ n.seq \in Nat /\ n \in spooled
             /\ n.kind \in {LOST, RECOVERED}
        /\ LOST # RECOVERED /\ m.kind \in {LOST, RECOVERED}
    BY <1>1, <1>2, <2>1 DEF ConnectionEvents, Transitions, LOST, RECOVERED
  <2>4. m.kind = LOST <=> LogUp
    BY <2>1 DEF ConnOK
  <2>5. LogUp' <=> m.kind = RECOVERED
    BY <1>2, <2>2, <2>3 DEF LogUp
  <2>6. ASSUME NEW p \in ConnectionEvents, p.kind = m.kind
        PROVE  \E o \in ConnectionEvents : p.seq < o.seq /\ o.kind # p.kind
    <3>1. CASE p.kind = LOST
      BY <2>3, <2>4, <2>6, <3>1 DEF LogUp
    <3>2. CASE p.kind = RECOVERED
      <4>1. PICK l \in ConnectionEvents :
              /\ l.kind = LOST
              /\ \A n \in ConnectionEvents : n.kind = RECOVERED => ~(l.seq < n.seq)
        BY <2>3, <2>4, <2>6, <3>2 DEF LogUp
      <4>2. p.seq # l.seq
        BY <2>3, <3>2, <4>1 DEF IInv, SafeOK, SequenceOK
      <4>3. QED BY <2>3, <3>2, <4>1, <4>2
    <3>3. QED BY <2>3, <3>1, <3>2
  <2>7. Alternates'
    <3> SUFFICES ASSUME NEW p \in ConnectionEvents', NEW n \in ConnectionEvents',
                        p.seq < n.seq, p.kind = n.kind
                 PROVE  \E o \in ConnectionEvents' :
                          p.seq < o.seq /\ o.seq < n.seq /\ o.kind # p.kind
      BY DEF Alternates
    <3>1. p \in ConnectionEvents
      BY <1>2, <2>2, <2>3
    <3>2. CASE n \in ConnectionEvents
      BY <2>2, <3>1, <3>2 DEF Alternates
    <3>3. CASE n = m
      BY <2>2, <2>3, <2>6, <3>1, <3>3
    <3>4. QED BY <2>2, <3>2, <3>3
  <2>8. AfterItem' <=> AfterItem
    BY <1>2, <2>1, <2>5 DEF AfterItem
  <2>9. QED BY <1>2, <2>7, <2>8 DEF ConnOK, AfterQueue
<1>5. QED BY <1>3, <1>4

LEMMA LogStep ==
  ASSUME IInv, ReportInv, LogOK, [Next]_vars
  PROVE  LogOK'
<1>0. /\ TypeOK /\ HandOK /\ crashes \in Nat /\ faults \in Nat
      /\ health'.connected \in BOOLEAN
  BY StepTypes DEF IInv, TypeOK, ControlTypes, SenderTypes
<1>1. CASE Crash
  <2>1. crashes' # 0
    BY <1>0, <1>1 DEF Crash
  <2>2. QED BY <2>1 DEF LogOK
<1>2. SUFFICES ASSUME ~Crash, crashes' = 0, ~outlived'
               PROVE  Alternates' /\ (SpoolerLost' \/ ConnOK')
  BY <1>1 DEF LogOK
<1>3. crashes = 0
  <2>1. CASE Restart
    BY <1>2, <2>1 DEF Restart, bounds
  <2>2. QED
    BY <1>2, <2>1, CollectorFrame, SpoolerFrame, SenderFrame, ControlFrame,
       VarsFrame DEF Next, Finished
<1>4. Alternates /\ (SpoolerLost \/ ConnOK)
  BY <1>2, <1>3, OutlivedStays DEF LogOK
<1>5. CASE SpoolerLost'
  <2>1. ~Store
    BY <1>5 DEF Store, SpoolerLost
  <2>2. QED BY <1>4, <1>5, <2>1, OnlyStoreAdds DEF Alternates, ConnectionEvents
<1>6. CASE ~SpoolerLost'
  <2>1. ConnOK
    BY <1>2, <1>4, <1>6, LostStays
  <2>2. CASE Store
    BY <1>4, <2>1, <2>2, StoreConn
  <2>3. CASE ~Store
    <3>1. spooled' = spooled /\ Alternates'
      BY <1>4, <2>3, OnlyStoreAdds DEF Alternates, ConnectionEvents
    <3>2. CASE TakeTransition
      BY <2>1, <3>1, <3>2, TakeConn
    <3>3. CASE TakeItem
      <4>1. PICK h \in Items \cup {NoneItem} :
              /\ h.kind = "none" => item' = NoneItem
              /\ h.kind = "incomplete" => item' = h
              /\ h.kind = "window" =>
                   item' = [kind |-> "window", status |-> h.status, no |-> h.no,
                            emit |-> Emits(previous_status, h.status)]
        BY <3>3, TakeEffect
      <4>2. ~InHand' /\ ~InHand
        BY <1>0, <3>3, <4>1
        DEF TakeItem, HandOK, Items, NoneItem, InHand, Transitions
      <4>3. UNCHANGED <<transition_queue, health>>
        BY <3>3, SpoolerFrame DEF TakeItem, Spooler
      <4>4. QED BY <2>1, <3>1, <4>2, <4>3, ConnFrame
    <3>4. CASE SpoolerFault \/ CallbackFault
      <4>1. SpoolerLost'
        <5>1. spc' = "raised" /\ faults' = faults + 1
          BY <3>4 DEF SpoolerFault, CallbackFault
        <5>2. QED BY <1>0, <5>1 DEF SpoolerLost
      <4>2. QED BY <1>6, <4>1
    <3>5. CASE \/ SpoolerCheck \/ GetTimeout \/ Reserve \/ ReserveEvent
               \/ Wake \/ SpoolerFailed
      <4>1. UNCHANGED <<transition_queue, health>>
        BY <3>5, SpoolerFrame DEF Spooler, SpoolerCheck, GetTimeout, Reserve,
           ReserveEvent, Wake, SpoolerFailed
      <4>2. CASE Wake
        <5>1. ~InHand /\ ~InHand'
          BY <4>2 DEF Wake, InHand, NoneItem, Transitions
        <5>2. QED BY <2>1, <3>1, <4>1, <5>1, ConnFrame
      <4>3. CASE ~Wake
        <5>1. item' = item /\ spc # "wake" /\ spc' # "wake"
          BY <3>5, <4>3 DEF SpoolerCheck, GetTimeout, Reserve, ReserveEvent,
             SpoolerFailed
        <5>2. QED BY <2>1, <3>1, <4>1, <5>1, ConnFrame DEF InHand
      <4>4. QED BY <4>2, <4>3
    <3>6. CASE AfterSuccess \/ AfterFailure
      <4>1. UNCHANGED <<item, spc>>
        BY <3>6, SenderFrame DEF Sender
      <4>2. EnqueueTransition(health, health')
        BY <3>6 DEF AfterSuccess, AfterFailure
      <4>3. QED BY <1>0, <2>1, <3>1, <4>1, <4>2, ObserveConn
    <3>7. CASE /\ Sender \/ WaitTimeout \/ SenderFault
               /\ ~AfterSuccess /\ ~AfterFailure
      <4>1. UNCHANGED <<transition_queue, health>>
        BY <3>7 DEF Sender, WaitTimeout, SenderFault, SenderLoop, WakeUp,
           ClearDrain, Fetch, SendSucceeds, SendFails, Ack, SenderFailed
      <4>2. QED BY <2>1, <3>1, <3>7, <4>1, SenderFrame, ConnFrame DEF InHand
    <3>8. CASE Collector \/ CollectorFault
      BY <2>1, <3>1, <3>8, CollectorFrame, ConnFrame DEF InHand
    <3>9. CASE Start \/ Flush \/ StopCollector \/ Stop
      <4>1. spc' = spc \/ (spc # "wake" /\ spc' # "wake")
        BY <1>0, <3>9 DEF Start, Flush, StopCollector, Stop, StopSpooler,
           StopSender, StopReturns, HandOK
      <4>2. QED BY <2>1, <3>1, <3>9, <4>1, ControlFrame, ConnFrame DEF InHand
    <3>10. CASE Restart
      BY <2>1, <3>1, <3>10, ConnFrame DEF Restart, AllDone, InHand
    <3>11. CASE UNCHANGED vars
      BY <2>1, <3>1, <3>11, VarsFrame, ConnFrame DEF InHand
    <3>12. QED
      BY <1>2, <2>3, <3>2, <3>3, <3>4, <3>5, <3>6, <3>7, <3>8, <3>9, <3>10,
         <3>11 DEF Next, Finished, Spooler
  <2>4. QED BY <2>2, <2>3
<1>7. QED BY <1>5, <1>6

\* Without a crash the stored connection events alternate, and say what the
\* monitor says once no transition waits: as long as no monitor has been
\* started again after a failed call.
THEOREM ConnectionLogSafe == Spec => []ConnectionLogAgrees
<1>1. Init => LogOK
  BY DEF Init, LogOK, Alternates, ConnOK, ConnectionEvents, InHand, LogUp,
     AfterItem, AfterQueue, NoneItem, Transitions
<1>2. IInv /\ ReportInv /\ LogOK /\ [Next]_vars => LogOK'
  BY LogStep
<1>3. LogOK => ConnectionLogAgrees
  <2>1. SUFFICES ASSUME LogOK, crashes = 0, ~outlived
                 PROVE  /\ Alternates
                        /\ (transition_queue = <<>>
                             /\ item.kind \notin Transitions
                             /\ spc # "raised" /\ ~worker_failure) =>
                             (health.connected <=> LogUp)
    BY DEF ConnectionLogAgrees, Alternates, LogUp, LOST, RECOVERED
  <2>2. QED BY <2>1 DEF LogOK, SpoolerLost, ConnOK, AfterQueue, AfterItem, InHand
<1>4. QED BY <1>1, <1>2, <1>3, Invariant, ReportInvariant, PTL
          DEF Spec
=============================================================================
