--------------------------- MODULE BlackboxProofs ---------------------------
(***************************************************************************)
(* Theorems about Blackbox, for any number of threads, faults and crashes: *)
(* no number is reissued, two messages stored together stay together, what *)
(* was accepted is kept until it was sent, and with one spooler messages   *)
(* are delivered in order.                                                 *)
(***************************************************************************)
EXTENDS Blackbox, SequenceTheorems, TLAPS

USE DEF database, writers, senders, process

Rows == [id : Nat, no : Nat]

\* Numbers with a row in the file or in the transaction, now or before.
Seen == Numbers(view) \cup Numbers(durable) \cup stored
PairNumbers == UNION {{p[1], p[2]} : p \in pairs}

\* No call leaves the counter uncommitted.
CounterOK ==
  /\ view.last_seq_no = durable.last_seq_no
  /\ ~open => view = durable
  /\ NumbersDurable

\* Every number is with one writer, or was given to a method, or is gone.
HoldOK ==
  /\ Seen \cup PairNumbers \subseteq given
  /\ \A w \in Writers : Len(numbers[w]) <= 2
  /\ \A w \in Writers : \A i \in 1..Len(numbers[w]) :
       numbers[w][i] \in given \ (Seen \cup PairNumbers)
  /\ \A v, w \in Writers : \A i \in 1..Len(numbers[v]), j \in 1..Len(numbers[w]) :
       numbers[v][i] = numbers[w][j] => v = w /\ i = j

\* Of a pair, no row is seen before both are committed.
PairOK ==
  \A p \in pairs : p[1] \in Seen \/ p[2] \in Seen => {p[1], p[2]} \subseteq stored

IInv == TypeOK /\ CounterOK /\ HoldOK /\ PairOK
-----------------------------------------------------------------------------
(* The operators.                                                          *)

LEMMA InsertFacts ==
  ASSUME NEW db, IsDatabase(db), NEW n \in Nat, n <= db.last_seq_no
  PROVE  /\ IsDatabase(Insert(db, n))
         /\ Insert(db, n).last_seq_no = db.last_seq_no
         /\ Numbers(Insert(db, n)) = Numbers(db) \cup {n}
<1>1. db \in Databases /\ \A r \in db.rows : r.id <= db.last_row_id /\ r.no <= db.last_seq_no
  BY DEF IsDatabase
<1>2. CASE n \in Numbers(db)
  BY <1>2 DEF Insert
<1>3. CASE n \notin Numbers(db)
  <2> DEFINE new == Row(db.last_row_id + 1, n)
             e == [last_seq_no |-> db.last_seq_no,
                   last_row_id |-> db.last_row_id + 1, rows |-> db.rows \cup {new}]
  <2>1. Insert(db, n) = e
    BY <1>1, <1>3 DEF Insert, Databases
  <2>2. new \in Rows /\ new.id = db.last_row_id + 1 /\ new.no = n
    BY <1>1 DEF Databases, Rows, Row
  <2> HIDE DEF new
  <2>3. e \in Databases
    BY <1>1, <2>2 DEF Databases, Rows
  <2>4. \A r \in db.rows \cup {new} : r.id <= db.last_row_id + 1 /\ r.no <= db.last_seq_no
    BY <1>1, <2>2 DEF Databases
  <2>5. Numbers(e) = Numbers(db) \cup {n}
    BY <2>2 DEF Numbers
  <2>6. /\ e.rows = db.rows \cup {new} /\ e.last_row_id = db.last_row_id + 1
        /\ e.last_seq_no = db.last_seq_no
    OBVIOUS
  <2> HIDE DEF e
  <2>7. QED BY <2>1, <2>3, <2>4, <2>5, <2>6 DEF IsDatabase
<1>4. QED BY <1>2, <1>3

LEMMA DeleteFacts ==
  ASSUME NEW db, IsDatabase(db), NEW r
  PROVE  /\ IsDatabase(Delete(db, r))
         /\ Delete(db, r).last_seq_no = db.last_seq_no
         /\ Numbers(Delete(db, r)) \subseteq Numbers(db)
<1>1. Delete(db, r) = [last_seq_no |-> db.last_seq_no, last_row_id |-> db.last_row_id,
                       rows |-> {q \in db.rows : q.id # r.id}]
  BY DEF Delete, IsDatabase, Databases
<1>2. QED BY <1>1 DEF IsDatabase, Databases, Numbers

\* What a method may do to the database: end with db committed, left behind or
\* taken back, where db adds at most the numbers N.
Ends(N) ==
  /\ IsDatabase(view') /\ IsDatabase(durable') /\ open' \in BOOLEAN
  /\ view'.last_seq_no = view.last_seq_no /\ durable'.last_seq_no = view.last_seq_no
  /\ ~open' => view' = durable'
  /\ Seen' \subseteq Seen \cup N
  /\ stored \subseteq stored' /\ stored' \subseteq Nat /\ used' \subseteq Rows
  /\ faults' \in Nat

LEMMA NumbersOfDatabase ==
  ASSUME NEW db, IsDatabase(db)
  PROVE  Numbers(db) \subseteq Nat /\ db.rows \subseteq Rows
BY DEF IsDatabase, Databases, Numbers, Rows

LEMMA MethodEnds ==
  ASSUME TypeOK, CounterOK, NEW N, NEW db, IsDatabase(db),
         db.last_seq_no = view.last_seq_no, Numbers(db) \subseteq Seen \cup N,
         \/ Commit(db) /\ UNCHANGED faults
         \/ LeftBehind(db)
         \/ Rollback /\ faults' \in {faults, faults + 1}
  PROVE  Ends(N)
<1>1. /\ IsDatabase(view) /\ IsDatabase(durable) /\ faults \in Nat
      /\ stored \subseteq Nat /\ used \subseteq Rows
      /\ view.last_seq_no = durable.last_seq_no
  BY DEF TypeOK, CounterOK, Rows
<1>2. /\ Numbers(db) \subseteq Nat /\ db.rows \subseteq Rows
      /\ Numbers(durable) \subseteq Nat /\ durable.rows \subseteq Rows
      /\ Numbers(view) \subseteq Nat /\ view.rows \subseteq Rows
  BY <1>1, NumbersOfDatabase
<1>3. ASSUME NEW d \in {db, view, durable}, NEW f \in {db, durable}, NEW b \in BOOLEAN,
             Sees(d, f, b), ~b => d = f, faults' \in {faults, faults + 1}
      PROVE  Ends(N)
  <2>1. /\ view' = d /\ durable' = f /\ open' = b
        /\ stored' = stored \cup Numbers(f) /\ used' = used \cup d.rows
    BY <1>3 DEF Sees
  <2>2. Seen' = Numbers(d) \cup Numbers(f) \cup stored
    BY <2>1 DEF Seen, Numbers
  <2>3. Numbers(d) \subseteq Seen \cup N /\ Numbers(f) \subseteq Seen \cup N
    BY DEF Seen
  <2>4. Seen' \subseteq Seen \cup N
    BY <2>2, <2>3 DEF Seen
  <2>5. /\ IsDatabase(d) /\ d.last_seq_no = view.last_seq_no
        /\ IsDatabase(f) /\ f.last_seq_no = view.last_seq_no
    BY <1>1
  <2>6. IsDatabase(view') /\ IsDatabase(durable')
    BY <2>1, <2>5
  <2>7. /\ view'.last_seq_no = view.last_seq_no /\ durable'.last_seq_no = view.last_seq_no
        /\ ~open' => view' = durable' /\ open' \in BOOLEAN
    BY <1>3, <2>1, <2>5
  <2>8. /\ stored \subseteq stored' /\ stored' \subseteq Nat /\ used' \subseteq Rows
        /\ faults' \in Nat
    <3>1. d.rows \subseteq Rows /\ Numbers(f) \subseteq Nat
      BY <1>2
    <3>2. stored \subseteq stored' /\ stored' \subseteq Nat
      BY <1>1, <2>1, <3>1
    <3>3. used' \subseteq Rows
      BY <1>1, <2>1, <3>1
    <3>4. QED BY <1>1, <1>3, <3>2, <3>3
  <2>9. QED BY <2>4, <2>6, <2>7, <2>8 DEF Ends
<1>4. CASE Commit(db) /\ UNCHANGED faults
  BY <1>3, <1>4 DEF Commit
<1>5. CASE LeftBehind(db)
  BY <1>3, <1>5 DEF LeftBehind, Fault, Rollback
<1>6. CASE Rollback /\ faults' \in {faults, faults + 1}
  BY <1>3, <1>6 DEF Rollback
<1>7. QED BY <1>4, <1>5, <1>6
-----------------------------------------------------------------------------
(* The steps.                                                              *)

Held(w) == {numbers[w][i] : i \in 1..Len(numbers[w])}

\* The numbers X, of writers that end up holding nothing, may appear.
LEMMA HoldStep ==
  ASSUME IInv, NEW X, X \subseteq given,
         Seen' \subseteq Seen \cup X, PairNumbers' \subseteq PairNumbers \cup X,
         given' = given,
         \A v \in Writers : \/ numbers'[v] = <<>>
                            \/ numbers'[v] = numbers[v] /\ Held(v) \cap X = {}
  PROVE  HoldOK'
<1>1. Seen' \cup PairNumbers' \subseteq given'
  BY DEF IInv, HoldOK
<1>2. \A w \in Writers : Len(numbers'[w]) <= 2
  BY DEF IInv, HoldOK
<1>3. ASSUME NEW w \in Writers, NEW i \in 1..Len(numbers'[w])
      PROVE  /\ numbers'[w] = numbers[w] /\ i \in 1..Len(numbers[w])
             /\ numbers'[w][i] \in Held(w) /\ Held(w) \cap X = {}
  BY <1>3 DEF Held
<1>4. ASSUME NEW w \in Writers, NEW i \in 1..Len(numbers'[w])
      PROVE  numbers'[w][i] \in given' \ (Seen' \cup PairNumbers')
  <2>1. numbers'[w][i] \notin X /\ numbers'[w] = numbers[w] /\ i \in 1..Len(numbers[w])
    BY <1>3
  <2>2. numbers[w][i] \in given \ (Seen \cup PairNumbers)
    BY <2>1 DEF IInv, HoldOK
  <2>3. QED BY <2>1, <2>2
<1>5. ASSUME NEW v \in Writers, NEW w \in Writers,
             NEW i \in 1..Len(numbers'[v]), NEW j \in 1..Len(numbers'[w]),
             numbers'[v][i] = numbers'[w][j]
      PROVE  v = w /\ i = j
  BY <1>3, <1>5 DEF IInv, HoldOK
<1>6. QED BY <1>1, <1>2, <1>4, <1>5 DEF HoldOK

LEMMA PairStep ==
  ASSUME IInv, NEW X, X \cap PairNumbers = {},
         Seen' \subseteq Seen \cup X, stored \subseteq stored',
         \A p \in pairs' : \/ p \in pairs
                           \/ {p[1], p[2]} \subseteq stored'
                           \/ {p[1], p[2]} \cap Seen' = {}
  PROVE  PairOK'
<1>1. ASSUME NEW p \in pairs', p[1] \in Seen' \/ p[2] \in Seen'
      PROVE  {p[1], p[2]} \subseteq stored'
  <2>1. CASE p \in pairs
    <3>1. {p[1], p[2]} \subseteq PairNumbers
      BY <2>1 DEF PairNumbers
    <3>2. p[1] \in Seen \/ p[2] \in Seen
      BY <1>1, <3>1
    <3>3. QED BY <2>1, <3>2 DEF IInv, PairOK
  <2>2. CASE {p[1], p[2]} \subseteq stored'
    BY <2>2
  <2>3. CASE {p[1], p[2]} \cap Seen' = {}
    BY <1>1, <2>3
  <2>4. QED BY <2>1, <2>2, <2>3
<1>2. QED BY <1>1 DEF PairOK

LEMMA CounterStep ==
  ASSUME IInv, NEW N, Ends(N), UNCHANGED given
  PROVE  CounterOK'
BY DEF Ends, IInv, CounterOK, NumbersDurable

\* What IInv says of what the methods of a writer leave alone, and of the rest.
ThreadTypes ==
  /\ stopping \in BOOLEAN /\ wpc \in [Writers -> {"run", "ended"}]
  /\ numbers \in [Writers -> Seq(Nat)]
  /\ spc \in [Senders -> {"run", "sent", "failed", "ended"}]
  /\ batch \in [Senders -> SUBSET Rows]
  /\ given \subseteq Nat /\ pairs \subseteq Seq(Nat)
  /\ accepted \subseteq Nat /\ delivered \subseteq Nat
  /\ crashes \in Nat

LEMMA TypeStep ==
  ASSUME NEW N, Ends(N), ThreadTypes'
  PROVE  TypeOK'
BY DEF Ends, ThreadTypes, TypeOK, Rows

LEMMA TypesOfThreads ==
  ASSUME TypeOK
  PROVE  ThreadTypes
BY DEF TypeOK, ThreadTypes, Rows

LEMMA IInvInit == Init => IInv
<1> SUFFICES ASSUME Init PROVE IInv
  OBVIOUS
<1>1. /\ Empty.rows = {} /\ Empty.last_seq_no = 0 /\ Empty \in Databases
  BY DEF Empty, Databases
<1>2. IsDatabase(Empty) /\ Numbers(Empty) = {}
  BY <1>1 DEF IsDatabase, Numbers
<1>3. TypeOK
  <2>1. <<>> \in Seq(Nat) /\ 0 \in Nat
    OBVIOUS
  <2>2. numbers \in [Writers -> Seq(Nat)]
    BY <2>1 DEF Init
  <2>3. batch \in [Senders -> SUBSET [id : Nat, no : Nat]]
    BY DEF Init
  <2>4. QED BY <1>2, <2>2, <2>3 DEF Init, TypeOK, OneRuns
<1>4. Seen = {} /\ PairNumbers = {}
  BY <1>2 DEF Init, Seen, PairNumbers
<1>5. QED
  BY <1>3, <1>4 DEF Init, IInv, CounterOK, HoldOK, PairOK, NumbersDurable

LEMMA NextSequenceStep ==
  ASSUME IInv, NEW w \in Writers, NextSequence(w)
  PROVE  IInv'
<1> DEFINE n == view.last_seq_no + 1
           db == [view EXCEPT !.last_seq_no = n]
<1>1. /\ IsDatabase(view) /\ view.last_seq_no \in Nat /\ view \in Databases
      /\ view.rows \subseteq Rows /\ ThreadTypes
      /\ stored \subseteq Nat /\ used \subseteq Rows /\ faults \in Nat
  BY TypesOfThreads DEF IInv, TypeOK, IsDatabase, Databases, Rows
<1>2. /\ wpc[w] = "run" /\ Len(numbers[w]) < 2 /\ ~open
      /\ view' = db /\ durable' = db /\ open' = FALSE
      /\ stored' = stored \cup Numbers(db) /\ used' = used \cup db.rows
      /\ numbers' = [numbers EXCEPT ![w] = Append(@, n)]
      /\ given' = given \cup {n}
      /\ UNCHANGED <<wpc, pairs, accepted, senders, faults, process>>
  BY DEF NextSequence, Commit, Sees
<1>3. /\ db.rows = view.rows /\ db.last_seq_no = n /\ db.last_row_id = view.last_row_id
      /\ db \in Databases
  BY <1>1 DEF Databases
<1>4. n \in Nat /\ n > view.last_seq_no
  BY <1>1
<1>5. view = durable /\ \A k \in given : k <= view.last_seq_no
  BY <1>2 DEF IInv, CounterOK, NumbersDurable
<1>6. n \notin given
  BY <1>1, <1>5, given \subseteq Nat DEF ThreadTypes
<1>7. Numbers(db) = Numbers(view)
  BY <1>3 DEF Numbers
<1> HIDE DEF db, n
<1>8. IsDatabase(db)
  BY <1>1, <1>3, <1>4 DEF IsDatabase, Databases
<1>9. Seen' = Seen /\ PairNumbers' = PairNumbers
  BY <1>2, <1>5, <1>7 DEF Seen, PairNumbers, Numbers
<1>10. TypeOK'
  <2>1. Numbers(db) \subseteq Nat /\ db.rows \subseteq Rows
    BY <1>8, NumbersOfDatabase
  <2>2. numbers' \in [Writers -> Seq(Nat)] /\ given' \subseteq Nat
    BY <1>1, <1>2, <1>4 DEF ThreadTypes
  <2>3. ThreadTypes'
    BY <1>1, <1>2, <2>2 DEF ThreadTypes
  <2>4. stored' \subseteq Nat /\ used' \subseteq Rows
    BY <1>1, <1>2, <2>1
  <2>5. QED BY <1>1, <1>2, <1>8, <2>3, <2>4 DEF TypeOK, ThreadTypes, Rows
<1>11. CounterOK'
  <2>1. \A k \in given : k <= n
    BY <1>1, <1>4, <1>5 DEF ThreadTypes
  <2>2. QED BY <1>2, <1>3, <1>4, <2>1 DEF CounterOK, NumbersDurable
<1>12. HoldOK'
  <2>1. /\ numbers'[w] = Append(numbers[w], n) /\ Len(numbers'[w]) = Len(numbers[w]) + 1
        /\ numbers'[w][Len(numbers[w]) + 1] = n
        /\ \A i \in 1..Len(numbers[w]) : numbers'[w][i] = numbers[w][i]
        /\ Len(numbers[w]) \in Nat
        /\ \A v \in Writers \ {w} : numbers'[v] = numbers[v]
    BY <1>1, <1>2 DEF ThreadTypes
  <2>2. ASSUME NEW v \in Writers, NEW i \in 1..Len(numbers'[v])
        PROVE  \/ v = w /\ i = Len(numbers[w]) + 1 /\ numbers'[v][i] = n
               \/ i \in 1..Len(numbers[v]) /\ numbers'[v][i] = numbers[v][i]
    <3>1. CASE v = w
      BY <2>1, <3>1
    <3>2. CASE v # w
      BY <2>1, <3>2
    <3>3. QED BY <3>1, <3>2
  <2>3. \A v \in Writers : Len(numbers'[v]) <= 2
    BY <1>2, <2>1 DEF IInv, HoldOK
  <2>4. Seen' \cup PairNumbers' \subseteq given' /\ n \notin Seen \cup PairNumbers
    BY <1>2, <1>6, <1>9 DEF IInv, HoldOK
  <2>5. ASSUME NEW v \in Writers, NEW i \in 1..Len(numbers'[v])
        PROVE  numbers'[v][i] \in given' \ (Seen' \cup PairNumbers')
    BY <1>2, <1>9, <2>2, <2>4 DEF IInv, HoldOK
  <2>6. ASSUME NEW v \in Writers, NEW u \in Writers,
               NEW i \in 1..Len(numbers'[v]), NEW j \in 1..Len(numbers'[u]),
               numbers'[v][i] = numbers'[u][j]
        PROVE  v = u /\ i = j
    <3>1. \A x \in Writers : \A k \in 1..Len(numbers[x]) : numbers[x][k] # n
      BY <1>6 DEF IInv, HoldOK
    <3>2. CASE numbers'[v][i] = n
      <4>1. v = w /\ i = Len(numbers[w]) + 1
        BY <2>2, <3>1, <3>2
      <4>2. u = w /\ j = Len(numbers[w]) + 1
        BY <2>2, <2>6, <3>1, <3>2
      <4>3. QED BY <4>1, <4>2
    <3>3. CASE numbers'[v][i] # n
      <4>1. i \in 1..Len(numbers[v]) /\ numbers'[v][i] = numbers[v][i]
        BY <2>2, <3>3
      <4>2. j \in 1..Len(numbers[u]) /\ numbers'[u][j] = numbers[u][j]
        BY <2>2, <2>6, <3>3
      <4>3. numbers[v][i] = numbers[u][j]
        BY <2>6, <4>1, <4>2
      <4>4. QED BY <4>1, <4>2, <4>3 DEF IInv, HoldOK
    <3>4. QED BY <3>2, <3>3
  <2>7. QED BY <2>3, <2>4, <2>5, <2>6 DEF HoldOK
<1>13. PairOK'
  BY <1>2, <1>9 DEF IInv, PairOK
<1>14. QED BY <1>10, <1>11, <1>12, <1>13 DEF IInv

\* No statement runs, or what was done is taken back.
LEMMA KeptEnds ==
  ASSUME IInv, UNCHANGED <<database, stored, used, faults>>
  PROVE  Ends({})
<1>1. TypeOK /\ CounterOK
  BY DEF IInv
<1>2. Seen' = Seen
  BY DEF Seen, Numbers
<1>3. QED BY <1>1, <1>2 DEF Ends, TypeOK, CounterOK, Rows

LEMMA RollbackEnds ==
  ASSUME IInv, Rollback, faults' \in {faults, faults + 1}
  PROVE  Ends({})
<1>1. TypeOK /\ CounterOK /\ IsDatabase(durable) /\ durable.last_seq_no = view.last_seq_no
  BY DEF IInv, TypeOK, CounterOK
<1>2. Numbers(durable) \subseteq Seen \cup {}
  BY DEF Seen
<1>3. QED BY <1>1, <1>2, MethodEnds

LEMMA RaisesEnds ==
  ASSUME IInv, BeginRaises \/ Undone
  PROVE  Ends({})
<1>1. CASE BeginRaises
  BY <1>1, KeptEnds DEF BeginRaises
<1>2. CASE Undone
  BY <1>2, RollbackEnds DEF Undone, Fault
<1>3. QED BY <1>1, <1>2

\* A writer's call is over: it returned or raised, and holds no number.
LEMMA WriterStep ==
  ASSUME IInv, NEW w \in Writers, NEW X, X = {} \/ X = Held(w), Ends(X),
         Stores(w) \/ WriterRaises(w),
         \/ pairs' = pairs
         \/ /\ pairs' = pairs \cup {numbers[w]} /\ Len(numbers[w]) = 2
            /\ X = {} \/ Held(w) \subseteq stored'
  PROVE  IInv'
<1>1. ThreadTypes
  BY TypesOfThreads DEF IInv
<1>2. /\ numbers' = [numbers EXCEPT ![w] = <<>>] /\ given' = given
      /\ UNCHANGED senders /\ crashes' = crashes /\ stopping' \in {stopping, TRUE}
  BY DEF Stores, WriterRaises
<1>3. numbers[w] \in Seq(Nat) /\ Held(w) \subseteq Nat
  BY <1>1 DEF ThreadTypes, Held
<1>4. TypeOK'
  <2>1. numbers' \in [Writers -> Seq(Nat)]
    BY <1>1, <1>2 DEF ThreadTypes
  <2>2. wpc' \in [Writers -> {"run", "ended"}]
    BY <1>1 DEF ThreadTypes, Stores, WriterRaises
  <2>3. accepted' \subseteq Nat
    BY <1>1, <1>3 DEF ThreadTypes, Stores, WriterRaises, Held
  <2>4. pairs' \subseteq Seq(Nat)
    BY <1>1, <1>3 DEF ThreadTypes
  <2>5. ThreadTypes'
    BY <1>1, <1>2, <2>1, <2>2, <2>3, <2>4 DEF ThreadTypes
  <2>6. QED BY <2>5, TypeStep
<1>5. CounterOK'
  BY <1>2, CounterStep
<1>6. Held(w) \subseteq given /\ Held(w) \cap (Seen \cup PairNumbers) = {}
  BY DEF IInv, HoldOK, Held
<1>7. Len(numbers[w]) = 2 => {numbers[w][1], numbers[w][2]} \subseteq Held(w)
  BY DEF Held
<1>8. HoldOK'
  <2>1. \A v \in Writers : \/ numbers'[v] = <<>>
                           \/ numbers'[v] = numbers[v] /\ Held(v) \cap Held(w) = {}
    <3>1. \A v \in Writers \ {w} : Held(v) \cap Held(w) = {}
      BY DEF IInv, HoldOK, Held
    <3>2. numbers'[w] = <<>> /\ \A v \in Writers \ {w} : numbers'[v] = numbers[v]
      BY <1>1, <1>2 DEF ThreadTypes
    <3>3. QED BY <3>1, <3>2
  <2>2. Seen' \subseteq Seen \cup Held(w)
    BY DEF Ends
  <2>3. PairNumbers' \subseteq PairNumbers \cup Held(w)
    BY <1>7 DEF PairNumbers
  <2>4. QED BY <1>2, <1>6, <2>1, <2>2, <2>3, HoldStep
<1>9. PairOK'
  <2>1. X \cap PairNumbers = {} /\ Seen' \subseteq Seen \cup X /\ stored \subseteq stored'
    BY <1>6 DEF Ends
  <2>2. ASSUME NEW p \in pairs', p \notin pairs
        PROVE  {p[1], p[2]} \subseteq stored' \/ {p[1], p[2]} \cap Seen' = {}
    <3>1. p = numbers[w] /\ Len(numbers[w]) = 2 /\ (X = {} \/ Held(w) \subseteq stored')
      BY <2>2
    <3>2. {p[1], p[2]} \subseteq Held(w)
      BY <1>7, <3>1
    <3>3. CASE X = {}
      BY <1>6, <2>1, <3>2, <3>3
    <3>4. CASE Held(w) \subseteq stored'
      BY <3>2, <3>4
    <3>5. QED BY <3>1, <3>3, <3>4
  <2>3. QED BY <2>1, <2>2, PairStep
<1>10. QED BY <1>4, <1>5, <1>8, <1>9 DEF IInv

\* A sender's call, or a restart: no number changes hands.
LEMMA PassingStep ==
  ASSUME IInv, Ends({}), UNCHANGED <<given, pairs>>, ThreadTypes',
         \A v \in Writers : numbers'[v] \in {<<>>, numbers[v]}
  PROVE  IInv'
<1>1. Seen' \subseteq Seen \cup {} /\ stored \subseteq stored'
  BY DEF Ends
<1>2. PairNumbers' = PairNumbers
  BY DEF PairNumbers
<1>3. HoldOK'
  BY <1>1, <1>2, HoldStep, {} \subseteq given,
     \A v \in Writers : Held(v) \cap {} = {}
<1>4. PairOK'
  BY <1>1, PairStep, {} \cap PairNumbers = {}
<1>5. QED BY <1>3, <1>4, CounterStep, TypeStep DEF IInv

\* Inserting a held number.
LEMMA HeldInsert ==
  ASSUME IInv, NEW w \in Writers, NEW i \in 1..Len(numbers[w]),
         NEW db, IsDatabase(db), db.last_seq_no = view.last_seq_no
  PROVE  LET e == Insert(db, numbers[w][i])
         IN /\ IsDatabase(e) /\ e.last_seq_no = view.last_seq_no
            /\ Numbers(e) = Numbers(db) \cup {numbers[w][i]}
<1>1. numbers[w][i] \in given /\ given \subseteq Nat
  BY DEF IInv, HoldOK, TypeOK
<1>2. numbers[w][i] <= db.last_seq_no
  BY <1>1 DEF IInv, CounterOK, NumbersDurable
<1>3. QED BY <1>1, <1>2, InsertFacts

LEMMA WriterPreserves ==
  ASSUME IInv, NEW w \in Writers, Writer(w)
  PROVE  IInv'
<1>1. /\ TypeOK /\ CounterOK /\ IsDatabase(view) /\ numbers[w] \in Seq(Nat)
      /\ Len(numbers[w]) <= 2
  BY DEF IInv, TypeOK, HoldOK
<1>2. Numbers(view) \subseteq Seen
  BY DEF Seen
<1>3. CASE NextSequence(w)
  BY <1>3, NextSequenceStep
<1>4. CASE NextSequenceRaises(w)
  <2>1. Ends({}) /\ WriterRaises(w) /\ pairs' = pairs
    BY <1>4, RaisesEnds DEF NextSequenceRaises
  <2>2. QED BY <2>1, WriterStep
<1>5. CASE Enqueue(w) \/ EnqueueRaises(w)
  <2> DEFINE db == Insert(view, numbers[w][1])
  <2>1. Len(numbers[w]) = 1 /\ 1 \in 1..Len(numbers[w]) /\ numbers[w][1] \in Held(w)
    BY <1>5 DEF Enqueue, EnqueueRaises, Held
  <2>2. /\ IsDatabase(db) /\ db.last_seq_no = view.last_seq_no
        /\ Numbers(db) \subseteq Seen \cup Held(w)
    BY <1>1, <1>2, <2>1, HeldInsert
  <2>3. (Commit(db) /\ UNCHANGED faults) \/ LeftBehind(db)
    BY <1>5 DEF Enqueue, EnqueueRaises, Stores
  <2> HIDE DEF db
  <2>4. Ends(Held(w))
    BY <1>1, <2>2, <2>3, MethodEnds
  <2>5. (Stores(w) \/ WriterRaises(w)) /\ pairs' = pairs
    BY <1>5 DEF Enqueue, EnqueueRaises
  <2>6. QED BY <2>4, <2>5, WriterStep
<1>6. CASE EnqueueMany(w)
  <2> DEFINE db == InsertAll(view, numbers[w])
  <2>1. Len(numbers[w]) \in {1, 2}
    <3>1. numbers[w] # <<>>
      BY <1>6 DEF EnqueueMany
    <3>2. Len(numbers[w]) \in Nat /\ Len(numbers[w]) # 0
      BY <1>1, <3>1, EmptySeq
    <3>3. Len(numbers[w]) <= 2
      BY <1>1
    <3>4. \A k \in Nat : k # 0 /\ k <= 2 => k \in {1, 2}
      OBVIOUS
    <3>5. QED BY <3>2, <3>3, <3>4
  <2>2. IsDatabase(db) /\ db.last_seq_no = view.last_seq_no
        /\ Numbers(db) = Numbers(view) \cup Held(w)
    <3>1. CASE Len(numbers[w]) = 1
      <4>1. Held(w) = {numbers[w][1]} /\ 1 \in 1..Len(numbers[w])
        BY <3>1 DEF Held
      <4>2. db = Insert(view, numbers[w][1])
        BY <3>1 DEF InsertAll
      <4>3. QED BY <1>1, <4>1, <4>2, HeldInsert
    <3>2. CASE Len(numbers[w]) = 2
      <4> DEFINE e == Insert(view, numbers[w][1])
      <4>1. /\ Held(w) = {numbers[w][1], numbers[w][2]}
            /\ 1 \in 1..Len(numbers[w]) /\ 2 \in 1..Len(numbers[w])
        BY <3>2 DEF Held
      <4>2. db = Insert(e, numbers[w][2])
        BY <3>2 DEF InsertAll
      <4>3. /\ IsDatabase(e) /\ e.last_seq_no = view.last_seq_no
            /\ Numbers(e) = Numbers(view) \cup {numbers[w][1]}
        BY <1>1, <4>1, HeldInsert
      <4> HIDE DEF e, db
      <4>4. /\ IsDatabase(db) /\ db.last_seq_no = view.last_seq_no
            /\ Numbers(db) = Numbers(e) \cup {numbers[w][2]}
        BY <4>1, <4>2, <4>3, HeldInsert
      <4>5. QED BY <4>1, <4>3, <4>4
    <3>3. QED BY <2>1, <3>1, <3>2
  <2>3. Commit(db) /\ UNCHANGED faults /\ Stores(w) /\ Remember(w)
    BY <1>6 DEF EnqueueMany, Stores
  <2> HIDE DEF db
  <2>4. Ends(Held(w)) /\ Held(w) \subseteq stored'
    <3>1. Numbers(db) \subseteq Seen \cup Held(w)
      BY <1>2, <2>2
    <3>2. Ends(Held(w))
      BY <1>1, <2>2, <2>3, <3>1, MethodEnds
    <3>3. QED BY <2>2, <2>3, <3>2 DEF Commit, Sees
  <2>5. QED BY <2>3, <2>4, WriterStep DEF Remember
<1>7. CASE EnqueueManyRaises(w)
  <2>1. Ends({}) /\ WriterRaises(w) /\ Remember(w)
    BY <1>7, RaisesEnds DEF EnqueueManyRaises
  <2>2. QED BY <2>1, WriterStep DEF Remember
<1>8. QED BY <1>3, <1>4, <1>5, <1>6, <1>7 DEF Writer

LEMMA SenderPreserves ==
  ASSUME IInv, NEW s \in Senders, Sender(s)
  PROVE  IInv'
<1>1. /\ TypeOK /\ CounterOK /\ IsDatabase(view) /\ ThreadTypes
      /\ view.rows \subseteq Rows
  BY TypesOfThreads, NumbersOfDatabase DEF IInv, TypeOK
<1>2. Numbers(view) \subseteq Seen
  BY DEF Seen
<1>3. UNCHANGED writers /\ crashes' = crashes /\ stopping' \in {stopping, TRUE}
  BY DEF Sender, Fetch, Send, Acknowledge, AcknowledgeRaises, RecordFailure,
         RecordFailureRaises, SenderRaises
<1>4. ASSUME Ends({}), spc' \in [Senders -> {"run", "sent", "failed", "ended"}],
             batch' \in [Senders -> SUBSET Rows], delivered' \subseteq Nat
      PROVE  IInv'
  <2>1. ThreadTypes'
    BY <1>1, <1>3, <1>4 DEF ThreadTypes
  <2>2. QED BY <1>3, <1>4, <2>1, PassingStep
<1>5. CASE Fetch(s)
  <2>1. Ends({})
    BY <1>5, KeptEnds DEF Fetch
  <2>2. batch' \in [Senders -> SUBSET Rows]
    BY <1>1, <1>5 DEF Fetch, ThreadTypes
  <2>3. QED BY <1>1, <1>4, <1>5, <2>1, <2>2 DEF Fetch, ThreadTypes
<1>6. CASE Send(s)
  <2>1. Ends({}) /\ batch' = batch
    BY <1>6, KeptEnds DEF Send
  <2>2. PICK r \in batch[s] : delivered' \in {delivered, delivered \cup {r.no}}
    BY <1>6 DEF Send
  <2>3. r.no \in Nat
    BY <1>1 DEF ThreadTypes, Rows
  <2>4. spc' \in [Senders -> {"run", "sent", "failed", "ended"}]
    BY <1>1, <1>6 DEF Send, ThreadTypes
  <2>5. delivered' \subseteq Nat
    BY <1>1, <2>2, <2>3 DEF ThreadTypes
  <2>6. QED BY <1>1, <1>4, <2>1, <2>4, <2>5 DEF ThreadTypes
<1>7. CASE Acknowledge(s) \/ AcknowledgeRaises(s)
  <2>1. PICK r \in batch[s] : \/ Commit(Delete(view, r)) /\ UNCHANGED faults
                              \/ LeftBehind(Delete(view, r))
    BY <1>7 DEF Acknowledge, AcknowledgeRaises
  <2>2. /\ IsDatabase(Delete(view, r)) /\ Delete(view, r).last_seq_no = view.last_seq_no
        /\ Numbers(Delete(view, r)) \subseteq Seen \cup {}
    BY <1>1, <1>2, DeleteFacts
  <2>3. Ends({})
    BY <1>1, <2>1, <2>2, MethodEnds
  <2>4. /\ spc' \in [Senders -> {"run", "sent", "failed", "ended"}]
        /\ batch' \in [Senders -> SUBSET Rows] /\ delivered' = delivered
    BY <1>1, <1>7 DEF Acknowledge, AcknowledgeRaises, SenderRaises, ThreadTypes
  <2>5. QED BY <1>1, <1>4, <2>3, <2>4 DEF ThreadTypes
<1>8. CASE RecordFailure(s) \/ RecordFailureRaises(s)
  <2>1. (Commit(view) /\ UNCHANGED faults) \/ LeftBehind(view)
    BY <1>8 DEF RecordFailure, RecordFailureRaises
  <2>2. Ends({})
    BY <1>1, <1>2, <2>1, MethodEnds
  <2>3. /\ spc' \in [Senders -> {"run", "sent", "failed", "ended"}]
        /\ batch' \in [Senders -> SUBSET Rows] /\ delivered' = delivered
    BY <1>1, <1>8 DEF RecordFailure, RecordFailureRaises, SenderRaises, ThreadTypes
  <2>4. QED BY <1>1, <1>4, <2>2, <2>3 DEF ThreadTypes
<1>9. QED BY <1>5, <1>6, <1>7, <1>8 DEF Sender

\* stop(), start() and the ends of threads touch the threads only.
LEMMA RuntimeLeaves ==
  ASSUME ThreadTypes, Runtime
  PROVE  /\ UNCHANGED <<database, numbers, given, pairs, accepted, batch, delivered,
                         stored, used, faults, crashes>>
         /\ wpc' \in [Writers -> {"run", "ended"}] /\ stopping' \in BOOLEAN
         /\ spc' \in [Senders -> {"run", "sent", "failed", "ended"}]
         /\ \A s \in Senders : spc'[s] = "sent" => spc[s] = "sent"
<1>1. CASE Stop
  BY <1>1 DEF Stop, ThreadTypes
<1>2. CASE \E w \in Writers : WriterEnds(w)
  BY <1>2 DEF WriterEnds, ThreadTypes
<1>3. CASE \E s \in Senders : SenderEnds(s)
  BY <1>3 DEF SenderEnds, ThreadTypes
<1>4. CASE Restart
  BY <1>4 DEF Restart, ThreadTypes
<1>5. QED BY <1>1, <1>2, <1>3, <1>4 DEF Runtime

LEMMA IInvNext == IInv /\ [Next]_vars => IInv'
<1> SUFFICES ASSUME IInv, [Next]_vars PROVE IInv'
  OBVIOUS
<1>1. TypeOK /\ ThreadTypes
  BY TypesOfThreads DEF IInv
<1>2. CASE \E w \in Writers : Writer(w)
  BY <1>2, WriterPreserves
<1>3. CASE \E s \in Senders : Sender(s)
  BY <1>3, SenderPreserves
<1>4. CASE Runtime
  <2>1. Ends({}) /\ UNCHANGED <<given, pairs, numbers>>
    BY <1>1, <1>4, KeptEnds, RuntimeLeaves
  <2>2. ThreadTypes'
    BY <1>1, <1>4, RuntimeLeaves DEF ThreadTypes
  <2>3. QED BY <2>1, <2>2, PassingStep
<1>5. CASE Crash
  <2>1. Ends({})
    BY <1>5, RollbackEnds DEF Crash
  <2>2. numbers' = [w \in Writers |-> <<>>] /\ UNCHANGED <<given, pairs>>
    BY <1>5 DEF Crash
  <2>3. ThreadTypes'
    <3>1. <<>> \in Seq(Nat)
      OBVIOUS
    <3>2. numbers' \in [Writers -> Seq(Nat)]
      BY <2>2, <3>1
    <3>3. /\ wpc' \in [Writers -> {"run", "ended"}] /\ stopping' \in BOOLEAN
          /\ spc' \in [Senders -> {"run", "sent", "failed", "ended"}]
      BY <1>5 DEF Crash, OneRuns
    <3>4. /\ batch' = [s \in Senders |-> {}] /\ crashes' = crashes + 1
          /\ UNCHANGED <<given, pairs, accepted, delivered>>
      BY <1>5 DEF Crash
    <3>5. QED BY <1>1, <3>2, <3>3, <3>4 DEF ThreadTypes
  <2>4. QED BY <2>1, <2>2, <2>3, PassingStep
<1>6. CASE UNCHANGED vars
  <2>1. Ends({}) /\ ThreadTypes' /\ UNCHANGED <<given, pairs, numbers>>
    BY <1>1, <1>6, KeptEnds DEF vars, ThreadTypes
  <2>2. QED BY <2>1, PassingStep
<1>7. QED BY <1>2, <1>3, <1>4, <1>5, <1>6 DEF Next, Finished

LEMMA InductiveInvariant == Spec => []IInv
BY IInvInit, IInvNext, PTL DEF Spec
-----------------------------------------------------------------------------
\* The state keeps its shape, whatever calls fail or are cut short: the
\* counters of the file and of an open transaction are ahead of their rows.
THEOREM BlackboxTypes == Spec => []TypeOK
<1>1. IInv => TypeOK
  BY DEF IInv
<1>2. QED BY <1>1, InductiveInvariant, PTL

\* A number next_sequence returned is covered by the committed counter: no
\* rollback or crash, of any thread at any time, reissues it.
THEOREM NumbersKept == Spec => []NumbersDurable
<1>1. IInv => NumbersDurable
  BY DEF IInv, CounterOK
<1>2. QED BY <1>1, InductiveInvariant, PTL

\* enqueue_many is all or nothing: the two messages of a transition or of a
\* danger window are both committed at some time, or neither ever is.
THEOREM PairsTogether == Spec => []BatchAtomic
<1>1. IInv => BatchAtomic
  BY DEF IInv, PairOK, BatchAtomic, Seen
<1>2. QED BY <1>1, InductiveInvariant, PTL
-----------------------------------------------------------------------------
(* What becomes of a message whose enqueue returned.                       *)

\* Out, or rolled back once together with its row id, which another message
\* got: the exception of the properties.
Settled(n) == n \in delivered \/ Reused(n)

\* Rows come from transactions some connection saw, and have ids of their own.
RowsOK ==
  \A d \in {view, durable} :
    /\ d.rows \subseteq used
    /\ \A r, q \in d.rows : r.id = q.id => r = q

\* So do the rows of a batch, also when they were rolled back since; the row
\* that is acknowledged next was sent.
BatchOK ==
  \A s \in Senders :
    /\ batch[s] \subseteq used
    /\ \A r, q \in batch[s] : r.id = q.id => r = q
    /\ spc[s] = "sent" => \A r \in batch[s] : Current(s, r) => r.no \in delivered

\* The promise has to hold of the open transaction too: it may be committed.
KeptOK ==
  \A n \in accepted : \A d \in {view, durable} : n \in Numbers(d) \/ Settled(n)

KInv == RowsOK /\ BatchOK /\ KeptOK

\* How a method leaves the connection, when db is what its statement makes of
\* the view.
Leaves(db) ==
  /\ view' \in {db, view, durable}
  /\ (view' = db /\ durable' = db) \/ durable' = durable
  /\ used \subseteq used' /\ view'.rows \subseteq used'
  /\ used' \subseteq used \cup view'.rows

LEMMA SettledStays ==
  ASSUME NEW n, Settled(n), used \subseteq used', delivered \subseteq delivered'
  PROVE  Settled(n)'
BY DEF Settled, Reused

LEMMA Leaving ==
  ASSUME RowsOK, NEW db,
         \/ Commit(db)
         \/ LeftBehind(db)
         \/ Rollback
         \/ UNCHANGED <<view, durable, used>>
  PROVE  Leaves(db)
<1>1. view.rows \subseteq used /\ durable.rows \subseteq used
  BY DEF RowsOK
<1>2. ASSUME NEW d \in {db, view, durable}, NEW f \in {db, durable},
             NEW b \in BOOLEAN, Sees(d, f, b), f = durable \/ f = d
      PROVE  Leaves(db)
  BY <1>2 DEF Sees, Leaves
<1>3. CASE Commit(db)
  BY <1>2, <1>3 DEF Commit
<1>4. CASE LeftBehind(db)
  BY <1>2, <1>4 DEF LeftBehind, Rollback
<1>5. CASE Rollback
  BY <1>2, <1>5 DEF Rollback
<1>6. CASE UNCHANGED <<view, durable, used>>
  BY <1>1, <1>6 DEF Leaves
<1>7. QED BY <1>3, <1>4, <1>5, <1>6

\* One method's step: what it takes from the view is settled, and what it
\* accepts is committed.
LEMMA KeptStep ==
  ASSUME KInv, NEW db, Leaves(db), delivered \subseteq delivered', BatchOK',
         \A r, q \in db.rows : r.id = q.id => r = q,
         \A n \in Numbers(view) : n \in Numbers(db) \/ Settled(n)',
         \/ accepted' = accepted
         \/ view' = db /\ durable' = db /\ accepted' \subseteq accepted \cup Numbers(db)
  PROVE  KInv'
<1>1. RowsOK'
  <2>1. \A d \in {db, view, durable} : \A r, q \in d.rows : r.id = q.id => r = q
    BY DEF KInv, RowsOK
  <2>2. view' \in {db, view, durable} /\ durable' \in {db, view, durable}
    BY DEF Leaves
  <2>3. view'.rows \subseteq used' /\ durable'.rows \subseteq used'
    BY DEF Leaves, KInv, RowsOK
  <2>4. QED BY <2>1, <2>2, <2>3 DEF RowsOK
<1>2. ASSUME NEW n \in accepted'
      PROVE  \A d \in {view', durable'} : n \in Numbers(d) \/ Settled(n)'
  <2>1. CASE n \in accepted
    <3>1. \A d \in {view, durable} : n \in Numbers(d) \/ Settled(n)
      BY <2>1 DEF KInv, KeptOK
    <3>2. Settled(n) => Settled(n)'
      BY SettledStays DEF Leaves
    <3>3. \A d \in {db, view, durable} : n \in Numbers(d) \/ Settled(n)'
      BY <3>1, <3>2
    <3>4. QED BY <3>3 DEF Leaves
  <2>2. CASE n \notin accepted
    <3>1. view' = db /\ durable' = db /\ n \in Numbers(db)
      BY <1>2, <2>2
    <3>2. QED BY <3>1
  <2>3. QED BY <2>1, <2>2
<1>3. KeptOK'
  BY <1>2 DEF KeptOK, Numbers
<1>4. QED BY <1>1, <1>3 DEF KInv

\* A batch is kept or given up.
LEMMA BatchStep ==
  ASSUME BatchOK, used \subseteq used', delivered \subseteq delivered',
         \A s \in Senders : \/ batch'[s] = {}
                            \/ batch'[s] = batch[s] /\ (spc'[s] = "sent" => spc[s] = "sent")
  PROVE  BatchOK'
<1>1. ASSUME NEW s \in Senders
      PROVE  /\ batch'[s] \subseteq used'
             /\ \A r, q \in batch'[s] : r.id = q.id => r = q
  BY DEF BatchOK
<1>2. ASSUME NEW s \in Senders, spc'[s] = "sent", NEW r \in batch'[s], Current(s, r)'
      PROVE  r.no \in delivered'
  <2>1. batch'[s] = batch[s] /\ spc[s] = "sent"
    BY <1>2
  <2>2. Current(s, r)
    BY <1>2, <2>1 DEF Current
  <2>3. QED BY <1>2, <2>1, <2>2 DEF BatchOK
<1>3. QED BY <1>1, <1>2 DEF BatchOK

LEMMA InsertKeeps ==
  ASSUME NEW db, IsDatabase(db), NEW n \in Nat, n <= db.last_seq_no,
         \A r, q \in db.rows : r.id = q.id => r = q
  PROVE  /\ \A r, q \in Insert(db, n).rows : r.id = q.id => r = q
         /\ Numbers(db) \subseteq Numbers(Insert(db, n))
<1>1. CASE n \in Numbers(db)
  BY <1>1 DEF Insert
<1>2. CASE n \notin Numbers(db)
  <2> DEFINE new == Row(db.last_row_id + 1, n)
  <2>1. /\ db.rows \subseteq Rows /\ db.last_row_id \in Nat
        /\ \A r \in db.rows : r.id <= db.last_row_id
    BY DEF IsDatabase, Databases, Rows
  <2>2. new.id = db.last_row_id + 1
    BY DEF Row
  <2>3. Insert(db, n).rows = db.rows \cup {new}
    BY <1>2 DEF Insert, IsDatabase, Databases
  <2> HIDE DEF new
  <2>4. \A r \in db.rows : r.id # new.id
    BY <2>1, <2>2 DEF Rows
  <2>5. QED BY <2>3, <2>4, InsertFacts
<1>3. QED BY <1>1, <1>2

\* What insert makes of the view, for the numbers a writer holds.
LEMMA InsertAllKeeps ==
  ASSUME IInv, RowsOK, NEW w \in Writers, Len(numbers[w]) \in {1, 2},
         NEW db, db = InsertAll(view, numbers[w])
  PROVE  /\ IsDatabase(db) /\ db.last_seq_no = view.last_seq_no
         /\ \A r, q \in db.rows : r.id = q.id => r = q
         /\ Numbers(db) = Numbers(view) \cup Held(w)
<1>1. /\ IsDatabase(view) /\ \A r, q \in view.rows : r.id = q.id => r = q
  BY DEF IInv, TypeOK, RowsOK
<1>2. \A i \in 1..Len(numbers[w]) : numbers[w][i] \in Nat /\ numbers[w][i] <= view.last_seq_no
  BY DEF IInv, HoldOK, TypeOK, CounterOK, NumbersDurable
<1>3. CASE Len(numbers[w]) = 1
  <2>1. Held(w) = {numbers[w][1]} /\ 1 \in 1..Len(numbers[w])
    BY <1>3 DEF Held
  <2>2. db = Insert(view, numbers[w][1])
    BY <1>3 DEF InsertAll
  <2>3. QED BY <1>1, <1>2, <2>1, <2>2, InsertFacts, InsertKeeps
<1>4. CASE Len(numbers[w]) = 2
  <2> DEFINE e == Insert(view, numbers[w][1])
  <2>1. /\ Held(w) = {numbers[w][1], numbers[w][2]}
        /\ 1 \in 1..Len(numbers[w]) /\ 2 \in 1..Len(numbers[w])
    BY <1>4 DEF Held
  <2>2. db = Insert(e, numbers[w][2])
    BY <1>4 DEF InsertAll
  <2>3. /\ IsDatabase(e) /\ e.last_seq_no = view.last_seq_no
        /\ Numbers(e) = Numbers(view) \cup {numbers[w][1]}
    BY <1>1, <2>1, HeldInsert
  <2>4. \A r, q \in e.rows : r.id = q.id => r = q
    BY <1>1, <1>2, <2>1, InsertKeeps
  <2> HIDE DEF e
  <2>5. /\ IsDatabase(db) /\ db.last_seq_no = view.last_seq_no
        /\ Numbers(db) = Numbers(e) \cup {numbers[w][2]}
    BY <1>2, <2>1, <2>2, <2>3, InsertFacts
  <2>6. \A r, q \in db.rows : r.id = q.id => r = q
    BY <1>2, <2>1, <2>2, <2>3, <2>4, InsertKeeps
  <2>7. QED BY <2>1, <2>3, <2>5, <2>6
<1>5. QED BY <1>3, <1>4

\* What a writer's call does to the database: its statement inserts the numbers
\* the writer holds, or nothing.
LEMMA WriterLeaves ==
  ASSUME IInv, RowsOK, NEW w \in Writers, Writer(w)
  PROVE  /\ UNCHANGED senders
         /\ \/ NextSequence(w)
            \/ /\ Leaves(view) /\ UNCHANGED accepted
               /\ NextSequenceRaises(w) \/ EnqueueManyRaises(w)
            \/ \E db : /\ Leaves(db) /\ db = InsertAll(view, numbers[w])
                       /\ Len(numbers[w]) \in {1, 2} /\ numbers'[w] = <<>>
                       /\ \/ UNCHANGED accepted
                          \/ /\ view' = db /\ durable' = db
                             /\ accepted' = accepted \cup Held(w)
<1>1. Len(numbers[w]) <= 2 /\ numbers[w] \in Seq(Nat) /\ numbers \in [Writers -> Seq(Nat)]
  BY DEF IInv, HoldOK, TypeOK
<1>2. numbers[w] # <<>> => Len(numbers[w]) \in {1, 2}
  <2>1. Len(numbers[w]) \in Nat /\ (numbers[w] # <<>> => Len(numbers[w]) # 0)
    BY <1>1, EmptySeq
  <2>2. \A k \in Nat : k # 0 /\ k <= 2 => k \in {1, 2}
    OBVIOUS
  <2>3. QED BY <1>1, <2>1, <2>2
<1>3. UNCHANGED senders
  BY DEF Writer, NextSequence, NextSequenceRaises, Enqueue, EnqueueRaises, EnqueueMany,
         EnqueueManyRaises, Stores, WriterRaises
<1>4. CASE NextSequenceRaises(w) \/ EnqueueManyRaises(w)
  <2>1. BeginRaises \/ Undone
    BY <1>4 DEF NextSequenceRaises, EnqueueManyRaises
  <2>2. Rollback \/ UNCHANGED <<view, durable, used>>
    BY <2>1 DEF BeginRaises, Undone
  <2>3. Leaves(view)
    BY <2>2, Leaving
  <2>4. UNCHANGED accepted
    BY <1>4 DEF NextSequenceRaises, EnqueueManyRaises, WriterRaises
  <2>5. QED BY <1>3, <1>4, <2>3, <2>4
<1>5. CASE Enqueue(w) \/ EnqueueRaises(w) \/ EnqueueMany(w)
  <2> DEFINE db == InsertAll(view, numbers[w])
  <2>1. Len(numbers[w]) \in {1, 2}
    BY <1>2, <1>5 DEF Enqueue, EnqueueRaises, EnqueueMany
  <2>2. /\ Commit(db) \/ LeftBehind(db)
        /\ UNCHANGED accepted \/ (Commit(db) /\ accepted' = accepted \cup Held(w))
        /\ numbers' = [numbers EXCEPT ![w] = <<>>]
    <3>1. CASE Enqueue(w)
      BY <3>1 DEF Enqueue, Stores, InsertAll, Held
    <3>2. CASE EnqueueRaises(w)
      BY <3>2 DEF EnqueueRaises, WriterRaises, InsertAll
    <3>3. CASE EnqueueMany(w)
      BY <3>3 DEF EnqueueMany, Stores, Held
    <3>4. QED BY <1>5, <3>1, <3>2, <3>3
  <2> HIDE DEF db
  <2>3. Leaves(db)
    BY <2>2, Leaving
  <2>4. numbers'[w] = <<>>
    BY <1>1, <2>2
  <2>5. Commit(db) => view' = db /\ durable' = db
    BY DEF Commit, Sees
  <2>6. QED BY <1>3, <2>1, <2>2, <2>3, <2>4, <2>5 DEF db
<1>6. QED BY <1>3, <1>4, <1>5 DEF Writer

\* What next_sequence does to it: one more number, and the same rows.
LEMMA NumberLeaves ==
  ASSUME IInv, RowsOK, NEW w \in Writers, NextSequence(w)
  PROVE  /\ view' = durable' /\ view'.rows = view.rows
         /\ view'.last_seq_no = view.last_seq_no + 1
         /\ used' = used /\ UNCHANGED <<accepted, senders>> /\ view = durable
<1>1. /\ Commit([view EXCEPT !.last_seq_no = view.last_seq_no + 1]) /\ ~open
      /\ UNCHANGED <<accepted, senders>>
  BY DEF NextSequence
<1>2. view \in Databases
  BY DEF IInv, TypeOK, IsDatabase
<1>3. view' = durable' /\ view'.rows = view.rows /\ used' = used \cup view'.rows
      /\ view'.last_seq_no = view.last_seq_no + 1
  BY <1>1, <1>2 DEF Commit, Sees, Databases
<1>4. view.rows \subseteq used /\ view = durable
  BY <1>1 DEF RowsOK, IInv, CounterOK
<1>5. QED BY <1>1, <1>3, <1>4

\* What a sender's call, a restart or the end of the process does to it: a
\* statement deletes a row by its id, or changes no row.
LEMMA SenderLeaves ==
  ASSUME IInv, KInv, NEW s \in Senders, Sender(s)
  PROVE  /\ UNCHANGED <<numbers, accepted>> /\ delivered \subseteq delivered'
         /\ \/ Leaves(view)
            \/ /\ Acknowledge(s) \/ AcknowledgeRaises(s)
               /\ \E r \in batch[s] : Current(s, r) /\ Leaves(Delete(view, r))
<1>1. UNCHANGED <<numbers, accepted>> /\ delivered \subseteq delivered'
  BY DEF Sender, Fetch, Send, Acknowledge, AcknowledgeRaises, RecordFailure,
         RecordFailureRaises, SenderRaises
<1>2. RowsOK
  BY DEF KInv
<1>3. CASE Fetch(s) \/ Send(s)
  BY <1>1, <1>2, <1>3, Leaving DEF Fetch, Send
<1>4. CASE Acknowledge(s) \/ AcknowledgeRaises(s)
  <2>1. PICK r \in batch[s] : /\ Current(s, r)
                              /\ Commit(Delete(view, r)) \/ LeftBehind(Delete(view, r))
    BY <1>4 DEF Acknowledge, AcknowledgeRaises
  <2>2. Leaves(Delete(view, r))
    BY <1>2, <2>1, Leaving
  <2>3. QED BY <1>1, <1>4, <2>1, <2>2
<1>5. CASE RecordFailure(s) \/ RecordFailureRaises(s)
  BY <1>1, <1>2, <1>5, Leaving DEF RecordFailure, RecordFailureRaises
<1>6. QED BY <1>3, <1>4, <1>5 DEF Sender

LEMMA KInvInit == Init => KInv
BY DEF Init, Empty, KInv, RowsOK, BatchOK, KeptOK

\* The row a sender acknowledges was sent, so that what else goes with its id
\* is an exception.
LEMMA DeleteSettles ==
  ASSUME IInv, KInv, NEW s \in Senders, spc[s] = "sent", NEW r \in batch[s],
         Current(s, r), used \subseteq used', delivered' = delivered
  PROVE  /\ \A n \in Numbers(view) : n \in Numbers(Delete(view, r)) \/ Settled(n)'
         /\ Delete(view, r).rows \subseteq view.rows
<1>1. Delete(view, r).rows = {q \in view.rows : q.id # r.id}
  BY DEF Delete, IInv, TypeOK, IsDatabase, Databases
<1>2. r \in used /\ r.no \in delivered /\ view.rows \subseteq used
  BY DEF KInv, BatchOK, RowsOK
<1>3. ASSUME NEW n \in Numbers(view)
      PROVE  n \in Numbers(Delete(view, r)) \/ Settled(n)'
  <2>1. PICK q \in view.rows : q.no = n
    BY DEF Numbers
  <2>2. CASE q.id # r.id
    BY <1>1, <2>1, <2>2 DEF Numbers
  <2>3. CASE q.id = r.id /\ q.no = r.no
    BY <1>2, <2>1, <2>3 DEF Settled
  <2>4. CASE q.id = r.id /\ q.no # r.no
    <3>1. q \in used' /\ r \in used'
      BY <1>2
    <3>2. QED BY <2>1, <2>4, <3>1 DEF Settled, Reused
  <2>5. QED BY <2>2, <2>3, <2>4
<1>4. QED BY <1>1, <1>3

LEMMA SenderBatch ==
  ASSUME IInv, KInv, NEW s \in Senders, Sender(s), used \subseteq used',
         delivered \subseteq delivered'
  PROVE  BatchOK'
<1>1. /\ batch \in [Senders -> SUBSET Rows]
      /\ spc \in [Senders -> {"run", "sent", "failed", "ended"}]
  BY DEF IInv, TypeOK, Rows
<1>2. /\ BatchOK /\ view.rows \subseteq used
      /\ \A r, q \in view.rows : r.id = q.id => r = q
  BY DEF KInv, RowsOK
<1>3. CASE Fetch(s)
  <2>1. PICK S \in SUBSET view.rows : batch' = [batch EXCEPT ![s] = S]
    BY <1>3 DEF Fetch
  <2>2. spc' = spc /\ spc[s] = "run"
    BY <1>3 DEF Fetch
  <2>3. /\ batch'[s] \subseteq view.rows /\ spc'[s] # "sent"
        /\ \A v \in Senders \ {s} : batch'[v] = batch[v] /\ spc'[v] = spc[v]
    BY <1>1, <2>1, <2>2
  <2>4. \A v \in Senders \ {s} : \A r : Current(v, r)' = Current(v, r)
    BY <2>3 DEF Current
  <2>5. ASSUME NEW v \in Senders
        PROVE  /\ batch'[v] \subseteq used'
               /\ \A r, q \in batch'[v] : r.id = q.id => r = q
               /\ spc'[v] = "sent" => \A r \in batch'[v] : Current(v, r)' => r.no \in delivered'
    <3>1. CASE v = s
      BY <1>2, <2>3, <3>1
    <3>2. CASE v # s
      BY <1>2, <2>3, <2>4, <3>2 DEF BatchOK
    <3>3. QED BY <3>1, <3>2
  <2>6. QED BY <2>5 DEF BatchOK
<1>4. CASE Send(s)
  <2>1. PICK r \in batch[s] :
          /\ Current(s, r)
          /\ \/ spc' = [spc EXCEPT ![s] = "sent"] /\ delivered' = delivered \cup {r.no}
             \/ spc' = [spc EXCEPT ![s] = "failed"]
    BY <1>4 DEF Send
  <2>2. batch' = batch
    BY <1>4 DEF Send
  <2>3. \A v \in Senders \ {s} : spc'[v] = spc[v]
    BY <1>1, <2>1
  <2>4. \A v \in Senders : \A q : Current(v, q)' = Current(v, q)
    BY <2>2 DEF Current
  <2>5. ASSUME spc'[s] = "sent", NEW q \in batch[s], Current(s, q)
        PROVE  q.no \in delivered'
    <3>1. delivered' = delivered \cup {r.no}
      BY <1>1, <2>1, <2>5
    <3>2. r.id = q.id
      BY <1>1, <2>1, <2>5 DEF Current, Rows
    <3>3. r = q
      BY <1>2, <3>2 DEF BatchOK
    <3>4. QED BY <3>1, <3>3
  <2>6. ASSUME NEW v \in Senders
        PROVE  /\ batch'[v] \subseteq used'
               /\ \A q, p \in batch'[v] : q.id = p.id => q = p
               /\ spc'[v] = "sent" => \A q \in batch'[v] : Current(v, q)' => q.no \in delivered'
    <3>1. CASE v = s
      BY <1>2, <2>2, <2>4, <2>5, <3>1 DEF BatchOK
    <3>2. CASE v # s
      BY <1>2, <2>2, <2>3, <2>4, <3>2 DEF BatchOK
    <3>3. QED BY <3>1, <3>2
  <2>7. QED BY <2>6 DEF BatchOK
<1>5. CASE Acknowledge(s)
  <2>1. PICK r \in batch[s] : batch' = [batch EXCEPT ![s] = @ \ {r}]
    BY <1>5 DEF Acknowledge
  <2>2. spc' = [spc EXCEPT ![s] = "run"]
    BY <1>5 DEF Acknowledge
  <2>3. /\ batch'[s] \subseteq batch[s] /\ spc'[s] # "sent"
        /\ \A v \in Senders \ {s} : batch'[v] = batch[v] /\ spc'[v] = spc[v]
    BY <1>1, <2>1, <2>2
  <2>4. \A v \in Senders \ {s} : \A q : Current(v, q)' = Current(v, q)
    BY <2>3 DEF Current
  <2>5. ASSUME NEW v \in Senders
        PROVE  /\ batch'[v] \subseteq used'
               /\ \A q, p \in batch'[v] : q.id = p.id => q = p
               /\ spc'[v] = "sent" => \A q \in batch'[v] : Current(v, q)' => q.no \in delivered'
    <3>1. CASE v = s
      BY <1>2, <2>3, <3>1 DEF BatchOK
    <3>2. CASE v # s
      BY <1>2, <2>3, <2>4, <3>2 DEF BatchOK
    <3>3. QED BY <3>1, <3>2
  <2>6. QED BY <2>5 DEF BatchOK
<1>6. CASE AcknowledgeRaises(s) \/ RecordFailure(s) \/ RecordFailureRaises(s)
  <2>1. /\ batch' = [batch EXCEPT ![s] = {}]
        /\ spc' \in {[spc EXCEPT ![s] = "run"], [spc EXCEPT ![s] = "ended"]}
    BY <1>6 DEF AcknowledgeRaises, RecordFailure, RecordFailureRaises, SenderRaises
  <2>2. \A v \in Senders : batch'[v] = {} \/ (batch'[v] = batch[v] /\ spc'[v] = spc[v])
    BY <1>1, <2>1
  <2>3. QED BY <1>2, <2>2, BatchStep
<1>7. QED BY <1>3, <1>4, <1>5, <1>6 DEF Sender

LEMMA KInvNext == IInv /\ KInv /\ [Next]_vars => KInv'
<1> SUFFICES ASSUME IInv, KInv, [Next]_vars PROVE KInv'
  OBVIOUS
<1>1. /\ RowsOK /\ BatchOK /\ \A r, q \in view.rows : r.id = q.id => r = q
      /\ batch \in [Senders -> SUBSET Rows]
      /\ spc \in [Senders -> {"run", "sent", "failed", "ended"}]
      /\ ThreadTypes
  BY TypesOfThreads DEF KInv, RowsOK, IInv, TypeOK, Rows
<1>2. ASSUME NEW w \in Writers, Writer(w)
      PROVE  KInv'
  <2>1. CASE NextSequence(w)
    <3>1. /\ view' = durable' /\ view'.rows = view.rows /\ view = durable
          /\ used' = used /\ UNCHANGED <<accepted, spc, batch, delivered>>
      BY <1>1, <2>1, NumberLeaves
    <3>2. Numbers(view') = Numbers(view) /\ \A n : Settled(n)' = Settled(n)
      BY <3>1 DEF Numbers, Settled, Reused
    <3>3. BatchOK'
      BY <1>1, <3>1, BatchStep
    <3>4. RowsOK'
      BY <1>1, <3>1 DEF RowsOK
    <3>5. KeptOK'
      BY <3>1, <3>2 DEF KInv, KeptOK, Numbers
    <3>6. QED BY <3>3, <3>4, <3>5 DEF KInv
  <2>2. CASE Leaves(view) /\ UNCHANGED <<accepted, spc, batch, delivered>>
    <3>1. BatchOK'
      BY <1>1, <2>2, BatchStep DEF Leaves
    <3>2. QED BY <1>1, <2>2, <3>1, KeptStep
  <2>3. ASSUME NEW db, Leaves(db), db = InsertAll(view, numbers[w]),
               Len(numbers[w]) \in {1, 2}, UNCHANGED senders,
               \/ UNCHANGED accepted
               \/ view' = db /\ durable' = db /\ accepted' = accepted \cup Held(w)
        PROVE  KInv'
    <3>1. /\ \A r, q \in db.rows : r.id = q.id => r = q
          /\ Numbers(db) = Numbers(view) \cup Held(w)
      BY <1>1, <2>3, InsertAllKeeps
    <3>2. BatchOK'
      BY <1>1, <2>3, BatchStep DEF Leaves
    <3>3. /\ \A n \in Numbers(view) : n \in Numbers(db) \/ Settled(n)'
          /\ \/ accepted' = accepted
             \/ view' = db /\ durable' = db /\ accepted' \subseteq accepted \cup Numbers(db)
      BY <2>3, <3>1
    <3>4. QED BY <2>3, <3>1, <3>2, <3>3, KeptStep
  <2>4. QED BY <1>1, <1>2, <2>1, <2>2, <2>3, WriterLeaves
<1>3. ASSUME NEW s \in Senders, Sender(s)
      PROVE  KInv'
  <2>1. UNCHANGED accepted /\ delivered \subseteq delivered'
    BY <1>3, SenderLeaves
  <2>2. CASE Leaves(view)
    <3>1. BatchOK'
      BY <1>3, <2>1, <2>2, SenderBatch DEF Leaves
    <3>2. QED BY <1>1, <2>1, <2>2, <3>1, KeptStep
  <2>3. ASSUME Acknowledge(s) \/ AcknowledgeRaises(s), NEW r \in batch[s],
               Current(s, r), Leaves(Delete(view, r))
        PROVE  KInv'
    <3>1. BatchOK' /\ spc[s] = "sent" /\ delivered' = delivered
      BY <1>3, <2>1, <2>3, SenderBatch
         DEF Leaves, Acknowledge, AcknowledgeRaises, SenderRaises
    <3>2. /\ \A n \in Numbers(view) : n \in Numbers(Delete(view, r)) \/ Settled(n)'
          /\ Delete(view, r).rows \subseteq view.rows
      BY <2>3, <3>1, DeleteSettles DEF Leaves
    <3>3. QED BY <1>1, <2>1, <2>3, <3>1, <3>2, KeptStep
  <2>4. QED BY <1>3, <2>2, <2>3, SenderLeaves
<1>4. CASE Runtime \/ Crash \/ UNCHANGED vars
  <2>1. Leaves(view) /\ UNCHANGED <<accepted, delivered>>
    BY <1>1, <1>4, Leaving, RuntimeLeaves DEF Crash, vars
  <2>2. \A s \in Senders : \/ batch'[s] = {}
                           \/ batch'[s] = batch[s] /\ (spc'[s] = "sent" => spc[s] = "sent")
    BY <1>1, <1>4, RuntimeLeaves DEF Crash, vars
  <2>3. BatchOK'
    BY <1>1, <2>1, <2>2, BatchStep DEF Leaves
  <2>4. QED BY <1>1, <2>1, <2>3, KeptStep
<1>5. QED BY <1>2, <1>3, <1>4 DEF Next, Finished

\* What enqueue or enqueue_many accepted stays in the file until it was sent,
\* whatever calls fail and whatever transactions they leave open, but for a
\* message rolled back with its row id.
THEOREM KeptSafe == Spec => []KeptUntilSent
<1>1. KInv => KeptUntilSent
  BY DEF KInv, KeptOK, KeptUntilSent, Settled
<1>2. Spec => []KInv
  BY InductiveInvariant, KInvInit, KInvNext, PTL DEF Spec
<1>3. QED BY <1>1, <1>2, PTL
-----------------------------------------------------------------------------
(* The order of delivery, with one spooler and any number of senders.      *)

OneWriter == \A v, w \in Writers : v = w

Ordered(R) == \A r, q \in R : r.id < q.id => r.no < q.no

\* The numbers the spooler holds are above those of every row there ever was.
NewestOK ==
  /\ \A u \in used : u.no <= view.last_seq_no
  /\ \A w \in Writers : \A i \in 1..Len(numbers[w]), u \in used : u.no < numbers[w][i]
  /\ \A w \in Writers : Len(numbers[w]) = 2 => numbers[w][1] < numbers[w][2]

RowOrder == Ordered(view.rows) /\ Ordered(durable.rows)

\* What an open transaction has deleted may come back, but is settled.
Gone == \A m \in Numbers(durable) : m \in Numbers(view) \/ Settled(m)

Out == \A n \in delivered : \E u \in used : u.no = n

\* Nothing waits that is older than a row of a batch and not in the batch.
BatchOrder ==
  \A s \in Senders :
    /\ Ordered(batch[s])
    /\ \A r \in batch[s], m \in Numbers(view) :
         m < r.no => Settled(m) \/ \E q \in batch[s] : q.no = m

OInv ==
  OneWriter /\ NewestOK /\ RowOrder /\ Gone /\ Out /\ BatchOrder /\ NoneOvertakes

LEMMA InsertOrdered ==
  ASSUME NEW db, IsDatabase(db), NEW n \in Nat, Ordered(db.rows),
         \A q \in db.rows : q.no < n
  PROVE  Ordered(Insert(db, n).rows) /\ \A q \in Insert(db, n).rows : q.no <= n
<1>1. n \notin Numbers(db) /\ db.rows \subseteq Rows /\ db.last_row_id \in Nat
      /\ \A r \in db.rows : r.id <= db.last_row_id
  BY DEF Numbers, IsDatabase, Databases, Rows
<1> DEFINE new == Row(db.last_row_id + 1, n)
<1>2. new.id = db.last_row_id + 1 /\ new.no = n
  BY DEF Row
<1>3. Insert(db, n).rows = db.rows \cup {new}
  BY <1>1 DEF Insert, IsDatabase, Databases
<1> HIDE DEF new
<1>4. ASSUME NEW r \in db.rows \cup {new}, NEW q \in db.rows \cup {new}, r.id < q.id
      PROVE  r.no < q.no
  <2>1. CASE r = new
    BY <1>1, <1>2, <1>4, <2>1 DEF Rows
  <2>2. CASE r # new /\ q = new
    BY <1>2, <2>2
  <2>3. CASE r # new /\ q # new
    BY <1>4, <2>3 DEF Ordered
  <2>4. QED BY <2>1, <2>2, <2>3
<1>5. \A q \in db.rows \cup {new} : q.no <= n
  BY <1>1, <1>2 DEF Rows
<1>6. QED BY <1>3, <1>4, <1>5 DEF Ordered

LEMMA InsertAllOrdered ==
  ASSUME IInv, KInv, OInv, NEW w \in Writers, Len(numbers[w]) \in {1, 2},
         NEW db, db = InsertAll(view, numbers[w])
  PROVE  Ordered(db.rows)
<1>1. IsDatabase(view) /\ Ordered(view.rows) /\ view.rows \subseteq used /\ used \subseteq Rows
  BY DEF IInv, TypeOK, KInv, RowsOK, OInv, RowOrder, Rows
<1>2. \A i \in 1..Len(numbers[w]) : /\ numbers[w][i] \in Nat
                                    /\ numbers[w][i] <= view.last_seq_no
                                    /\ \A q \in view.rows : q.no < numbers[w][i]
  BY <1>1 DEF IInv, HoldOK, TypeOK, CounterOK, NumbersDurable, OInv, NewestOK
<1>3. CASE Len(numbers[w]) = 1
  BY <1>1, <1>2, <1>3, InsertOrdered DEF InsertAll
<1>4. CASE Len(numbers[w]) = 2
  <2> DEFINE e == Insert(view, numbers[w][1])
  <2>1. /\ 1 \in 1..Len(numbers[w]) /\ 2 \in 1..Len(numbers[w])
        /\ numbers[w][1] < numbers[w][2]
    BY <1>4 DEF OInv, NewestOK
  <2>2. db = Insert(e, numbers[w][2])
    BY <1>4 DEF InsertAll
  <2>3. IsDatabase(e)
    BY <1>1, <1>2, <2>1, InsertFacts
  <2>4. Ordered(e.rows) /\ \A q \in e.rows : q.no <= numbers[w][1]
    BY <1>1, <1>2, <2>1, InsertOrdered
  <2> HIDE DEF e
  <2>5. \A q \in e.rows : q.no < numbers[w][2]
    BY <1>2, <2>1, <2>3, <2>4 DEF IsDatabase, Databases
  <2>6. QED BY <1>2, <2>1, <2>2, <2>3, <2>4, <2>5, InsertOrdered
<1>5. QED BY <1>3, <1>4

\* One method's step: the numbers X are new, and nothing new gets in front of
\* a row that was there.
LEMMA OrderStep ==
  ASSUME IInv, KInv, OInv, NEW db, NEW X \in SUBSET Nat, Leaves(db), Ordered(db.rows),
         Numbers(db) \subseteq Numbers(view) \cup X,
         \A m \in X, u \in used : u.no < m,
         \A m \in Numbers(view) : m \in Numbers(db) \/ Settled(m)',
         delivered \subseteq delivered'
  PROVE  /\ RowOrder' /\ Gone'
         /\ \A m \in Numbers(view'), u \in used :
              m < u.no => m \in Numbers(view) \/ Settled(m)'
<1>1. /\ view' \in {db, view, durable}
      /\ (view' = db /\ durable' = db) \/ durable' = durable
      /\ \A m : Settled(m) => Settled(m)'
  BY SettledStays DEF Leaves
<1>2. RowOrder'
  BY <1>1 DEF OInv, RowOrder
<1>3. \A m \in Numbers(durable) : m \in Numbers(view) \/ Settled(m)'
  BY <1>1 DEF OInv, Gone
<1>4. Gone'
  <2>1. ASSUME NEW m \in Numbers(durable')
        PROVE  m \in Numbers(view') \/ Settled(m)'
    <3>1. CASE view' = durable'
      BY <3>1
    <3>2. CASE durable' = durable /\ view' \in {db, view}
      BY <1>3, <2>1, <3>2
    <3>3. QED BY <1>1, <3>1, <3>2
  <2>2. QED BY <2>1 DEF Gone, Numbers
<1>5. ASSUME NEW m \in Numbers(view'), NEW u \in used, m < u.no
      PROVE  m \in Numbers(view) \/ Settled(m)'
  <2>1. m \in Numbers(view) \/ m \in X \/ Settled(m)'
    BY <1>1, <1>3, <1>5
  <2>2. m \notin X
    <3>1. u.no \in Nat
      BY DEF IInv, TypeOK
    <3>2. SUFFICES ASSUME m \in X PROVE FALSE
      OBVIOUS
    <3>3. m \in Nat /\ u.no < m
      BY <3>2
    <3>4. QED BY <1>5, <3>1, <3>3
  <2>3. QED BY <2>1, <2>2
<1>6. QED BY <1>2, <1>4, <1>5

LEMMA NewestStep ==
  ASSUME NewestOK, IsDatabase(view'), view'.last_seq_no = view.last_seq_no,
         used' \subseteq used \cup view'.rows,
         \A w \in Writers : \/ numbers'[w] = <<>>
                            \/ numbers'[w] = numbers[w] /\ used' = used
  PROVE  NewestOK'
<1>1. \A u \in used' : u.no <= view'.last_seq_no
  BY DEF NewestOK, IsDatabase
<1>2. Len(<<>>) = 0
  OBVIOUS
<1>3. ASSUME NEW w \in Writers
      PROVE  /\ \A i \in 1..Len(numbers'[w]), u \in used' : u.no < numbers'[w][i]
             /\ Len(numbers'[w]) = 2 => numbers'[w][1] < numbers'[w][2]
  <2>1. CASE numbers'[w] = <<>>
    BY <1>2, <2>1
  <2>2. CASE numbers'[w] = numbers[w] /\ used' = used
    BY <2>2 DEF NewestOK
  <2>3. QED BY <2>1, <2>2
<1>4. QED BY <1>1, <1>3 DEF NewestOK

\* Delivering nothing, and leaving out of a batch what is settled, or all of it.
LEMMA CallStep ==
  ASSUME IInv, KInv, OInv, NEW db, NEW X \in SUBSET Nat, Leaves(db), Ordered(db.rows),
         Numbers(db) \subseteq Numbers(view) \cup X,
         \A m \in X, u \in used : u.no < m,
         \A m \in Numbers(view) : m \in Numbers(db) \/ Settled(m)',
         delivered' = delivered, NewestOK',
         \A s \in Senders : \/ batch'[s] = {}
                            \/ /\ batch'[s] \subseteq batch[s]
                               /\ \A q \in batch[s] : q \in batch'[s] \/ Settled(q.no)'
  PROVE  OInv'
<1>1. /\ RowOrder' /\ Gone'
      /\ \A m \in Numbers(view'), u \in used : m < u.no => m \in Numbers(view) \/ Settled(m)'
  BY OrderStep
<1>2. used \subseteq used' /\ \A m : Settled(m) => Settled(m)'
  BY SettledStays DEF Leaves
<1>3. Out'
  BY <1>2 DEF OInv, Out
<1>4. ASSUME NEW n \in delivered', NEW m \in Numbers(view'), m < n
      PROVE  Settled(m)'
  <2>1. PICK u \in used : u.no = n
    BY DEF OInv, Out
  <2>2. m \in Numbers(view) => Settled(m)
    BY <1>4 DEF OInv, NoneOvertakes, Settled
  <2>3. QED BY <1>1, <1>2, <1>4, <2>1, <2>2
<1>5. NoneOvertakes'
  BY <1>4 DEF NoneOvertakes, Numbers, Settled, Reused
<1>6. ASSUME NEW s \in Senders
      PROVE  /\ Ordered(batch'[s])
             /\ \A r \in batch'[s], m \in Numbers(view') :
                  m < r.no => Settled(m)' \/ \E q \in batch'[s] : q.no = m
  <2>1. CASE batch'[s] = {}
    BY <2>1 DEF Ordered
  <2>2. CASE /\ batch'[s] \subseteq batch[s]
             /\ \A q \in batch[s] : q \in batch'[s] \/ Settled(q.no)'
    <3>1. Ordered(batch'[s])
      BY <2>2 DEF OInv, BatchOrder, Ordered
    <3>2. ASSUME NEW r \in batch'[s], NEW m \in Numbers(view'), m < r.no, ~Settled(m)'
          PROVE  \E q \in batch'[s] : q.no = m
      <4>1. r \in batch[s] /\ r \in used
        BY <2>2 DEF KInv, BatchOK
      <4>2. m \in Numbers(view) /\ ~Settled(m)
        BY <1>1, <1>2, <3>2, <4>1
      <4>3. PICK q \in batch[s] : q.no = m
        BY <3>2, <4>1, <4>2 DEF OInv, BatchOrder
      <4>4. QED BY <2>2, <3>2, <4>3
    <3>3. QED BY <3>1, <3>2
  <2>3. QED BY <2>1, <2>2
<1>7. BatchOrder'
  BY <1>6 DEF BatchOrder, Numbers
<1>8. OneWriter'
  BY DEF OInv, OneWriter
<1>9. QED BY <1>1, <1>3, <1>5, <1>7, <1>8 DEF OInv

LEMMA OInvInit == OneWriter /\ Init => OInv
<1> SUFFICES ASSUME OneWriter, Init PROVE OInv
  OBVIOUS
<1>1. Len(<<>>) = 0
  OBVIOUS
<1>2. NewestOK
  BY <1>1 DEF Init, NewestOK
<1>3. QED
  BY <1>2 DEF Init, Empty, OInv, RowOrder, Ordered, Gone, Out, BatchOrder,
              NoneOvertakes, Numbers

LEMMA WriterOrder ==
  ASSUME IInv, KInv, OInv, NEW w \in Writers, Writer(w)
  PROVE  OInv'
<1>1. /\ RowsOK /\ IInv' /\ Ordered(view.rows) /\ Ordered(durable.rows)
      /\ view.last_seq_no = durable.last_seq_no /\ Writers = {w}
      /\ used \subseteq Rows /\ given \subseteq Nat /\ numbers \in [Writers -> Seq(Nat)]
  BY WriterPreserves DEF KInv, OInv, RowOrder, IInv, CounterOK, OneWriter, TypeOK, Rows
<1>2. IsDatabase(view')
  BY <1>1 DEF IInv, TypeOK
<1>3. CASE NextSequence(w)
  <2> DEFINE n == view.last_seq_no + 1
  <2>1. /\ view' = durable' /\ view'.rows = view.rows /\ view = durable
        /\ used' = used /\ UNCHANGED senders /\ view'.last_seq_no = n
    BY <1>1, <1>3, NumberLeaves
  <2>2. numbers' = [numbers EXCEPT ![w] = Append(numbers[w], n)] /\ Len(numbers[w]) < 2
    BY <1>3 DEF NextSequence
  <2>3. view.last_seq_no \in Nat /\ n \in Nat /\ \A k \in Nat : k <= view.last_seq_no => k < n
    BY DEF IInv, TypeOK, IsDatabase, Databases
  <2> HIDE DEF n
  <2>4. \A u \in used : u.no < n
    BY <1>1, <2>3 DEF OInv, NewestOK, Rows
  <2>5. \A i \in 1..Len(numbers[w]) : numbers[w][i] < n
    BY <1>1, <2>3 DEF IInv, HoldOK, CounterOK, NumbersDurable
  <2>6. /\ numbers'[w] = Append(numbers[w], n) /\ Len(numbers'[w]) = Len(numbers[w]) + 1
        /\ numbers'[w][Len(numbers[w]) + 1] = n /\ Len(numbers[w]) \in Nat
        /\ \A i \in 1..Len(numbers[w]) : numbers'[w][i] = numbers[w][i]
    BY <1>1, <2>2, <2>3
  <2>7. NewestOK'
    <3>1. \A u \in used' : u.no <= view'.last_seq_no
      BY <1>1, <2>1, <2>3, <2>4 DEF Rows
    <3>2. \A i \in 1..Len(numbers'[w]), u \in used' : u.no < numbers'[w][i]
      <4>1. ASSUME NEW i \in 1..Len(numbers'[w]), NEW u \in used
            PROVE  u.no < numbers'[w][i]
        <5>1. CASE i = Len(numbers[w]) + 1
          BY <2>4, <2>6, <5>1
        <5>2. CASE i \in 1..Len(numbers[w])
          BY <2>6, <5>2 DEF OInv, NewestOK
        <5>3. QED BY <2>6, <5>1, <5>2
      <4>2. QED BY <2>1, <4>1
    <3>3. Len(numbers'[w]) = 2 => numbers'[w][1] < numbers'[w][2]
      BY <2>5, <2>6
    <3>4. QED BY <1>1, <3>1, <3>2, <3>3 DEF NewestOK
  <2>8. Numbers(view') = Numbers(view) /\ \A m : Settled(m)' = Settled(m)
    BY <2>1 DEF Numbers, Settled, Reused
  <2>9. RowOrder' /\ Gone'
    BY <1>1, <2>1 DEF RowOrder, Gone, Numbers
  <2>10. Out' /\ OneWriter'
    BY <2>1 DEF OInv, Out, OneWriter
  <2>11. NoneOvertakes'
    BY <2>1, <2>8 DEF OInv, NoneOvertakes, Numbers, Reused
  <2>12. BatchOrder'
    BY <2>1, <2>8 DEF OInv, BatchOrder, Numbers, Ordered
  <2>13. QED BY <2>7, <2>9, <2>10, <2>11, <2>12 DEF OInv
<1>4. CASE /\ NextSequenceRaises(w) \/ EnqueueManyRaises(w)
           /\ Leaves(view) /\ UNCHANGED senders
  <2>1. used' = used /\ view'.last_seq_no = view.last_seq_no
    BY <1>1, <1>4 DEF Leaves, RowsOK
  <2>2. numbers'[w] = <<>>
    BY <1>1, <1>4 DEF NextSequenceRaises, EnqueueManyRaises, WriterRaises
  <2>3. NewestOK'
    BY <1>1, <1>2, <2>1, <2>2, NewestStep DEF OInv
  <2>4. \A s \in Senders : batch'[s] \subseteq batch[s] /\ batch[s] \subseteq batch'[s]
    BY <1>4
  <2>5. QED
    BY <1>1, <1>4, <2>3, <2>4, CallStep, {} \in SUBSET Nat
<1>5. ASSUME NEW db, Leaves(db), db = InsertAll(view, numbers[w]),
             Len(numbers[w]) \in {1, 2}, numbers'[w] = <<>>, UNCHANGED senders
      PROVE  OInv'
  <2>1. /\ db.last_seq_no = view.last_seq_no /\ Numbers(db) = Numbers(view) \cup Held(w)
    BY <1>1, <1>5, InsertAllKeeps
  <2>2. Ordered(db.rows)
    BY <1>5, InsertAllOrdered
  <2>3. view'.last_seq_no = view.last_seq_no /\ used' \subseteq used \cup view'.rows
    BY <1>1, <1>5, <2>1 DEF Leaves
  <2>4. NewestOK'
    BY <1>1, <1>2, <1>5, <2>3, NewestStep DEF OInv
  <2>5. Held(w) \in SUBSET Nat /\ \A m \in Held(w), u \in used : u.no < m
    BY <1>1 DEF OInv, NewestOK, Held
  <2>6. /\ Numbers(db) \subseteq Numbers(view) \cup Held(w)
        /\ \A m \in Numbers(view) : m \in Numbers(db) \/ Settled(m)'
        /\ \A s \in Senders : batch'[s] \subseteq batch[s] /\ batch[s] \subseteq batch'[s]
    BY <1>5, <2>1
  <2>7. QED BY <1>5, <2>2, <2>4, <2>5, <2>6, CallStep
<1>6. QED BY <1>1, <1>3, <1>4, <1>5, WriterLeaves

LEMMA SenderOrder ==
  ASSUME IInv, KInv, OInv, NEW s \in Senders, Sender(s)
  PROVE  OInv'
<1>1. /\ RowsOK /\ IInv' /\ Ordered(view.rows) /\ Ordered(durable.rows)
      /\ view.last_seq_no = durable.last_seq_no
      /\ view.rows \subseteq Rows /\ view.rows \subseteq used
      /\ batch \in [Senders -> SUBSET Rows] /\ {} \in SUBSET Nat
  BY SenderPreserves DEF KInv, RowsOK, OInv, RowOrder, IInv, CounterOK, TypeOK,
     IsDatabase, Databases, Rows
<1>2. IsDatabase(view')
  BY <1>1 DEF IInv, TypeOK
<1>3. UNCHANGED numbers
  BY SenderLeaves
<1>4. ASSUME NEW db, Leaves(db), db.rows \subseteq view.rows,
             db.last_seq_no = view.last_seq_no
      PROVE  NewestOK'
  <2>1. used' = used /\ view'.last_seq_no = view.last_seq_no
    BY <1>1, <1>4 DEF Leaves, RowsOK
  <2>2. QED BY <1>2, <1>3, <2>1, NewestStep DEF OInv
<1>5. CASE Fetch(s)
  <2>1. PICK S \in SUBSET view.rows : Pending(S) /\ batch' = [batch EXCEPT ![s] = S]
    BY <1>5 DEF Fetch
  <2>2. UNCHANGED <<view, durable, used, delivered, numbers>>
    BY <1>5 DEF Fetch
  <2>3. batch'[s] = S /\ \A v \in Senders \ {s} : batch'[v] = batch[v]
    BY <1>1, <2>1
  <2>4. Ordered(S)
    BY <1>1 DEF Ordered
  <2>5. ASSUME NEW r \in S, NEW m \in Numbers(view), m < r.no
        PROVE  \E q \in S : q.no = m
    <3>1. PICK q \in view.rows : q.no = m
      BY DEF Numbers
    <3>2. r \in view.rows /\ r \in Rows /\ q \in Rows
      BY <1>1
    <3>3. ~(r.id < q.id)
      BY <1>1, <2>5, <3>1, <3>2 DEF Ordered, Rows
    <3>4. QED BY <2>1, <3>1, <3>3 DEF Pending
  <2>6. \A m : Settled(m)' = Settled(m)
    BY <2>2 DEF Settled, Reused
  <2>7. BatchOrder'
    <3>1. ASSUME NEW v \in Senders
          PROVE  /\ Ordered(batch'[v])
                 /\ \A r \in batch'[v], m \in Numbers(view) :
                      m < r.no => Settled(m)' \/ \E q \in batch'[v] : q.no = m
      <4>1. CASE v = s
        BY <2>3, <2>4, <2>5, <4>1
      <4>2. CASE v # s
        BY <2>3, <2>6, <4>2 DEF OInv, BatchOrder
      <4>3. QED BY <4>1, <4>2
    <3>2. QED BY <2>2, <3>1 DEF BatchOrder, Numbers
  <2>8. NewestOK' /\ RowOrder' /\ Out' /\ OneWriter'
    BY <2>2 DEF OInv, NewestOK, RowOrder, Out, OneWriter
  <2>9. Gone' /\ NoneOvertakes'
    BY <2>2, <2>6 DEF OInv, Gone, NoneOvertakes, Numbers, Reused
  <2>10. QED BY <2>7, <2>8, <2>9 DEF OInv
<1>6. CASE Send(s)
  <2>1. PICK r \in batch[s] : Current(s, r) /\ delivered' \in {delivered, delivered \cup {r.no}}
    BY <1>6 DEF Send
  <2>2. UNCHANGED <<view, durable, used, batch, numbers>> /\ delivered \subseteq delivered'
    BY <1>6 DEF Send
  <2>3. r \in used /\ r \in Rows
    BY <1>1 DEF KInv, BatchOK
  <2>4. \A m : Settled(m) => Settled(m)'
    BY <2>2, SettledStays
  <2>5. ASSUME NEW n \in delivered', NEW m \in Numbers(view), m < n
        PROVE  Settled(m)'
    <3>1. CASE n \in delivered
      BY <2>4, <2>5, <3>1 DEF OInv, NoneOvertakes, Settled
    <3>2. CASE n = r.no
      <4>1. SUFFICES ASSUME NEW q \in batch[s], q.no = m PROVE FALSE
        BY <2>4, <2>5, <3>2 DEF OInv, BatchOrder
      <4>2. r.id <= q.id /\ q \in Rows
        BY <1>1, <2>1 DEF Current
      <4>3. CASE r.id < q.id
        BY <2>3, <2>5, <3>2, <4>1, <4>2, <4>3 DEF OInv, BatchOrder, Ordered, Rows
      <4>4. CASE r.id = q.id
        <5>1. r = q
          BY <4>4 DEF KInv, BatchOK
        <5>2. QED BY <2>3, <2>5, <3>2, <4>1, <5>1 DEF Rows
      <4>5. QED BY <2>3, <4>2, <4>3, <4>4 DEF Rows
    <3>3. QED BY <2>1, <3>1, <3>2
  <2>6. NoneOvertakes'
    BY <2>2, <2>5 DEF NoneOvertakes, Numbers, Settled, Reused
  <2>7. Out'
    BY <2>1, <2>2, <2>3 DEF OInv, Out
  <2>8. NewestOK' /\ RowOrder' /\ OneWriter'
    BY <2>2 DEF OInv, NewestOK, RowOrder, OneWriter
  <2>9. Gone'
    BY <2>2, <2>4 DEF OInv, Gone, Numbers
  <2>10. BatchOrder'
    BY <2>2, <2>4 DEF OInv, BatchOrder, Numbers, Ordered
  <2>11. QED BY <2>6, <2>7, <2>8, <2>9, <2>10 DEF OInv
<1>7. CASE Acknowledge(s) \/ AcknowledgeRaises(s)
  <2>1. PICK r \in batch[s] :
          /\ Current(s, r)
          /\ Commit(Delete(view, r)) \/ LeftBehind(Delete(view, r))
          /\ \/ batch' = [batch EXCEPT ![s] = @ \ {r}]
             \/ batch' = [batch EXCEPT ![s] = {}]
    BY <1>7 DEF Acknowledge, AcknowledgeRaises, SenderRaises
  <2>2. spc[s] = "sent" /\ delivered' = delivered
    BY <1>7 DEF Acknowledge, AcknowledgeRaises, SenderRaises
  <2> DEFINE db == Delete(view, r)
  <2>3. Leaves(db)
    BY <1>1, <2>1, Leaving
  <2>4. /\ \A n \in Numbers(view) : n \in Numbers(db) \/ Settled(n)'
        /\ db.rows \subseteq view.rows
    BY <2>1, <2>2, <2>3, DeleteSettles DEF Leaves
  <2>5. db.last_seq_no = view.last_seq_no
    BY DeleteFacts DEF IInv, TypeOK
  <2> HIDE DEF db
  <2>6. NewestOK'
    BY <1>4, <2>3, <2>4, <2>5
  <2>7. Ordered(db.rows) /\ Numbers(db) \subseteq Numbers(view) \cup {}
    BY <1>1, <2>4 DEF Ordered, Numbers
  <2>8. r.no \in delivered
    BY <2>1, <2>2 DEF KInv, BatchOK
  <2>9. ASSUME NEW v \in Senders
        PROVE  \/ batch'[v] = {}
               \/ /\ batch'[v] \subseteq batch[v]
                  /\ \A q \in batch[v] : q \in batch'[v] \/ Settled(q.no)'
    <3>1. Settled(r.no)'
      BY <2>2, <2>8 DEF Settled
    <3>2. CASE v = s
      BY <1>1, <2>1, <3>1, <3>2
    <3>3. CASE v # s
      BY <1>1, <2>1, <3>3
    <3>4. QED BY <3>2, <3>3
  <2>10. QED BY <1>1, <2>2, <2>3, <2>4, <2>6, <2>7, <2>9, CallStep
<1>8. CASE RecordFailure(s) \/ RecordFailureRaises(s)
  <2>1. Leaves(view)
    BY <1>1, <1>8, Leaving DEF RecordFailure, RecordFailureRaises
  <2>2. delivered' = delivered /\ batch' = [batch EXCEPT ![s] = {}]
    BY <1>8 DEF RecordFailure, RecordFailureRaises, SenderRaises
  <2>3. NewestOK'
    BY <1>4, <2>1
  <2>4. \A v \in Senders : \/ batch'[v] = {}
                           \/ /\ batch'[v] \subseteq batch[v]
                              /\ \A q \in batch[v] : q \in batch'[v] \/ Settled(q.no)'
    BY <1>1, <2>2
  <2>5. QED BY <1>1, <2>1, <2>2, <2>3, <2>4, CallStep
<1>9. QED BY <1>5, <1>6, <1>7, <1>8 DEF Sender

LEMMA OInvNext == IInv /\ KInv /\ OInv /\ [Next]_vars => OInv'
<1> SUFFICES ASSUME IInv, KInv, OInv, [Next]_vars PROVE OInv'
  OBVIOUS
<1>1. CASE \E w \in Writers : Writer(w)
  BY <1>1, WriterOrder
<1>2. CASE \E s \in Senders : Sender(s)
  BY <1>2, SenderOrder
<1>3. CASE Runtime \/ Crash \/ UNCHANGED vars
  <2>1. IInv' /\ RowsOK /\ Ordered(view.rows) /\ {} \in SUBSET Nat
        /\ view.last_seq_no = durable.last_seq_no /\ ThreadTypes
    BY IInvNext, TypesOfThreads DEF KInv, OInv, RowOrder, IInv, CounterOK
  <2>2. Leaves(view) /\ delivered' = delivered
    BY <1>3, <2>1, Leaving, RuntimeLeaves DEF Crash, vars
  <2>3. \A w \in Writers : numbers'[w] \in {<<>>, numbers[w]}
    BY <1>3, <2>1, RuntimeLeaves DEF Crash, vars
  <2>4. NewestOK'
    <3>1. used' = used /\ view'.last_seq_no = view.last_seq_no /\ IsDatabase(view')
      BY <2>1, <2>2 DEF Leaves, RowsOK, IInv, TypeOK
    <3>2. QED BY <2>3, <3>1, NewestStep DEF OInv
  <2>5. \A s \in Senders : batch'[s] = {} \/ batch'[s] = batch[s]
    BY <1>3, <2>1, RuntimeLeaves DEF Crash, vars
  <2>6. QED BY <2>1, <2>2, <2>4, <2>5, CallStep
<1>4. QED BY <1>1, <1>2, <1>3 DEF Next, Finished

\* With one spooler, and however many senders replay the outbox, no message is
\* delivered while an older one waits undelivered, but for the same exception.
\* With two spoolers this is false: the one that took the lower number may be
\* the second to store.
THEOREM OvertakesNone == OneWriter /\ Spec => []NoneOvertakes
<1>1. OInv => NoneOvertakes
  BY DEF OInv
<1>2. OneWriter /\ Spec => []OInv
  <2>1. Spec => []KInv
    BY InductiveInvariant, KInvInit, KInvNext, PTL DEF Spec
  <2>2. QED BY <2>1, InductiveInvariant, OInvInit, OInvNext, PTL DEF Spec
<1>3. QED BY <1>1, <1>2, PTL
=============================================================================
