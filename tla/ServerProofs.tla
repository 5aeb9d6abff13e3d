---------------------------- MODULE ServerProofs ----------------------------
(***************************************************************************)
(* Proofs about Server, for any number of threads, any limit and any       *)
(* connections.                                                            *)
(***************************************************************************)
EXTENDS Server, SequenceTheorems, FiniteSetTheorems, TLAPS

-----------------------------------------------------------------------------
(* Queues without duplicates                                                *)

LEMMA AppendSet ==
    ASSUME NEW S, NEW s \in Seq(S), NEW e \in S
    PROVE  /\ Append(s, e) \in Seq(S)
           /\ ToSet(Append(s, e)) = ToSet(s) \cup {e}
           /\ IsInjective(s) /\ e \notin ToSet(s) => IsInjective(Append(s, e))
<1>1. /\ Append(s, e) \in Seq(S) /\ Len(s) \in Nat
      /\ DOMAIN s = 1 .. Len(s)
      /\ DOMAIN Append(s, e) = 1 .. Len(s) + 1
      /\ \A i \in 1 .. Len(s) : Append(s, e)[i] = s[i]
      /\ Append(s, e)[Len(s) + 1] = e
  BY AppendProperties, LenProperties
<1> DEFINE t == Append(s, e)
<1>2. /\ \A i \in DOMAIN t : \/ i \in DOMAIN s /\ t[i] = s[i]
                             \/ i = Len(s) + 1 /\ t[i] = e
      /\ \A i \in DOMAIN s : i \in DOMAIN t /\ t[i] = s[i]
      /\ Len(s) + 1 \in DOMAIN t /\ t[Len(s) + 1] = e
  BY <1>1
<1> HIDE DEF t
<1>3. ToSet(t) = ToSet(s) \cup {e}
  BY <1>2 DEF ToSet
<1>4. IsInjective(s) /\ e \notin ToSet(s) => IsInjective(t)
  BY <1>2 DEF ToSet, IsInjective
<1> QED
  BY <1>1, <1>3, <1>4 DEF t

LEMMA AppendKeeps ==
    ASSUME NEW S, NEW s \in Seq(S), NEW e \in S
    PROVE  /\ Len(Append(s, e)) = Len(s) + 1
           /\ \A j \in 1 .. Len(s) : Append(s, e)[j] = s[j]
BY AppendProperties, LenProperties

LEMMA TailSet ==
    ASSUME NEW S, NEW s \in Seq(S), s # <<>>, IsInjective(s)
    PROVE  /\ Tail(s) \in Seq(S) /\ Head(s) \in S
           /\ Head(s) \in ToSet(s)
           /\ ToSet(Tail(s)) = ToSet(s) \ {Head(s)}
           /\ IsInjective(Tail(s))
<1>1. /\ Tail(s) \in Seq(S) /\ Head(s) \in S
      /\ Len(s) \in Nat \ {0}
      /\ DOMAIN s = 1 .. Len(s)
      /\ DOMAIN Tail(s) = 1 .. Len(s) - 1
      /\ \A i \in 1 .. Len(s) - 1 : Tail(s)[i] = s[i + 1]
  BY HeadTailProperties, LenProperties, EmptySeq
<1>2. Head(s) = s[1]
  OBVIOUS
<1> DEFINE t == Tail(s)
           h == Head(s)
<1>3. /\ 1 \in DOMAIN s /\ h = s[1]
      /\ \A i \in DOMAIN t : i + 1 \in DOMAIN s /\ i + 1 # 1 /\ t[i] = s[i + 1]
      /\ \A j \in DOMAIN s : j = 1 \/ (j - 1 \in DOMAIN t /\ t[j - 1] = s[j])
  BY <1>1, <1>2
<1>4. DOMAIN t \subseteq Int
  BY <1>1
<1> HIDE DEF t, h
<1>5. ToSet(t) = ToSet(s) \ {h}
  BY <1>3 DEF ToSet, IsInjective
<1>6. IsInjective(t)
  BY <1>3, <1>4 DEF IsInjective
<1>7. h \in ToSet(s)
  BY <1>3 DEF ToSet
<1> QED
  BY <1>1, <1>5, <1>6, <1>7 DEF t, h

LEMMA EmptySet ==
    ToSet(<<>>) = {} /\ IsInjective(<<>>)
<1>1. Len(<<>>) = 0 /\ <<>> \in Seq({})
  OBVIOUS
<1>2. DOMAIN <<>> = {}
  BY <1>1, LenProperties
<1> DEFINE s == <<>>
<1> HIDE DEF s
<1>3. DOMAIN s = {}
  BY <1>2 DEF s
<1>4. ToSet(s) = {} /\ IsInjective(s)
  BY <1>3 DEF ToSet, IsInjective
<1> QED
  BY <1>4 DEF s

LEMMA Moduli ==
    ASSUME NEW n \in Nat \ {0}, NEW a \in Nat, NEW b \in Nat,
           a < b, b - a < n
    PROVE  a % n # b % n
<1> DEFINE p == a \div n
           q == b \div n
<1>1. /\ p \in Int /\ a = (n * p) + (a % n) /\ a % n \in 0 .. n - 1
      /\ q \in Int /\ b = (n * q) + (b % n) /\ b % n \in 0 .. n - 1
  OBVIOUS
<1> SUFFICES ASSUME a % n = b % n
             PROVE  FALSE
  OBVIOUS
<1> HIDE DEF p, q
<1>2. b - a = n * q - n * p
  BY <1>1
<1>3. n * q - n * p = n * (q - p)
  BY <1>1
<1>4. q - p > 0
  BY <1>1, <1>2, <1>3
<1>5. n * (q - p) >= n
  BY <1>1, <1>4
<1> QED
  BY <1>2, <1>3, <1>5

-----------------------------------------------------------------------------
(* The inductive invariant                                                  *)

\* A thread is in the balancer at most once, not before it registers and
\* always while it binds its socket and serves.
Registered ==
    /\ IsInjective(workers)
    /\ \A w \in Workers :
         /\ w \in ToSet(workers) => phase[w] # "starting"
         /\ phase[w] \in {"registered", "serving"} => w \in ToSet(workers)

\* Only a thread that serves has tasks.
TasksServed ==
    \A w \in Workers : phase[w] # "serving" => live[w] = {}

\* A worker's channel holds a connection once and none that it handles, and a
\* connection that is being sent is with no worker yet.
Apart ==
    /\ \A w \in Workers : /\ IsInjective(queue[w])
                          /\ Queued(w) \cap live[w] = {}
    /\ \A d \in sending : \A w \in Workers :
         d.conn \notin Queued(w) /\ d.conn \notin live[w]

\* The mutex: one dispatch at a time.
Exclusive == \A d, e \in sending : d = e

\* A dispatch goes where a counter at i points, among the workers there were
\* then: a prefix of the ones there are now, ws.
Aimed(ws, d, i) ==
    /\ d.of \in 1 .. Len(ws)
    /\ d.to = ws[1 + (i % d.of)]

\* The i-th send goes where a counter at i - 1 points, the one under way where
\* a counter at Len(log) does.
Rotation ==
    /\ counter = Len(log) + (IF sending = {} THEN 0 ELSE 1)
    /\ \A i \in DOMAIN log : Aimed(workers, log[i], i - 1)
    /\ \A d \in sending : Aimed(workers, d, Len(log))

IInv ==
    /\ TypeOK
    /\ Registered
    /\ TasksServed
    /\ Counted
    /\ Apart
    /\ Exclusive
    /\ Rotation

LEMMA InitInv == Init => IInv
<1> SUFFICES ASSUME Init
             PROVE  IInv
  OBVIOUS
<1> USE DEF Init
<1>1. TypeOK
  BY DEF TypeOK
<1>2. Registered
  BY EmptySet DEF Registered
<1>3. TasksServed
  BY DEF TasksServed
<1>4. Counted
  BY FS_EmptySet, ServerAssumption DEF Counted
<1>5. Apart /\ Exclusive
  BY EmptySet DEF Apart, Exclusive, Queued
<1>6. Rotation
  <2>1. Len(<<>>) = 0 /\ <<>> \in Seq(Dispatch)
    OBVIOUS
  <2>2. DOMAIN <<>> = {}
    BY <2>1, LenProperties
  <2> QED
    BY <2>1, <2>2 DEF Rotation
<1> QED
  BY <1>1, <1>2, <1>3, <1>4, <1>5, <1>6 DEF IInv

\* Whoever serves has a worker to dispatch to.
LEMMA Chosen ==
    ASSUME IInv, NEW w \in Workers, phase[w] = "serving"
    PROVE  /\ Len(workers) \in Nat \ {0}
           /\ counter % Len(workers) \in 0 .. Len(workers) - 1
           /\ NextWorker \in Workers
<1>1. workers \in Seq(Workers) /\ counter \in Nat
  BY DEF IInv, TypeOK
<1>2. w \in ToSet(workers)
  BY DEF IInv, Registered
<1>3. Len(workers) \in Nat \ {0} /\ DOMAIN workers = 1 .. Len(workers)
  BY <1>1, <1>2, LenProperties DEF ToSet
<1>4. counter % Len(workers) \in 0 .. Len(workers) - 1
  BY <1>1, <1>3
<1>5. 1 + (counter % Len(workers)) \in 1 .. Len(workers)
  BY <1>3, <1>4
<1> QED
  BY <1>1, <1>3, <1>4, <1>5, ElementOfSeq DEF NextWorker

\* A dispatch under way is the only one, and its connection is with no worker.
LEMMA Underway ==
    ASSUME IInv, NEW d \in sending
    PROVE  /\ d \in Dispatch /\ d.conn \in Conns /\ d.to \in Workers
           /\ sending \ {d} = {}
           /\ d.conn \notin Queued(d.to) /\ d.conn \notin live[d.to]
<1>1. d \in Dispatch
  BY DEF IInv, TypeOK
<1>2. d.conn \in Conns /\ d.to \in Workers
  BY <1>1 DEF Dispatch
<1>3. sending \ {d} = {}
  BY DEF IInv, Exclusive
<1> QED
  BY <1>1, <1>2, <1>3 DEF IInv, Apart

\* What receiving a connection, and a connection that is new, say of places.
LEMMA Receiving ==
    ASSUME IInv, NEW w \in Workers, NEW c \in Conns, Received(w, c)
    PROVE  /\ queue[w] \in Seq(Conns) /\ Tail(queue[w]) \in Seq(Conns)
           /\ IsInjective(Tail(queue[w]))
           /\ ToSet(Tail(queue[w])) = Queued(w) \ {c}
           /\ c \in Queued(w)
           /\ c \notin live[w]
<1>1. /\ queue[w] \in Seq(Conns)
      /\ IsInjective(queue[w])
      /\ Queued(w) \cap live[w] = {}
      /\ queue[w] # <<>>
      /\ c = Head(queue[w])
  BY DEF IInv, TypeOK, Apart, Received
<1> QED
  BY <1>1, TailSet DEF Queued

LEMMA Unarrived ==
    ASSUME NEW c, c \notin Arrived
    PROVE  /\ \A w \in Workers : c \notin Queued(w) /\ c \notin live[w]
           /\ \A d \in sending : d.conn # c
           /\ c \notin gone
<1> DEFINE held == {Queued(w) \cup live[w] : w \in Workers}
           all == UNION held
           hand == {d.conn : d \in sending}
<1>1. c \notin all \cup hand \cup gone
  BY DEF Arrived
<1> HIDE DEF all, hand
<1>2. c \notin all /\ c \notin hand /\ c \notin gone
  BY <1>1
<1>3. \A s \in held : c \notin s
  BY <1>2 DEF all
<1>4. ASSUME NEW w \in Workers
      PROVE  c \notin Queued(w) /\ c \notin live[w]
  <2>1. c \notin Queued(w) \cup live[w]
    BY <1>3
  <2> QED
    BY <2>1
<1>5. \A d \in sending : d.conn # c
  BY <1>2 DEF hand
<1> QED
  BY <1>2, <1>4, <1>5

LEMMA TypeStep == IInv /\ [Next]_vars => TypeOK'
<1> SUFFICES ASSUME IInv, [Next]_vars
             PROVE  TypeOK'
  OBVIOUS
<1> USE DEF TypeOK
<1>0. TypeOK
  BY DEF IInv
<1>1. ASSUME NEW w \in Workers, Register(w)
      PROVE  TypeOK'
  BY <1>0, <1>1, AppendProperties DEF Register, worker
<1>2. ASSUME NEW w \in Workers, BuildFails(w) \/ Listen(w)
      PROVE  TypeOK'
  BY <1>0, <1>2 DEF BuildFails, Listen, balancer, worker
<1>3. ASSUME NEW w \in Workers, ListenFails(w)
      PROVE  TypeOK'
  <2>1. live[w] \in SUBSET Conns
    BY <1>0
  <2> QED
    BY <1>0, <1>3, <2>1 DEF ListenFails, Die, balancer
<1>4. ASSUME NEW w \in Workers, NEW c \in Conns, Accept(w, c)
      PROVE  TypeOK'
  <2>1. NextWorker \in Workers /\ Len(workers) \in Nat
    BY <1>4, Chosen DEF Accept
  <2>2. Record(w, c, NextWorker) \in Dispatch
    BY <2>1 DEF Record, Dispatch
  <2> QED
    BY <1>0, <1>4, <2>2 DEF Accept, worker
<1>5. ASSUME NEW w \in Workers, Send(w)
      PROVE  TypeOK'
  <2>1. PICK d \in sending :
          /\ sending' = sending \ {d}
          /\ log' = Append(log, d)
          /\ \/ gone' = gone \cup {d.conn} /\ UNCHANGED queue
             \/ /\ queue' = [queue EXCEPT
                               ![d.to] = Append(queue[d.to], d.conn)]
                /\ UNCHANGED gone
          /\ UNCHANGED <<up, phase, workers, counter, worker>>
    BY <1>5 DEF Send
  <2>2. d \in Dispatch /\ d.conn \in Conns /\ d.to \in Workers
    BY Underway
  <2>3. log' \in Seq(Dispatch)
    BY <1>0, <2>1, <2>2, AppendProperties
  <2>4. queue[d.to] \in Seq(Conns)
    BY <1>0, <2>2
  <2>5. Append(queue[d.to], d.conn) \in Seq(Conns)
    BY <2>2, <2>4, AppendProperties
  <2>6. queue' \in [Workers -> Seq(Conns)] /\ gone' \in SUBSET Conns
    BY <1>0, <2>1, <2>2, <2>5
  <2> QED
    BY <1>0, <2>1, <2>3, <2>6 DEF worker
<1>6. ASSUME NEW w \in Workers, NEW c \in Conns, AcceptFails(w, c)
      PROVE  TypeOK'
  BY <1>0, <1>6 DEF AcceptFails, balancer, worker
<1>7. ASSUME NEW w \in Workers, NEW c \in Conns, Refuse(w, c)
      PROVE  TypeOK'
  <2>1. Tail(queue[w]) \in Seq(Conns)
    BY <1>7, Receiving DEF Refuse
  <2> QED
    BY <1>0, <1>7, <2>1 DEF Refuse, balancer, worker
<1>8. ASSUME NEW w \in Workers, NEW c \in Conns, Take(w, c)
      PROVE  TypeOK'
  <2>1. Tail(queue[w]) \in Seq(Conns)
    BY <1>8, Receiving DEF Take
  <2> QED
    BY <1>0, <1>8, <2>1 DEF Take, balancer
<1>9. ASSUME NEW w \in Workers, NEW c \in Conns, TakeFails(w, c)
      PROVE  TypeOK'
  <2>1. Tail(queue[w]) \in Seq(Conns) /\ live[w] \in SUBSET Conns
    BY <1>0, <1>9, Receiving DEF TakeFails
  <2> QED
    BY <1>0, <1>9, <2>1 DEF TakeFails, Die, balancer
<1>10. ASSUME NEW w \in Workers, NEW c \in Conns, ConnectionEnds(w, c)
       PROVE  TypeOK'
  <2>1. concurrent[w] - 1 \in Nat
    <3>1. live[w] # {} /\ live[w] \in SUBSET Conns
      BY <1>0, <1>10 DEF ConnectionEnds
    <3>2. Cardinality(live[w]) \in Nat \ {0}
      BY <3>1, ServerAssumption, FS_Subset, FS_EmptySet, FS_CardinalityType
    <3>3. concurrent[w] = Cardinality(live[w]) + panicked[w]
      BY <3>1 DEF IInv, TasksServed, Counted
    <3> QED
      BY <1>0, <3>2, <3>3
  <2> QED
    BY <1>0, <1>10, <2>1 DEF ConnectionEnds, balancer
<1>11. ASSUME NEW w \in Workers, NEW c \in Conns, ConnectionPanics(w, c)
       PROVE  TypeOK'
  BY <1>0, <1>11 DEF ConnectionPanics, balancer
<1>12. CASE JoinFails
  BY <1>0, <1>12 DEF JoinFails, balancer, worker
<1>13. CASE UNCHANGED vars
  BY <1>0, <1>13 DEF vars
<1> QED
  BY <1>1, <1>2, <1>3, <1>4, <1>5, <1>6, <1>7, <1>8, <1>9, <1>10, <1>11,
     <1>12, <1>13
     DEF Next, WorkerStep

LEMMA RegisteredStep == IInv /\ [Next]_vars => Registered'
<1> SUFFICES ASSUME IInv, [Next]_vars
             PROVE  Registered'
  OBVIOUS
<1> USE DEF Registered
<1>0. Registered /\ TypeOK
  BY DEF IInv
<1>1. ASSUME NEW w \in Workers, Register(w)
      PROVE  Registered'
  <2>1. /\ workers' = Append(workers, w)
        /\ workers \in Seq(Workers)
        /\ w \notin ToSet(workers)
        /\ phase' = [phase EXCEPT ![w] = "registered"]
    BY <1>0, <1>1 DEF Register, TypeOK
  <2>2. IsInjective(workers') /\ ToSet(workers') = ToSet(workers) \cup {w}
    BY <1>0, <2>1, AppendSet
  <2> QED
    BY <1>0, <2>1, <2>2 DEF TypeOK
<1>2. ASSUME NEW w \in Workers, UNCHANGED workers,
             \/ phase' = [phase EXCEPT ![w] = "dead"]
             \/ /\ phase[w] = "registered"
                /\ phase' = [phase EXCEPT ![w] = "serving"]
      PROVE  Registered'
  BY <1>0, <1>2 DEF TypeOK
<1>3. ASSUME UNCHANGED <<phase, workers>>
      PROVE  Registered'
  BY <1>0, <1>3
<1>4. ASSUME NEW w \in Workers, NEW c \in Conns,
             \/ Accept(w, c) \/ Send(w) \/ AcceptFails(w, c) \/ Refuse(w, c)
             \/ Take(w, c) \/ ConnectionEnds(w, c) \/ ConnectionPanics(w, c)
      PROVE  UNCHANGED <<phase, workers>>
  BY <1>4 DEF Accept, Send, AcceptFails, Refuse, Take, ConnectionEnds,
              ConnectionPanics, balancer
<1>5. \A w \in Workers : Send(w) => UNCHANGED <<phase, workers>>
  BY DEF Send
<1>6. JoinFails \/ UNCHANGED vars => UNCHANGED <<phase, workers>>
  BY DEF JoinFails, balancer, vars
<1>7. \A w \in Workers :
         (\/ BuildFails(w) \/ Listen(w) \/ ListenFails(w)
          \/ \E c \in Conns : TakeFails(w, c))
         => /\ UNCHANGED workers
            /\ \/ phase' = [phase EXCEPT ![w] = "dead"]
               \/ /\ phase[w] = "registered"
                  /\ phase' = [phase EXCEPT ![w] = "serving"]
  BY DEF BuildFails, Listen, ListenFails, TakeFails, Die, balancer
<1> QED
  BY <1>1, <1>2, <1>3, <1>4, <1>5, <1>6, <1>7 DEF Next, WorkerStep

LEMMA TasksStep == IInv /\ [Next]_vars => TasksServed'
<1> SUFFICES ASSUME IInv, [Next]_vars
             PROVE  TasksServed'
  OBVIOUS
<1>0. TasksServed /\ TypeOK
  BY DEF IInv
<1> USE DEF TasksServed, TypeOK
<1>1. ASSUME NEW w \in Workers,
             Register(w) \/ Listen(w) \/ ListenFails(w)
      PROVE  TasksServed'
  BY <1>0, <1>1 DEF Register, Listen, ListenFails, Die, worker
<1>2. ASSUME NEW w \in Workers, BuildFails(w)
      PROVE  TasksServed'
  BY <1>0, <1>2 DEF BuildFails, worker
<1>3. ASSUME NEW w \in Workers, NEW c \in Conns,
             Refuse(w, c) \/ Take(w, c) \/ TakeFails(w, c)
      PROVE  TasksServed'
  BY <1>0, <1>3 DEF Refuse, Take, TakeFails, Die, Received, worker
<1>4. ASSUME NEW w \in Workers, NEW c \in Conns,
             \/ Accept(w, c) \/ AcceptFails(w, c)
             \/ ConnectionEnds(w, c) \/ ConnectionPanics(w, c)
      PROVE  TasksServed'
  BY <1>0, <1>4 DEF Accept, AcceptFails, ConnectionEnds, ConnectionPanics,
                    worker
<1>5. ASSUME NEW w \in Workers, Send(w)
      PROVE  TasksServed'
  BY <1>0, <1>5 DEF Send, worker
<1>6. CASE JoinFails \/ UNCHANGED vars
  BY <1>0, <1>6 DEF JoinFails, worker, vars
<1> QED
  BY <1>1, <1>2, <1>3, <1>4, <1>5, <1>6 DEF Next, WorkerStep

LEMMA CountedStep == IInv /\ [Next]_vars => Counted'
<1> SUFFICES ASSUME IInv, [Next]_vars
             PROVE  Counted'
  OBVIOUS
<1>0. Counted /\ TypeOK
  BY DEF IInv
<1> USE DEF Counted, TypeOK
<1>f. \A w \in Workers : /\ IsFiniteSet(live[w])
                         /\ Cardinality(live[w]) \in Nat
  BY <1>0, ServerAssumption, FS_Subset, FS_CardinalityType
<1>1. ASSUME NEW w \in Workers,
             BuildFails(w) \/ Register(w) \/ Listen(w) \/ ListenFails(w)
      PROVE  Counted'
  BY <1>0, <1>1 DEF BuildFails, Register, Listen, ListenFails, Die, worker
<1>2. ASSUME NEW w \in Workers, NEW c \in Conns,
             Accept(w, c) \/ AcceptFails(w, c) \/ Refuse(w, c)
      PROVE  Counted'
  BY <1>0, <1>2 DEF Accept, AcceptFails, Refuse, worker
<1>3. ASSUME NEW w \in Workers, NEW c \in Conns, Take(w, c)
      PROVE  Counted'
  <2>1. c \notin live[w]
    BY <1>3, Receiving DEF Take
  <2>2. Cardinality(live[w] \cup {c}) = Cardinality(live[w]) + 1
    BY <1>f, <2>1, FS_AddElement
  <2>3. concurrent[w] + 1 <= MaxConnections
    BY <1>0, <1>3, ServerAssumption DEF Take, AtLimit
  <2> QED
    BY <1>0, <1>3, <1>f, <2>2, <2>3 DEF Take
<1>4. ASSUME NEW w \in Workers, NEW c \in Conns, TakeFails(w, c)
      PROVE  Counted'
  BY <1>0, <1>4 DEF TakeFails, Die
<1>5. ASSUME NEW w \in Workers, NEW c \in Conns,
             ConnectionEnds(w, c) \/ ConnectionPanics(w, c)
      PROVE  Counted'
  <2>1. Cardinality(live[w] \ {c}) = Cardinality(live[w]) - 1
    BY <1>5, <1>f, FS_RemoveElement DEF ConnectionEnds, ConnectionPanics
  <2>2. /\ UNCHANGED phase
        /\ live' = [live EXCEPT ![w] = live[w] \ {c}]
        /\ \/ /\ concurrent' = [concurrent EXCEPT ![w] = concurrent[w] - 1]
              /\ UNCHANGED panicked
           \/ /\ panicked' = [panicked EXCEPT ![w] = panicked[w] + 1]
              /\ UNCHANGED concurrent
    BY <1>5 DEF ConnectionEnds, ConnectionPanics
  <2> SUFFICES ASSUME NEW v \in Workers, phase[v] # "dead"
               PROVE  /\ concurrent'[v] = Cardinality(live'[v]) + panicked'[v]
                      /\ concurrent'[v] <= MaxConnections
    BY <2>2
  <2>3. /\ concurrent[v] = Cardinality(live[v]) + panicked[v]
        /\ concurrent[v] <= MaxConnections
    BY <1>0
  <2>4. /\ concurrent[v] \in Nat /\ panicked[v] \in Nat /\ MaxConnections \in Nat
        /\ Cardinality(live[v]) \in Nat
    BY <1>0, <1>f, ServerAssumption
  <2>5. CASE v = w
    <3>1. live'[v] = live[w] \ {c}
      BY <1>0, <2>2, <2>5
    <3>2. Cardinality(live'[v]) = Cardinality(live[v]) - 1
      BY <2>1, <2>5, <3>1
    <3>3. \/ concurrent'[v] = concurrent[v] - 1 /\ panicked'[v] = panicked[v]
          \/ concurrent'[v] = concurrent[v] /\ panicked'[v] = panicked[v] + 1
      BY <1>0, <2>2, <2>5
    <3> QED
      BY <2>3, <2>4, <3>2, <3>3
  <2>6. CASE v # w
    BY <1>0, <2>2, <2>3, <2>6
  <2> QED
    BY <2>5, <2>6
<1>6. ASSUME NEW w \in Workers, Send(w)
      PROVE  Counted'
  BY <1>0, <1>6 DEF Send, worker
<1>7. CASE JoinFails \/ UNCHANGED vars
  BY <1>0, <1>7 DEF JoinFails, worker, vars
<1> QED
  BY <1>1, <1>2, <1>3, <1>4, <1>5, <1>6, <1>7 DEF Next, WorkerStep

\* A step that adds no worker before the ones there are, and no dispatch.
LEMMA AimedStep ==
    ASSUME TypeOK, NEW d, NEW i \in Nat, Aimed(workers, d, i),
           \/ UNCHANGED workers
           \/ \E w \in Workers : workers' = Append(workers, w)
    PROVE  Aimed(workers', d, i)
<1>1. /\ workers \in Seq(Workers) /\ Len(workers) \in Nat
      /\ DOMAIN workers = 1 .. Len(workers)
  BY LenProperties DEF TypeOK
<1> DEFINE n == d.of
           k == 1 + (i % n)
<1>2. n \in 1 .. Len(workers) /\ d.to = workers[k]
  BY DEF Aimed
<1>3. n \in Nat \ {0} /\ n <= Len(workers)
  BY <1>1, <1>2
<1> HIDE DEF n
<1>4. i % n \in 0 .. n - 1
  BY <1>3
<1>5. k \in 1 .. Len(workers)
  BY <1>1, <1>3, <1>4
<1> HIDE DEF k
<1>6. n \in 1 .. Len(workers') /\ d.to = workers'[k]
  <2>1. CASE UNCHANGED workers
    BY <1>2, <2>1
  <2>2. CASE \E w \in Workers : workers' = Append(workers, w)
    <3>1. PICK w \in Workers : workers' = Append(workers, w)
      BY <2>2
    <3>2. /\ Len(workers') = Len(workers) + 1
          /\ \A j \in 1 .. Len(workers) : workers'[j] = workers[j]
      BY <1>1, <3>1, AppendKeeps
    <3>3. workers'[k] = workers[k]
      BY <1>5, <3>2
    <3>4. n \in 1 .. Len(workers')
      BY <1>1, <1>2, <3>2
    <3> QED
      BY <1>2, <3>3, <3>4
  <2> QED
    BY <2>1, <2>2
<1> QED
  BY <1>6 DEF Aimed, n, k

LEMMA RotationStep == IInv /\ [Next]_vars => Rotation' /\ Exclusive'
<1> SUFFICES ASSUME IInv, [Next]_vars
             PROVE  Rotation' /\ Exclusive'
  OBVIOUS
<1>0. Rotation /\ Exclusive /\ TypeOK
  BY DEF IInv
<1>a. /\ log \in Seq(Dispatch) /\ Len(log) \in Nat
      /\ DOMAIN log = 1 .. Len(log)
      /\ counter \in Nat
  BY <1>0, LenProperties DEF TypeOK
<1>b. /\ \A i \in DOMAIN log : i - 1 \in Nat /\ Aimed(workers, log[i], i - 1)
      /\ \A d \in sending : Aimed(workers, d, Len(log))
  <2>1. \A i \in DOMAIN log : i - 1 \in Nat
    BY <1>a
  <2> QED
    BY <1>0, <2>1 DEF Rotation
<1>1. ASSUME NEW w \in Workers, Register(w)
      PROVE  Rotation' /\ Exclusive'
  <2>1. /\ workers' = Append(workers, w)
        /\ UNCHANGED <<counter, sending, log>>
        /\ sending = {}
    BY <1>1 DEF Register, Unlocked
  <2>2. \A i \in DOMAIN log : Aimed(workers', log[i], i - 1)
    <3> SUFFICES ASSUME NEW i \in DOMAIN log
                 PROVE  Aimed(workers', log[i], i - 1)
      OBVIOUS
    <3> DEFINE d == log[i]
               k == i - 1
    <3>1. k \in Nat /\ Aimed(workers, d, k)
      BY <1>b, <2>1
    <3> HIDE DEF d, k
    <3>2. Aimed(workers', d, k)
      BY <1>0, <2>1, <3>1, AimedStep
    <3> QED
      BY <3>2 DEF d, k
  <2> QED
    BY <1>0, <2>1, <2>2 DEF Rotation, Exclusive
<1>2. ASSUME NEW w \in Workers, NEW c \in Conns, Accept(w, c)
      PROVE  Rotation' /\ Exclusive'
  <2>1. Len(workers) \in Nat \ {0} /\ phase[w] = "serving"
    BY <1>2, Chosen DEF Accept
  <2> DEFINE d == Record(w, c, NextWorker)
  <2>2. /\ sending = {} /\ sending' = {d}
        /\ counter' = counter + 1
        /\ UNCHANGED <<workers, log>>
    BY <1>2 DEF Accept, Unlocked
  <2>3. counter = Len(log)
    BY <1>0, <1>a, <2>2 DEF Rotation
  <2>4. Aimed(workers, d, Len(log))
    BY <2>1, <2>3 DEF Aimed, Record, NextWorker
  <2> HIDE DEF d
  <2>5. /\ \A i \in DOMAIN log' : Aimed(workers', log'[i], i - 1)
        /\ \A e \in sending' : Aimed(workers', e, Len(log'))
    BY <1>b, <2>2, <2>4 DEF Aimed
  <2>6. counter' = Len(log') + (IF sending' = {} THEN 0 ELSE 1)
    BY <1>a, <2>2, <2>3
  <2> QED
    BY <2>2, <2>5, <2>6 DEF Rotation, Exclusive
<1>3. ASSUME NEW w \in Workers, Send(w)
      PROVE  Rotation' /\ Exclusive'
  <2>1. PICK d \in sending :
          /\ sending' = sending \ {d}
          /\ log' = Append(log, d)
          /\ UNCHANGED <<workers, counter>>
    BY <1>3 DEF Send
  <2>2. d \in Dispatch /\ sending' = {} /\ sending # {}
    BY <2>1, Underway
  <2>3. /\ Len(log') = Len(log) + 1
        /\ DOMAIN log' = 1 .. Len(log) + 1
        /\ \A i \in 1 .. Len(log) : log'[i] = log[i]
        /\ log'[Len(log) + 1] = d
    BY <1>a, <2>1, <2>2, AppendProperties, LenProperties
  <2>4. ASSUME NEW i \in DOMAIN log'
        PROVE  Aimed(workers, log'[i], i - 1)
    <3>1. CASE i \in 1 .. Len(log)
      BY <1>a, <1>b, <2>3, <3>1
    <3>2. CASE i = Len(log) + 1
      <4>1. log'[i] = d /\ i - 1 = Len(log)
        BY <1>a, <2>3, <3>2
      <4> QED
        BY <1>b, <4>1
    <3> QED
      BY <1>a, <2>3, <3>1, <3>2
  <2>5. \A i \in DOMAIN log' : Aimed(workers', log'[i], i - 1)
    BY <2>1, <2>4 DEF Aimed
  <2>6. counter = Len(log) + 1
    BY <1>0, <2>2 DEF Rotation
  <2>7. counter' = Len(log') + (IF sending' = {} THEN 0 ELSE 1)
    BY <1>a, <2>1, <2>2, <2>3, <2>6
  <2> QED
    BY <2>2, <2>5, <2>7 DEF Rotation, Exclusive
<1>4. ASSUME UNCHANGED balancer
      PROVE  Rotation' /\ Exclusive'
  BY <1>0, <1>4 DEF Rotation, Exclusive, Aimed, balancer
<1>5. ASSUME NEW w \in Workers, NEW c \in Conns,
             \/ AcceptFails(w, c) \/ Refuse(w, c) \/ Take(w, c)
             \/ TakeFails(w, c) \/ ConnectionEnds(w, c) \/ ConnectionPanics(w, c)
      PROVE  UNCHANGED balancer
  BY <1>5 DEF AcceptFails, Refuse, Take, TakeFails, ConnectionEnds,
              ConnectionPanics
<1>6. ASSUME NEW w \in Workers, BuildFails(w) \/ Listen(w) \/ ListenFails(w)
      PROVE  UNCHANGED balancer
  BY <1>6 DEF BuildFails, Listen, ListenFails
<1>7. JoinFails \/ UNCHANGED vars => UNCHANGED balancer
  BY DEF JoinFails, balancer, vars
<1> QED
  BY <1>1, <1>2, <1>3, <1>4, <1>5, <1>6, <1>7 DEF Next, WorkerStep

\* A step takes a connection from nowhere into a dispatch, from there into a
\* channel, from a channel to a task, or closes it.
LEMMA ApartStep == IInv /\ [Next]_vars => Apart'
<1> SUFFICES ASSUME IInv, [Next]_vars
             PROVE  Apart'
  OBVIOUS
<1>0. Apart /\ TypeOK
  BY DEF IInv
<1>1. ASSUME UNCHANGED <<sending, queue>>,
             \A v \in Workers : live'[v] \subseteq live[v]
      PROVE  Apart'
  <2>1. \A v \in Workers : Queued(v)' = Queued(v)
    BY <1>1 DEF Queued
  <2> QED
    BY <1>0, <1>1, <2>1 DEF Apart
<1>2. ASSUME NEW w \in Workers,
             BuildFails(w) \/ Register(w) \/ Listen(w) \/ ListenFails(w)
      PROVE  Apart'
  <2>1. UNCHANGED <<sending, queue>>
    BY <1>2 DEF BuildFails, Register, Listen, ListenFails, balancer
  <2>2. UNCHANGED live \/ live' = [live EXCEPT ![w] = {}]
    BY <1>2 DEF BuildFails, Register, Listen, ListenFails, Die, worker
  <2>3. \A v \in Workers : live'[v] \subseteq live[v]
    BY <1>0, <2>2 DEF TypeOK
  <2> QED
    BY <1>1, <2>1, <2>3
<1>3. ASSUME NEW w \in Workers, NEW c \in Conns,
             \/ AcceptFails(w, c) \/ ConnectionEnds(w, c)
             \/ ConnectionPanics(w, c)
      PROVE  Apart'
  <2>1. UNCHANGED <<sending, queue>>
    BY <1>3 DEF AcceptFails, ConnectionEnds, ConnectionPanics, balancer
  <2>2. UNCHANGED live \/ live' = [live EXCEPT ![w] = live[w] \ {c}]
    BY <1>3 DEF AcceptFails, ConnectionEnds, ConnectionPanics, worker
  <2>3. \A v \in Workers : live'[v] \subseteq live[v]
    BY <1>0, <2>2 DEF TypeOK
  <2> QED
    BY <1>1, <2>1, <2>3
<1>4. CASE JoinFails \/ UNCHANGED vars
  BY <1>1, <1>4 DEF JoinFails, balancer, worker, vars
<1>5. ASSUME NEW w \in Workers, NEW c \in Conns, Accept(w, c)
      PROVE  Apart'
  <2> DEFINE d == Record(w, c, NextWorker)
  <2>1. /\ sending' = sending \cup {d} /\ d.conn = c
        /\ UNCHANGED <<queue, live>>
        /\ c \notin Arrived
    BY <1>5 DEF Accept, Record, worker
  <2> HIDE DEF d
  <2>2. \A v \in Workers : c \notin Queued(v) /\ c \notin live[v]
    BY <2>1, Unarrived
  <2>3. \A v \in Workers : Queued(v)' = Queued(v)
    BY <2>1 DEF Queued
  <2> QED
    BY <1>0, <2>1, <2>2, <2>3 DEF Apart
<1>6. ASSUME NEW w \in Workers, Send(w)
      PROVE  Apart'
  <2>1. PICK d \in sending :
          /\ sending' = sending \ {d}
          /\ \/ UNCHANGED queue
             \/ queue' = [queue EXCEPT ![d.to] = Append(queue[d.to], d.conn)]
          /\ UNCHANGED worker
    BY <1>6 DEF Send
  <2> DEFINE x == d.to
             c == d.conn
  <2>2. /\ sending' = {} /\ x \in Workers /\ c \in Conns
        /\ c \notin Queued(x) /\ c \notin live[x]
        /\ UNCHANGED live
    BY <2>1, Underway DEF worker
  <2>3. \/ UNCHANGED queue
        \/ queue' = [queue EXCEPT ![x] = Append(queue[x], c)]
    BY <2>1
  <2> HIDE DEF x, c
  <2>4. CASE UNCHANGED queue
    <3>1. \A v \in Workers : Queued(v)' = Queued(v)
      BY <2>4 DEF Queued
    <3> QED
      BY <1>0, <2>2, <2>4, <3>1 DEF Apart
  <2>5. CASE queue' = [queue EXCEPT ![x] = Append(queue[x], c)]
    <3>1. queue \in [Workers -> Seq(Conns)]
      BY <1>0 DEF TypeOK
    <3>2. /\ ToSet(Append(queue[x], c)) = Queued(x) \cup {c}
          /\ IsInjective(queue[x]) => IsInjective(Append(queue[x], c))
      BY <2>2, <3>1, AppendSet DEF Queued
    <3>3. \A v \in Workers :
             /\ Queued(v)' = IF v = x THEN Queued(v) \cup {c} ELSE Queued(v)
             /\ IsInjective(queue[v]) => IsInjective(queue'[v])
      BY <2>2, <2>5, <3>1, <3>2 DEF Queued
    <3> QED
      BY <1>0, <2>2, <3>3 DEF Apart
  <2> QED
    BY <2>3, <2>4, <2>5
<1>7. ASSUME NEW w \in Workers, NEW c \in Conns,
             Refuse(w, c) \/ Take(w, c) \/ TakeFails(w, c)
      PROVE  Apart'
  <2>1. /\ queue' = [queue EXCEPT ![w] = Tail(queue[w])]
        /\ \/ UNCHANGED live
           \/ live' = [live EXCEPT ![w] = live[w] \cup {c}]
           \/ live' = [live EXCEPT ![w] = {}]
        /\ UNCHANGED sending
    BY <1>7 DEF Refuse, Take, TakeFails, Die, worker, balancer
  <2>2. /\ IsInjective(Tail(queue[w])) /\ c \in Queued(w)
        /\ ToSet(Tail(queue[w])) = Queued(w) \ {c}
    BY <1>7, Receiving DEF Refuse, Take, TakeFails
  <2>3. \A v \in Workers :
           /\ Queued(v)' = IF v = w THEN Queued(v) \ {c} ELSE Queued(v)
           /\ IsInjective(queue[v]) => IsInjective(queue'[v])
    BY <1>0, <2>1, <2>2 DEF Queued, TypeOK
  <2>4. \A v \in Workers :
           live'[v] \subseteq IF v = w THEN live[v] \cup {c} ELSE live[v]
    BY <1>0, <2>1 DEF TypeOK
  <2>5. \A v \in Workers : IsInjective(queue'[v])
    BY <1>0, <2>3 DEF Apart
  <2>6. \A v \in Workers : Queued(v)' \cap live'[v] = {}
    BY <1>0, <2>3, <2>4 DEF Apart
  <2>7. \A d \in sending : \A v \in Workers :
           d.conn \notin Queued(v)' /\ d.conn \notin live'[v]
    BY <1>0, <2>2, <2>3, <2>4 DEF Apart
  <2> QED
    BY <2>1, <2>5, <2>6, <2>7 DEF Apart
<1> QED
  BY <1>2, <1>3, <1>4, <1>5, <1>6, <1>7 DEF Next, WorkerStep

-----------------------------------------------------------------------------
(* The theorems                                                             *)

LEMMA StepInv == IInv /\ [Next]_vars => IInv'
<1> SUFFICES ASSUME IInv, [Next]_vars
             PROVE  IInv'
  OBVIOUS
<1>1. TypeOK'
  BY TypeStep
<1>2. Registered' /\ TasksServed'
  BY RegisteredStep, TasksStep
<1>3. Counted' /\ Apart'
  BY CountedStep, ApartStep
<1>4. Rotation' /\ Exclusive'
  BY RotationStep
<1> QED
  BY <1>1, <1>2, <1>3, <1>4 DEF IInv

\* The strengthened invariant holds of every behaviour.
THEOREM Invariant == Spec => []IInv
BY InitInv, StepInv, PTL DEF Spec

\* Every queue holds connections, every count is a natural number: the count
\* of a worker never goes below zero, in whatever order connections end.
THEOREM TypeCorrect == Spec => []TypeOK
<1>1. IInv => TypeOK
  BY DEF IInv
<1> QED
  BY <1>1, Invariant, PTL

\* For any number of threads and any limit: a worker's count is its live
\* connections and those that panicked, and stays within the limit.
THEOREM CountedHolds == Spec => []Counted
<1>1. IInv => Counted
  BY DEF IInv
<1> QED
  BY <1>1, Invariant, PTL

\* For any number of threads: n sends in a row among n workers reach all of
\* them, whichever threads dispatch at the same time.
THEOREM RoundRobinHolds == Spec => []RoundRobin
<1>1. ASSUME IInv
      PROVE  RoundRobin
  <2> SUFFICES ASSUME NEW i \in DOMAIN log, NEW j \in DOMAIN log,
                      i < j, j - i < log[i].of, log[i].of = log[j].of
               PROVE  log[i].to # log[j].to
    BY DEF RoundRobin
  <2>1. /\ log \in Seq(Dispatch) /\ workers \in Seq(Workers)
        /\ IsInjective(workers)
        /\ Rotation
    BY <1>1 DEF IInv, TypeOK, Registered
  <2>2. /\ i \in Nat \ {0} /\ j \in Nat \ {0}
        /\ DOMAIN workers = 1 .. Len(workers) /\ Len(workers) \in Nat
    BY <2>1, LenProperties
  <2> DEFINE n == log[i].of
             a == i - 1
             b == j - 1
  <2>3. /\ n \in Nat \ {0} /\ n <= Len(workers)
        /\ log[i].to = workers[1 + (a % n)]
        /\ log[j].to = workers[1 + (b % n)]
    BY <2>1, <2>2 DEF Rotation, Aimed
  <2>4. i < j /\ j - i < n
    OBVIOUS
  <2>5. n \in Nat \ {0}
    BY <2>3
  <2> HIDE DEF n
  <2>6. i \in Nat \ {0} /\ j \in Nat \ {0}
    BY <2>2
  <2>7. a \in Nat /\ b \in Nat /\ a < b
    BY <2>4, <2>6
  <2>8. b - a = j - i
    BY <2>6
  <2>9. a \in Nat /\ b \in Nat /\ a < b /\ b - a < n
    BY <2>4, <2>7, <2>8
  <2> HIDE DEF a, b
  <2>10. a % n # b % n
    BY <2>3, <2>9, Moduli
  <2>11. a % n \in 0 .. n - 1 /\ b % n \in 0 .. n - 1
    BY <2>3, <2>9
  <2>12. /\ 1 + (a % n) \in DOMAIN workers /\ 1 + (b % n) \in DOMAIN workers
        /\ 1 + (a % n) # 1 + (b % n)
    BY <2>2, <2>3, <2>10, <2>11
  <2> QED
    BY <2>1, <2>3, <2>12 DEF IsInjective
<1> QED
  BY <1>1, Invariant, PTL
=============================================================================
