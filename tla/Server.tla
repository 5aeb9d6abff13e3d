------------------------------- MODULE Server -------------------------------
(***************************************************************************)
(* The server around the connections: the threads that config.rs starts,   *)
(* one runtime each, the ConnectionBalancer they share and, per thread,    *)
(* the accept task and the worker loop of balanced_loop (connection.rs).   *)
(*                                                                         *)
(* Threads share only the balancer.  Its Mutex is held for the whole of    *)
(* register, a single push, and of dispatch, which is two steps here: the  *)
(* counter moves, then the connection is sent.  Within a thread tasks      *)
(* interleave at awaits, of which dispatch has none.  What happens on a    *)
(* connection is Connection's business; here it only ends, normally or by  *)
(* a panic that the runtime catches.                                       *)
(***************************************************************************)
EXTENDS Integers, SequencesExt

CONSTANTS
    NumCores,        \* config.num_cores
    Conns,           \* the connections clients make
    MaxConnections   \* config.max_concurrent_connections, of one worker

ASSUME ServerAssumption ==
    /\ NumCores \in Nat \ {0}
    /\ MaxConnections \in Nat
    /\ IsFiniteSet(Conns)

Workers == 1 .. NumCores        \* in the order the threads are spawned

VARIABLES
    up,           \* the process runs
    phase,        \* where each thread is
    workers,      \* balancer.workers: whose sender each entry is
    counter,      \* balancer.counter
    sending,      \* dispatches between the counter and the send
    queue,        \* each worker's channel
    concurrent,   \* each worker's count of connections
    live,         \* connections with a running task
    panicked,     \* history: connections that ended in a panic, per worker
    gone,         \* history: connections closed, whatever the reason
    log           \* history: every send, in order

vars == <<up, phase, workers, counter, sending, queue, concurrent, live,
          panicked, gone, log>>

balancer  == <<workers, counter, sending, log>>
worker    == <<concurrent, live, panicked>>

\* A dispatched connection: who accepted it, who is to handle it, and how
\* many workers there were to choose from.
Dispatch == [conn : Conns, by : Workers, to : Workers, of : Nat]
Record(w, c, to) == [conn |-> c, by |-> w, to |-> to, of |-> Len(workers)]

TypeOK ==
    /\ up \in BOOLEAN
    /\ phase \in [Workers -> {"starting", "registered", "serving", "dead"}]
    /\ workers \in Seq(Workers)
    /\ counter \in Nat
    /\ sending \in SUBSET Dispatch
    /\ queue \in [Workers -> Seq(Conns)]
    /\ concurrent \in [Workers -> Nat]
    /\ live \in [Workers -> SUBSET Conns]
    /\ panicked \in [Workers -> Nat]
    /\ gone \in SUBSET Conns
    /\ log \in Seq(Dispatch)

Init ==
    /\ up = TRUE
    /\ phase = [w \in Workers |-> "starting"]
    /\ workers = <<>>
    /\ counter = 0
    /\ sending = {}
    /\ queue = [w \in Workers |-> <<>>]
    /\ concurrent = [w \in Workers |-> 0]
    /\ live = [w \in Workers |-> {}]
    /\ panicked = [w \in Workers |-> 0]
    /\ gone = {}
    /\ log = <<>>

Queued(w) == ToSet(queue[w])
Arrived ==
    (UNION {Queued(w) \cup live[w] : w \in Workers})
        \cup {d.conn : d \in sending} \cup gone

\* Mutant of Unlocked: the guard is dropped before the send.
UnlockedAlways == TRUE

\* Nobody holds the balancer's mutex.
Unlocked == sending = {}

\* The thread is not inside dispatch: a task of it may be polled.
Idle(w) == \A d \in sending : d.by # w

-----------------------------------------------------------------------------
(* Starting, serving and losing a thread                                   *)

\* The runtime is not built: the thread panics before it registers.
BuildFails(w) ==
    /\ phase[w] = "starting"
    /\ phase' = [phase EXCEPT ![w] = "dead"]
    /\ UNCHANGED <<up, balancer, queue, worker, gone>>

\* The worker is in the balancer before its socket is bound.
Register(w) ==
    /\ phase[w] = "starting"
    /\ Unlocked
    /\ phase' = [phase EXCEPT ![w] = "registered"]
    /\ workers' = Append(workers, w)
    /\ UNCHANGED <<up, counter, sending, log, queue, worker, gone>>

Listen(w) ==
    /\ phase[w] = "registered"
    /\ phase' = [phase EXCEPT ![w] = "serving"]
    /\ UNCHANGED <<up, balancer, queue, worker, gone>>

\* serve() returns an error: the thread panics and its runtime drops its
\* tasks and the receiver.  The balancer keeps the sender, and with it what
\* is still queued: nobody will receive it, and nobody closes it.
Die(w, conns) ==
    /\ phase' = [phase EXCEPT ![w] = "dead"]
    /\ gone' = gone \cup live[w] \cup conns
    /\ live' = [live EXCEPT ![w] = {}]

ListenFails(w) ==
    /\ phase[w] = "registered"
    /\ Die(w, {})
    /\ UNCHANGED <<up, balancer, queue, concurrent, panicked>>

\* The main thread joins the threads in order and panics with the first of
\* them; that it gets past one takes that one to return, which none does.
JoinFails ==
    /\ phase[1] = "dead"
    /\ up' = FALSE
    /\ UNCHANGED <<phase, balancer, queue, worker, gone>>

-----------------------------------------------------------------------------
(* The accept task                                                         *)

NextWorker == workers[1 + (counter % Len(workers))]

\* dispatch: with the mutex held the counter moves ...
Accept(w, c) ==
    /\ phase[w] = "serving"
    /\ Idle(w)
    /\ Unlocked
    /\ c \notin Arrived
    /\ counter' = counter + 1
    /\ sending' = sending \cup {Record(w, c, NextWorker)}
    /\ UNCHANGED <<up, phase, workers, log, queue, worker, gone>>

\* ... and the connection is sent.  A send to a dead worker fails and drops
\* the connection, which nobody reports.
Send(w) ==
    \E d \in sending :
        /\ d.by = w
        /\ sending' = sending \ {d}
        /\ log' = Append(log, d)
        /\ IF phase[d.to] = "dead"
             THEN /\ gone' = gone \cup {d.conn}
                  /\ UNCHANGED queue
             ELSE /\ queue' = [queue EXCEPT ![d.to] = Append(@, d.conn)]
                  /\ UNCHANGED gone
        /\ UNCHANGED <<up, phase, workers, counter, worker>>

\* The accepted descriptor cannot be duplicated.
AcceptFails(w, c) ==
    /\ phase[w] = "serving"
    /\ Idle(w)
    /\ c \notin Arrived
    /\ gone' = gone \cup {c}
    /\ UNCHANGED <<up, phase, balancer, queue, worker>>

-----------------------------------------------------------------------------
(* The worker loop                                                         *)

\* Mutant of AtLimit: one connection too many.
AtLimitLate(w) == concurrent[w] > MaxConnections

AtLimit(w) == concurrent[w] >= MaxConnections

\* rx.recv_async() returns the head of the queue.
Received(w, c) ==
    /\ phase[w] = "serving"
    /\ Idle(w)
    /\ queue[w] # <<>>
    /\ c = Head(queue[w])

\* Mutant of Refuse: a refused connection is counted down like a handled one.
RefuseCountsDown(w, c) ==
    /\ Received(w, c)
    /\ AtLimit(w)
    /\ queue' = [queue EXCEPT ![w] = Tail(@)]
    /\ concurrent' = [concurrent EXCEPT ![w] = @ - 1]
    /\ gone' = gone \cup {c}
    /\ UNCHANGED <<up, phase, balancer, live, panicked>>

\* Mutant of Refuse: the limit is checked before the receive, and connections
\* wait for one that ends.
RefuseWaits(w, c) ==
    /\ Received(w, c)
    /\ AtLimit(w)
    /\ UNCHANGED vars

Refuse(w, c) ==
    /\ Received(w, c)
    /\ AtLimit(w)
    /\ queue' = [queue EXCEPT ![w] = Tail(@)]
    /\ gone' = gone \cup {c}
    /\ UNCHANGED <<up, phase, balancer, worker>>

Take(w, c) ==
    /\ Received(w, c)
    /\ ~AtLimit(w)
    /\ queue' = [queue EXCEPT ![w] = Tail(@)]
    /\ concurrent' = [concurrent EXCEPT ![w] = @ + 1]
    /\ live' = [live EXCEPT ![w] = @ \cup {c}]
    /\ UNCHANGED <<up, phase, balancer, panicked, gone>>

\* TcpStream::from_std fails: one bad connection takes the worker with it.
TakeFails(w, c) ==
    /\ Received(w, c)
    /\ ~AtLimit(w)
    /\ queue' = [queue EXCEPT ![w] = Tail(@)]
    /\ concurrent' = [concurrent EXCEPT ![w] = @ + 1]
    /\ Die(w, {c})
    /\ UNCHANGED <<up, balancer, panicked>>

\* handle_connection returns, Ok or Err.
ConnectionEnds(w, c) ==
    /\ c \in live[w]
    /\ Idle(w)
    /\ live' = [live EXCEPT ![w] = @ \ {c}]
    /\ concurrent' = [concurrent EXCEPT ![w] = @ - 1]
    /\ gone' = gone \cup {c}
    /\ UNCHANGED <<up, phase, balancer, queue, panicked>>

\* It panics: the line that counts down is never reached.
ConnectionPanics(w, c) ==
    /\ c \in live[w]
    /\ Idle(w)
    /\ live' = [live EXCEPT ![w] = @ \ {c}]
    /\ panicked' = [panicked EXCEPT ![w] = @ + 1]
    /\ gone' = gone \cup {c}
    /\ UNCHANGED <<up, phase, balancer, queue, concurrent>>

WorkerStep(w) ==
    \E c \in Conns : Refuse(w, c) \/ Take(w, c) \/ TakeFails(w, c)

Next ==
    /\ up
    /\ \/ \E w \in Workers :
            \/ BuildFails(w)
            \/ Register(w)
            \/ Listen(w)
            \/ ListenFails(w)
            \/ WorkerStep(w)
            \/ Send(w)
            \/ \E c \in Conns :
                 \/ Accept(w, c)
                 \/ AcceptFails(w, c)
                 \/ ConnectionEnds(w, c)
                 \/ ConnectionPanics(w, c)
       \/ JoinFails

Spec == Init /\ [][Next]_vars

\* While the process runs a thread gets through its start, out of dispatch
\* and, however often its accept task is polled first, to its queue; and the
\* main thread notices a dead first thread.  Nothing is assumed of clients or
\* of the end of connections.
FairSpec ==
    /\ Spec
    /\ \A w \in Workers :
         /\ WF_vars(up /\ (Listen(w) \/ ListenFails(w)))
         /\ WF_vars(up /\ Send(w))
         /\ SF_vars(up /\ WorkerStep(w))
    /\ WF_vars(up /\ JoinFails)

-----------------------------------------------------------------------------
(* Properties                                                              *)

\* The count of a worker is its live connections and the ones that panicked,
\* and never passes the limit; so neither do the live connections, whatever
\* the order in which connections are queued, taken and ended.
Counted ==
    \A w \in Workers : phase[w] # "dead" =>
        /\ concurrent[w] = Cardinality(live[w]) + panicked[w]
        /\ concurrent[w] <= MaxConnections

\* "Balances accepted connections across worker loops using round-robin":
\* while no worker registers, as many sends in a row as there are workers go
\* to that many workers, whichever threads accept at the same time.
RoundRobin ==
    \A i, j \in DOMAIN log :
        (i < j /\ j - i < log[i].of /\ log[i].of = log[j].of)
            => log[i].to # log[j].to

\* A connection queued at a worker that lives is taken up or refused, also
\* one sent to a worker that is not listening yet, whether or not any of the
\* worker's connections ever ends.
QueueDrains ==
    \A w \in Workers, c \in Conns :
        (c \in Queued(w)) ~> (c \notin Queued(w) \/ phase[w] = "dead" \/ ~up)
=============================================================================
