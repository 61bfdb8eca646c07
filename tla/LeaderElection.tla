--------------------------- MODULE LeaderElection ---------------------------
(***************************************************************************)
(* Which instance runs the scheduler (internal/leader/leader.go, the       *)
(* callbacks and the shutdown sequence of cmd/goqueue/main.go).  Two       *)
(* goroutines of a process share the field e.conn without a lock: the      *)
(* elector, and main once it calls Stop.  Every read of the field is a     *)
(* step of its own, and a method called through a nil field panics.        *)
(*                                                                         *)
(* PostgreSQL's advisory lock belongs to a session.  A session ends when   *)
(* its client closes the connection or the connection breaks; the server   *)
(* may release the lock only some time later.                              *)
(***************************************************************************)
EXTENDS Naturals

CONSTANTS Instance,
          MaxLosses      \* bound: broken connections, failed connects and queries, crashes

ASSUME LossAssumption ==
  MaxLosses \in Nat /\ "free" \notin Instance /\ "detached" \notin Instance

VARIABLES pc,            \* where each goroutine is
          conn,          \* e.conn: "nil", or a connection, open or closed
          attached,      \* the server still has the session of that connection
          lock,          \* owner of the advisory lock
          isLeader, running,   \* LeaderElector.isLeader, Scheduler.running
          losses

vars == <<pc, conn, attached, lock, isLeader, running, losses>>

Elector(i) == <<i, "elector">>
Main(i) == <<i, "main">>

ElectorPc == {"loop", "try", "reuse", "connect", "query", "querying", "discard", "forget",
              "acquired", "start", "hold", "verify", "verifying",
              "close", "inspect", "shut", "clear", "lost", "stop", "ended",
              "exited", "panicked"}

MainPc == {"serving", "close", "inspect", "shut", "clear", "standby", "drain",
           "exited", "panicked"}

\* Every variable keeps its shape, each goroutine stays in its own code.
TypeOK ==
  /\ DOMAIN pc = Instance \X {"elector", "main"}
  /\ \A i \in Instance : pc[Elector(i)] \in ElectorPc /\ pc[Main(i)] \in MainPc
  /\ conn \in [Instance -> {"nil", "open", "closed"}]
  /\ attached \in [Instance -> BOOLEAN]
  /\ lock \in Instance \cup {"free", "detached"}
  /\ isLeader \in [Instance -> BOOLEAN]
  /\ running \in [Instance -> BOOLEAN]
  /\ losses \in 0 .. MaxLosses

Init ==
  /\ pc = [t \in Instance \X {"elector", "main"} |-> IF t[2] = "main" THEN "serving" ELSE "loop"]
  /\ conn = [i \in Instance |-> "nil"]
  /\ attached = [i \in Instance |-> FALSE]
  /\ lock = "free"
  /\ isLeader = [i \in Instance |-> FALSE]
  /\ running = [i \in Instance |-> FALSE]
  /\ losses = 0

\* main has called cancel().
Cancelled(i) == pc[Main(i)] # "serving"

Up(i) == pc[Main(i)] \notin {"exited", "panicked"}

Goto(t, label) == pc' = [pc EXCEPT ![t] = label]

SetConn(i, c) == conn' = [conn EXCEPT ![i] = c]

\* The session of i is over; its lock stays with the server until it notices.
EndSession(i) == /\ attached' = [attached EXCEPT ![i] = FALSE]
                 /\ lock' = IF lock = i THEN "detached" ELSE lock

\* The process is gone, and with it every goroutine and its connection.
Dies(i, how) ==
  /\ pc' = [pc EXCEPT ![Elector(i)] = how, ![Main(i)] = how]
  /\ SetConn(i, "nil")
  /\ EndSession(i)
  /\ isLeader' = [isLeader EXCEPT ![i] = FALSE]
  /\ running' = [running EXCEPT ![i] = FALSE]
  /\ UNCHANGED losses

Panics(i) == Dies(i, "panicked")

Loses == losses < MaxLosses /\ losses' = losses + 1

----------------------------------------------------------------------------
(* tryAcquire                                                              *)
CheckContext(i) ==
  /\ pc[Elector(i)] = "loop"
  /\ Goto(Elector(i), IF Cancelled(i) THEN "ended" ELSE "try")
  /\ UNCHANGED <<conn, attached, lock, isLeader, running, losses>>

TryAcquire(i) ==
  /\ pc[Elector(i)] = "try"
  /\ Goto(Elector(i), IF conn[i] = "nil" THEN "connect" ELSE "reuse")
  /\ UNCHANGED <<conn, attached, lock, isLeader, running, losses>>

Reuse(i) ==
  /\ pc[Elector(i)] = "reuse"
  /\ IF conn[i] = "nil" THEN Panics(i)
       ELSE /\ Goto(Elector(i), IF conn[i] = "closed" THEN "connect" ELSE "query")
            /\ UNCHANGED <<conn, attached, lock, isLeader, running, losses>>

Connect(i) ==
  /\ pc[Elector(i)] = "connect"
  /\ SetConn(i, "open")
  /\ attached' = [attached EXCEPT ![i] = TRUE]
  /\ Goto(Elector(i), "query")
  /\ UNCHANGED <<lock, isLeader, running, losses>>

ConnectFails(i) ==
  /\ pc[Elector(i)] = "connect"
  /\ IF Cancelled(i) THEN UNCHANGED losses ELSE Loses
  /\ Goto(Elector(i), "loop")
  /\ UNCHANGED <<conn, attached, lock, isLeader, running>>

\* QueryRow of tryAcquire and of verifyLock: a context that is cancelled already
\* is an error before anything is sent.
QueryRow(i) ==
  LET here == pc[Elector(i)] IN
  /\ here \in {"query", "verify"}
  /\ \/ conn[i] = "nil" /\ Panics(i)
     \/ /\ conn[i] # "nil"
        /\ Goto(Elector(i), IF here = "query" THEN IF Cancelled(i) THEN "discard" ELSE "querying"
                                              ELSE IF Cancelled(i) THEN "close" ELSE "verifying")
        /\ UNCHANGED <<conn, attached, lock, isLeader, running, losses>>

\* Mutant: a lock that is not acquired is no error.
LockReplyIgnored(i) ==
  /\ pc[Elector(i)] = "querying"
  /\ conn[i] = "open" /\ attached[i]
  /\ lock' = IF lock = "free" THEN i ELSE lock
  /\ Goto(Elector(i), "acquired")
  /\ UNCHANGED <<conn, attached, isLeader, running, losses>>

\* pg_try_advisory_lock does not wait for the owner.
LockReply(i) ==
  /\ pc[Elector(i)] = "querying"
  /\ conn[i] = "open" /\ attached[i]
  /\ \/ lock = "free" /\ lock' = i /\ Goto(Elector(i), "acquired")
     \/ lock # "free" /\ UNCHANGED lock /\ Goto(Elector(i), "discard")
  /\ UNCHANGED <<conn, attached, isLeader, running, losses>>

\* A query under way fails: with its connection, which the driver then closes, or
\* by an error of the server, which leaves the session as it is.
QueryError(i) ==
  /\ pc[Elector(i)] \in {"querying", "verifying"}
  /\ \/ /\ Cancelled(i) \/ conn[i] # "open" \/ ~attached[i]
        /\ SetConn(i, IF conn[i] = "nil" THEN "nil" ELSE "closed")
        /\ EndSession(i)
        /\ UNCHANGED losses
     \/ /\ conn[i] = "open" /\ attached[i] /\ Loses
        /\ UNCHANGED <<conn, attached, lock>>
  /\ UNCHANGED <<isLeader, running>>

\* Mutant: a heartbeat that fails is tried again at the next tick.
QueryFailsRetried(i) ==
  /\ QueryError(i)
  /\ Goto(Elector(i), IF pc[Elector(i)] = "querying" THEN "discard" ELSE "hold")

QueryFails(i) ==
  /\ QueryError(i)
  /\ Goto(Elector(i), IF pc[Elector(i)] = "querying" THEN "discard" ELSE "close")

Discard(i) ==
  /\ pc[Elector(i)] = "discard"
  /\ \/ conn[i] = "nil" /\ Panics(i)
     \/ /\ conn[i] # "nil"
        /\ SetConn(i, "closed")
        /\ EndSession(i)
        /\ Goto(Elector(i), "forget")
        /\ UNCHANGED <<isLeader, running, losses>>

\* Mutant: a failed attempt ends the loop of Start.
ForgetAndReturn(i) ==
  /\ pc[Elector(i)] = "forget"
  /\ SetConn(i, "nil")
  /\ Goto(Elector(i), "ended")
  /\ UNCHANGED <<attached, lock, isLeader, running, losses>>

Forget(i) ==
  /\ pc[Elector(i)] = "forget"
  /\ SetConn(i, "nil")
  /\ Goto(Elector(i), "loop")
  /\ UNCHANGED <<attached, lock, isLeader, running, losses>>

----------------------------------------------------------------------------
(* Leading: the flag and onAcquire, holdLock, the flag and onRelease.      *)
Acquire(i) ==
  /\ pc[Elector(i)] = "acquired"
  /\ isLeader' = [isLeader EXCEPT ![i] = TRUE]
  /\ Goto(Elector(i), "start")
  /\ UNCHANGED <<conn, attached, lock, running, losses>>

StartScheduler(i) ==
  /\ pc[Elector(i)] = "start"
  /\ running' = [running EXCEPT ![i] = TRUE]
  /\ Goto(Elector(i), "hold")
  /\ UNCHANGED <<conn, attached, lock, isLeader, losses>>

\* Mutant: a cancelled holdLock leaves its connection open.
HoldLockReturns(i) ==
  /\ pc[Elector(i)] = "hold"
  /\ \/ Cancelled(i) /\ Goto(Elector(i), "lost")
     \/ Goto(Elector(i), "verify")
  /\ UNCHANGED <<conn, attached, lock, isLeader, running, losses>>

\* With the context done and the ticker ready, select takes either case.
HoldLock(i) ==
  /\ pc[Elector(i)] = "hold"
  /\ \/ Cancelled(i) /\ Goto(Elector(i), "close")
     \/ Goto(Elector(i), "verify")
  /\ UNCHANGED <<conn, attached, lock, isLeader, running, losses>>

VerifyReply(i) ==
  /\ pc[Elector(i)] = "verifying"
  /\ conn[i] = "open" /\ attached[i]
  /\ Goto(Elector(i), IF lock = i THEN "hold" ELSE "close")
  /\ UNCHANGED <<conn, attached, lock, isLeader, running, losses>>

Release(i) ==
  /\ pc[Elector(i)] = "lost"
  /\ isLeader' = [isLeader EXCEPT ![i] = FALSE]
  /\ Goto(Elector(i), "stop")
  /\ UNCHANGED <<conn, attached, lock, running, losses>>

\* Scheduler.Stop waits for its loops.
StopScheduler(i) ==
  /\ pc[Elector(i)] = "stop"
  /\ running' = [running EXCEPT ![i] = FALSE]
  /\ Goto(Elector(i), "loop")
  /\ UNCHANGED <<conn, attached, lock, isLeader, losses>>

----------------------------------------------------------------------------
(* if e.conn != nil && !e.conn.IsClosed() { e.conn.Close(); e.conn = nil } *)
(* as it stands in holdLock and in Stop.                                   *)

\* Mutant: Stop goes on in the elector's code.
AfterSame(t) == "lost"

After(t) == IF t[2] = "elector" THEN "lost" ELSE "standby"

\* Mutant: Stop closes the connection of a leader only.
ReadConnOfLeader(t) ==
  /\ pc[t] = "close"
  /\ Goto(t, IF conn[t[1]] = "nil" \/ ~isLeader[t[1]] THEN After(t) ELSE "inspect")
  /\ UNCHANGED <<conn, attached, lock, isLeader, running, losses>>

ReadConn(t) ==
  /\ pc[t] = "close"
  /\ Goto(t, IF conn[t[1]] = "nil" THEN After(t) ELSE "inspect")
  /\ UNCHANGED <<conn, attached, lock, isLeader, running, losses>>

InspectConn(t) ==
  /\ pc[t] = "inspect"
  /\ \/ conn[t[1]] = "nil" /\ Panics(t[1])
     \/ /\ conn[t[1]] # "nil"
        /\ Goto(t, IF conn[t[1]] = "closed" THEN After(t) ELSE "shut")
        /\ UNCHANGED <<conn, attached, lock, isLeader, running, losses>>

ShutConn(t) ==
  /\ pc[t] = "shut"
  /\ \/ conn[t[1]] = "nil" /\ Panics(t[1])
     \/ /\ conn[t[1]] # "nil"
        /\ SetConn(t[1], "closed")
        /\ EndSession(t[1])
        /\ Goto(t, "clear")
        /\ UNCHANGED <<isLeader, running, losses>>

ClearConn(t) ==
  /\ pc[t] = "clear"
  /\ SetConn(t[1], "nil")
  /\ Goto(t, After(t))
  /\ UNCHANGED <<attached, lock, isLeader, running, losses>>

CloseStep(t) == ReadConn(t) \/ InspectConn(t) \/ ShutConn(t) \/ ClearConn(t)

----------------------------------------------------------------------------
(* main: cancel(), elector.Stop(), the rest of the shutdown, return.       *)
Cancel(i) ==
  /\ pc[Main(i)] = "serving"
  /\ Goto(Main(i), "close")
  /\ UNCHANGED <<conn, attached, lock, isLeader, running, losses>>

Standby(i) ==
  /\ pc[Main(i)] = "standby"
  /\ isLeader' = [isLeader EXCEPT ![i] = FALSE]
  /\ Goto(Main(i), "drain")
  /\ UNCHANGED <<conn, attached, lock, running, losses>>

\* srv.Shutdown and pool.Stop return.  Nobody waits for the elector.
Exit(i) ==
  /\ pc[Main(i)] = "drain"
  /\ Dies(i, "exited")

(* The environment.                                                        *)
ConnectionBreaks(i) ==
  /\ attached[i] /\ Loses
  /\ EndSession(i)
  /\ UNCHANGED <<pc, conn, isLeader, running>>

Crash(i) ==
  /\ Up(i) /\ Loses
  /\ pc' = [pc EXCEPT ![Elector(i)] = "exited", ![Main(i)] = "exited"]
  /\ SetConn(i, "nil")
  /\ EndSession(i)
  /\ isLeader' = [isLeader EXCEPT ![i] = FALSE]
  /\ running' = [running EXCEPT ![i] = FALSE]

ServerReleases ==
  /\ lock = "detached"
  /\ lock' = "free"
  /\ UNCHANGED <<pc, conn, attached, isLeader, running, losses>>

----------------------------------------------------------------------------
ElectorStep(i) ==
  \/ CheckContext(i) \/ TryAcquire(i) \/ Reuse(i) \/ Connect(i) \/ ConnectFails(i)
  \/ QueryRow(i) \/ LockReply(i) \/ QueryFails(i) \/ Discard(i) \/ Forget(i)
  \/ Acquire(i) \/ StartScheduler(i) \/ HoldLock(i) \/ VerifyReply(i)
  \/ CloseStep(Elector(i)) \/ Release(i) \/ StopScheduler(i)

ShutdownStep(i) == CloseStep(Main(i)) \/ Standby(i) \/ Exit(i)

Next == \/ \E i \in Instance : \/ ElectorStep(i) \/ ShutdownStep(i)
                               \/ Cancel(i) \/ ConnectionBreaks(i) \/ Crash(i)
        \/ ServerReleases

Spec == Init /\ [][Next]_vars

(* The goroutines run, their calls return, the server notices a dead       *)
(* session.  Nothing says that an instance is ever shut down or fails.     *)
Fairness == /\ \A i \in Instance : WF_vars(ElectorStep(i)) /\ WF_vars(ShutdownStep(i))
            /\ WF_vars(ServerReleases)

LiveSpec == Spec /\ Fairness

----------------------------------------------------------------------------
\* A scheduler that runs, or an instance that IsLeader calls the leader, has the
\* lock, or its session is over and it has yet to notice: two of them overlap only
\* between a lost session and the next heartbeat or shutdown step.  This includes
\* the flag an elector sets after Stop has cleared it.
LeaseOrLost ==
  \A i \in Instance : running[i] \/ isLeader[i] => lock = i \/ ~attached[i]

\* Comment of Stop: it releases the advisory lock.  Wherever the elector is when
\* Stop runs, no session of this instance owns the lock afterwards.
ReleasedByStop ==
  \A i \in Instance : pc[Main(i)] \in {"standby", "drain"} => lock # i

\* Where the elector is between a granted lock and the end of onRelease.
Section == {"acquired", "start", "hold", "verify", "verifying",
            "close", "inspect", "shut", "clear", "lost", "stop"}

Tenure == {i \in Instance : pc[Elector(i)] \in Section}
Acting == {i \in Instance : running[i] \/ isLeader[i]}

Lease == INSTANCE LeaderLease WITH holder <- lock, tenure <- Tenure, acting <- Acting

\* The goroutines, the shared field and the sessions implement the lease.
LeaseKept == Lease!Spec

Led == \E i \in Instance : running[i] /\ lock = i

\* As long as one instance stays up, some instance comes, again and again, to run
\* the scheduler under the lock, whatever connections broke and instances died.
Available == \A i \in Instance : []<>(Led \/ Cancelled(i))

\* An elector that thinks it leads with its session over does not go on doing so:
\* the heartbeat fails and the loops of its scheduler end, so two schedulers run
\* side by side for a while only.  (A new lease is granted outside Section only.)
TenureEnds == \A i \in Instance : []<>(pc[Elector(i)] \in Section => lock = i)

\* main.go, leader.go: Stop is part of the graceful shutdown, so the process does
\* not end by dereferencing the connection field another goroutine has cleared.
NoPanic == \A i \in Instance : pc[Main(i)] # "panicked"
=============================================================================
