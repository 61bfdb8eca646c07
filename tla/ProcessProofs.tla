--------------------------- MODULE ProcessProofs ---------------------------
(***************************************************************************)
(* For any number of instances and of losses: a scheduler that runs owns   *)
(* the advisory lock or has lost its session, and Stop leaves no session   *)
(* of its instance with the lock.  The inductive invariant ties together   *)
(* the field e.conn, the server's session and the places of the two        *)
(* goroutines that share the field.                                        *)
(*                                                                         *)
(* For any number of processes, workers and requests: the loops of a       *)
(* scheduler run under the lease, and main closes the stores after the     *)
(* workers and, short of its timeout, the requests.  A process takes only  *)
(* steps that its election allows, so what is proved of LeaderElection     *)
(* holds of it; the second invariant adds what ties the loops to the flag  *)
(* `running' and the workers and requests to main's place.                 *)
(***************************************************************************)
EXTENDS Process, TLAPS

\* The places where the elector has given its connection up.
Disconnected == {"loop", "try", "reuse", "connect", "ended", "forget", "clear",
                 "lost", "stop", "exited", "panicked"}

\* The inductive invariant, for one instance.
Linked(i) ==
  /\ attached[i] => conn[i] = "open"
  /\ lock = i => attached[i] /\ pc[Elector(i)] \in Section
  /\ pc[Elector(i)] \in Section => lock = i \/ ~attached[i]
  /\ running[i] => pc[Elector(i)] \in Section \ {"acquired", "start"}
  /\ isLeader[i] => pc[Elector(i)] \in Section \ {"acquired", "stop"}
  /\ pc[Elector(i)] \in Disconnected => conn[i] # "open"
  /\ pc[Main(i)] = "clear" => conn[i] # "open"
  /\ pc[Main(i)] \in {"shut", "clear"} => pc[Elector(i)] \notin {"try", "reuse", "connect"}
  /\ pc[Main(i)] \in {"standby", "drain"} /\ attached[i] => pc[Elector(i)] \in {"query", "discard"}

LeaseInv == TypeOK /\ \A i \in Instance : Linked(i)

----------------------------------------------------------------------------
(* What a step of one goroutine leaves alone.                              *)

\* The elector of i moves, and nobody else.
LEMMA ElectorMoves ==
  ASSUME TypeOK, NEW i \in Instance, NEW label \in ElectorPc, Goto(Elector(i), label)
  PROVE  /\ DOMAIN pc' = Instance \X {"elector", "main"}
         /\ pc'[Elector(i)] = label
         /\ \A j \in Instance : pc'[Main(j)] = pc[Main(j)]
         /\ \A j \in Instance \ {i} : pc'[Elector(j)] = pc[Elector(j)]
BY DEF TypeOK, Goto, Elector, Main

\* The main goroutine of i moves, and nobody else.
LEMMA MainMoves ==
  ASSUME TypeOK, NEW i \in Instance, NEW label \in MainPc, Goto(Main(i), label)
  PROVE  /\ DOMAIN pc' = Instance \X {"elector", "main"}
         /\ pc'[Main(i)] = label
         /\ \A j \in Instance : pc'[Elector(j)] = pc[Elector(j)]
         /\ \A j \in Instance \ {i} : pc'[Main(j)] = pc[Main(j)]
BY DEF TypeOK, Goto, Elector, Main

\* The end of a process keeps the invariant: its session is over and neither of
\* its goroutines moves again.
LEMMA DeathKeeps ==
  ASSUME LeaseInv, NEW i \in Instance, NEW how \in {"exited", "panicked"},
         pc' = [pc EXCEPT ![Elector(i)] = how, ![Main(i)] = how],
         SetConn(i, "nil"), EndSession(i),
         isLeader' = [isLeader EXCEPT ![i] = FALSE],
         running' = [running EXCEPT ![i] = FALSE],
         losses' \in 0 .. MaxLosses
  PROVE  LeaseInv'
<1>1. /\ DOMAIN pc' = Instance \X {"elector", "main"}
      /\ pc'[Elector(i)] = how /\ pc'[Main(i)] = how
      /\ \A j \in Instance \ {i} : pc'[Elector(j)] = pc[Elector(j)] /\ pc'[Main(j)] = pc[Main(j)]
  BY DEF LeaseInv, TypeOK, Elector, Main
<1>2. TypeOK'
  BY <1>1, LossAssumption, ZenonT(60) DEF LeaseInv, TypeOK, ElectorPc, MainPc, SetConn, EndSession
<1>3. ASSUME NEW j \in Instance PROVE Linked(j)'
  <2>1. CASE j = i
    BY <1>1, <2>1, LossAssumption
       DEF LeaseInv, TypeOK, Linked, SetConn, EndSession, Section, Disconnected
  <2>2. CASE j # i
    <3>1. /\ conn'[j] = conn[j] /\ attached'[j] = attached[j] /\ running'[j] = running[j]
          /\ isLeader'[j] = isLeader[j]
          /\ lock' = j <=> lock = j
      BY <2>2, LossAssumption DEF LeaseInv, TypeOK, SetConn, EndSession
    <3>2. Linked(j)
      BY DEF LeaseInv
    <3> QED BY <1>1, <2>2, <3>1, <3>2, Zenon DEF Linked
  <2> QED BY <2>1, <2>2
<1> QED BY <1>2, <1>3 DEF LeaseInv

\* A step of one elector.
LEMMA ElectorKeeps ==
  ASSUME LeaseInv, NEW i \in Instance, ElectorStep(i)
  PROVE  LeaseInv'
<1> USE LossAssumption
<1>1. TypeOK /\ Linked(i) /\ \A j \in Instance : Linked(j)
  BY DEF LeaseInv
<1>2. CASE Panics(i)
  BY <1>2, DeathKeeps, Zenon DEF Panics, Dies, LeaseInv, TypeOK
<1>3. ASSUME NEW label \in ElectorPc, Goto(Elector(i), label),
             conn' = conn \/ (\E c \in {"nil", "open", "closed"} : SetConn(i, c)),
             attached' = attached \/ EndSession(i) \/ attached' = [attached EXCEPT ![i] = TRUE],
             lock' = lock \/ EndSession(i) \/ (lock = "free" /\ lock' = i),
             isLeader' = isLeader \/ (\E b \in BOOLEAN : isLeader' = [isLeader EXCEPT ![i] = b]),
             running' = running \/ (\E b \in BOOLEAN : running' = [running EXCEPT ![i] = b]),
             losses' = losses \/ Loses,
             Linked(i)'
      PROVE  LeaseInv'
  <2>1. /\ DOMAIN pc' = Instance \X {"elector", "main"}
        /\ pc'[Elector(i)] = label
        /\ \A j \in Instance : pc'[Main(j)] = pc[Main(j)]
        /\ \A j \in Instance \ {i} : pc'[Elector(j)] = pc[Elector(j)]
    BY <1>1, <1>3, ElectorMoves, Zenon
  <2>2. conn' \in [Instance -> {"nil", "open", "closed"}] /\ \A j \in Instance \ {i} : conn'[j] = conn[j]
    BY <1>1, <1>3 DEF TypeOK, SetConn
  <2>3. attached' \in [Instance -> BOOLEAN] /\ \A j \in Instance \ {i} : attached'[j] = attached[j]
    BY <1>1, <1>3, Zenon DEF TypeOK, EndSession
  <2>4. lock' \in Instance \cup {"free", "detached"}
        /\ \A j \in Instance \ {i} : lock' = j <=> lock = j
    BY <1>1, <1>3 DEF TypeOK, EndSession
  <2>5. isLeader' \in [Instance -> BOOLEAN] /\ \A j \in Instance \ {i} : isLeader'[j] = isLeader[j]
    BY <1>1, <1>3 DEF TypeOK
  <2>6. running' \in [Instance -> BOOLEAN] /\ \A j \in Instance \ {i} : running'[j] = running[j]
    BY <1>1, <1>3 DEF TypeOK
  <2>7. losses' \in 0 .. MaxLosses
    BY <1>1, <1>3 DEF TypeOK, Loses
  <2>8. TypeOK'
    BY <1>1, <2>1, <2>2, <2>3, <2>4, <2>5, <2>6, <2>7, Zenon DEF TypeOK
  <2>9. ASSUME NEW j \in Instance, j # i PROVE Linked(j)'
    BY <1>1, <2>1, <2>2, <2>3, <2>4, <2>5, <2>6, <2>9, SMTT(30) DEF Linked
  <2> QED BY <1>3, <2>8, <2>9 DEF LeaseInv
<1>4. CASE CheckContext(i)
  <2> DEFINE label == IF Cancelled(i) THEN "ended" ELSE "try"
  <2>1. label \in ElectorPc /\ Goto(Elector(i), label)
    BY <1>4 DEF CheckContext, ElectorPc
  <2>2. pc'[Elector(i)] = label /\ pc'[Main(i)] = pc[Main(i)]
    BY <1>1, <2>1, ElectorMoves, Zenon
  <2>3. Linked(i)'
    BY <1>1, <1>4, <2>2, Zenon DEF CheckContext, Linked, TypeOK, Section, Disconnected, Cancelled
  <2> HIDE DEF label
  <2> QED BY <1>3, <1>4, <2>1, <2>3 DEF CheckContext, Cancelled
<1>5. CASE TryAcquire(i)
  <2> DEFINE label == IF conn[i] = "nil" THEN "connect" ELSE "reuse"
  <2>1. label \in ElectorPc /\ Goto(Elector(i), label)
    BY <1>5 DEF TryAcquire, ElectorPc
  <2>2. pc'[Elector(i)] = label /\ pc'[Main(i)] = pc[Main(i)]
    BY <1>1, <2>1, ElectorMoves, Zenon
  <2>3. Linked(i)'
    BY <1>1, <1>5, <2>2, Zenon DEF TryAcquire, Linked, TypeOK, Section, Disconnected
  <2> HIDE DEF label
  <2> QED BY <1>3, <1>5, <2>1, <2>3 DEF TryAcquire
<1>6. CASE Connect(i)
  <2> DEFINE label == "query"
  <2>1. label \in ElectorPc /\ Goto(Elector(i), label)
    BY <1>6 DEF Connect, ElectorPc
  <2>2. pc'[Elector(i)] = label /\ pc'[Main(i)] = pc[Main(i)]
    BY <1>1, <2>1, ElectorMoves, Zenon
  <2>3. Linked(i)'
    BY <1>1, <1>6, <2>2 DEF Connect, Linked, TypeOK, Section, Disconnected, SetConn
  <2> HIDE DEF label
  <2> QED BY <1>3, <1>6, <2>1, <2>3 DEF Connect, SetConn
<1>7. CASE ConnectFails(i)
  <2> DEFINE label == "loop"
  <2>1. label \in ElectorPc /\ Goto(Elector(i), label)
    BY <1>7 DEF ConnectFails, ElectorPc
  <2>2. pc'[Elector(i)] = label /\ pc'[Main(i)] = pc[Main(i)]
    BY <1>1, <2>1, ElectorMoves, Zenon
  <2>3. Linked(i)'
    BY <1>1, <1>7, <2>2, Zenon DEF ConnectFails, Linked, TypeOK, Section, Disconnected
  <2> HIDE DEF label
  <2> QED BY <1>3, <1>7, <2>1, <2>3 DEF ConnectFails
<1>8. CASE LockReply(i)
  <2> DEFINE label == IF lock = "free" THEN "acquired" ELSE "discard"
  <2>1. label \in ElectorPc /\ Goto(Elector(i), label)
    BY <1>8 DEF LockReply, ElectorPc
  <2>2. pc'[Elector(i)] = label /\ pc'[Main(i)] = pc[Main(i)]
    BY <1>1, <2>1, ElectorMoves, Zenon
  <2>3. Linked(i)'
    BY <1>1, <1>8, <2>2, ZenonT(60) DEF LockReply, Linked, TypeOK, Section, Disconnected
  <2> HIDE DEF label
  <2> QED BY <1>3, <1>8, <2>1, <2>3 DEF LockReply
<1>9. CASE QueryFails(i)
  <2> DEFINE label == IF pc[Elector(i)] = "querying" THEN "discard" ELSE "close"
  <2>1. label \in ElectorPc /\ Goto(Elector(i), label)
    BY <1>9 DEF QueryFails, ElectorPc
  <2>2. pc'[Elector(i)] = label /\ pc'[Main(i)] = pc[Main(i)]
    BY <1>1, <2>1, ElectorMoves, Zenon
  <2>3. /\ isLeader' = isLeader /\ running' = running
        /\ \/ conn'[i] # "open" /\ attached'[i] = FALSE /\ lock' # i
           \/ UNCHANGED <<conn, attached, lock>>
    BY <1>1, <1>9, LossAssumption DEF QueryFails, QueryError, SetConn, EndSession, TypeOK
  <2>4. ASSUME pc[Elector(i)] = "querying" PROVE Linked(i)'
    <3>1. pc'[Elector(i)] = "discard"
      BY <2>2, <2>4, Zenon
    <3> QED BY <1>1, <2>2, <2>3, <2>4, <3>1, Zenon DEF Linked, Section, Disconnected
  <2>5. ASSUME pc[Elector(i)] # "querying" PROVE Linked(i)'
    <3>1. pc[Elector(i)] = "verifying" /\ pc'[Elector(i)] = "close"
      BY <1>9, <2>2, <2>5, Zenon DEF QueryFails, QueryError
    <3> QED BY <1>1, <2>2, <2>3, <3>1, Zenon DEF Linked, Section, Disconnected
  <2>6. /\ conn' = conn \/ (\E c \in {"nil", "open", "closed"} : SetConn(i, c))
        /\ attached' = attached \/ EndSession(i)
        /\ lock' = lock \/ EndSession(i)
        /\ losses' = losses \/ Loses
    BY <1>9, Zenon DEF QueryFails, QueryError
  <2> HIDE DEF label
  <2> QED BY <1>3, <2>1, <2>3, <2>4, <2>5, <2>6, Zenon
<1>10. CASE Forget(i)
  <2> DEFINE label == "loop"
  <2>1. label \in ElectorPc /\ Goto(Elector(i), label)
    BY <1>10, Zenon DEF Forget, ElectorPc
  <2>2. pc'[Elector(i)] = label /\ pc'[Main(i)] = pc[Main(i)]
    BY <1>1, <2>1, ElectorMoves, SMTT(30)
  <2>3. Linked(i)'
    BY <1>1, <1>10, <2>2, SMTT(30) DEF Forget, Linked, TypeOK, Section, Disconnected, SetConn
  <2> HIDE DEF label
  <2> QED BY <1>3, <1>10, <2>1, <2>3 DEF Forget, SetConn
<1>12. CASE Acquire(i)
  <2> DEFINE label == "start"
  <2>1. label \in ElectorPc /\ Goto(Elector(i), label)
    BY <1>12, Zenon DEF Acquire, ElectorPc
  <2>2. pc'[Elector(i)] = label /\ pc'[Main(i)] = pc[Main(i)]
    BY <1>1, <2>1, ElectorMoves, Zenon
  <2>3. Linked(i)'
    BY <1>1, <1>12, <2>2, Zenon DEF Acquire, Linked, TypeOK, Section, Disconnected
  <2> HIDE DEF label
  <2> QED BY <1>3, <1>12, <2>1, <2>3, Zenon DEF Acquire
<1>13. CASE StartScheduler(i)
  <2> DEFINE label == "hold"
  <2>1. label \in ElectorPc /\ Goto(Elector(i), label)
    BY <1>13 DEF StartScheduler, ElectorPc
  <2>2. pc'[Elector(i)] = label /\ pc'[Main(i)] = pc[Main(i)]
    BY <1>1, <2>1, ElectorMoves, Zenon
  <2>3. Linked(i)'
    BY <1>1, <1>13, <2>2, Zenon DEF StartScheduler, Linked, TypeOK, Section, Disconnected
  <2> HIDE DEF label
  <2> QED BY <1>3, <1>13, <2>1, <2>3, Zenon DEF StartScheduler
<1>14. CASE VerifyReply(i)
  <2> DEFINE label == IF lock = i THEN "hold" ELSE "close"
  <2>1. label \in ElectorPc /\ Goto(Elector(i), label)
    BY <1>14 DEF VerifyReply, ElectorPc
  <2>2. pc'[Elector(i)] = label /\ pc'[Main(i)] = pc[Main(i)]
    BY <1>1, <2>1, ElectorMoves, Zenon
  <2>3. Linked(i)'
    BY <1>1, <1>14, <2>2, ZenonT(60) DEF VerifyReply, Linked, TypeOK, Section, Disconnected
  <2> HIDE DEF label
  <2> QED BY <1>3, <1>14, <2>1, <2>3 DEF VerifyReply
<1>15. CASE Release(i)
  <2> DEFINE label == "stop"
  <2>1. label \in ElectorPc /\ Goto(Elector(i), label)
    BY <1>15 DEF Release, ElectorPc
  <2>2. pc'[Elector(i)] = label /\ pc'[Main(i)] = pc[Main(i)]
    BY <1>1, <2>1, ElectorMoves, Zenon
  <2>3. Linked(i)'
    BY <1>1, <1>15, <2>2, SMTT(30) DEF Release, Linked, TypeOK, Section, Disconnected
  <2> HIDE DEF label
  <2> QED BY <1>3, <1>15, <2>1, <2>3, Zenon DEF Release
<1>16. CASE StopScheduler(i)
  <2> DEFINE label == "loop"
  <2>1. label \in ElectorPc /\ Goto(Elector(i), label)
    BY <1>16, Zenon DEF StopScheduler, ElectorPc
  <2>2. pc'[Elector(i)] = label /\ pc'[Main(i)] = pc[Main(i)]
    BY <1>1, <2>1, ElectorMoves
  <2>3. Linked(i)'
    BY <1>1, <1>16, <2>2, SMTT(30) DEF StopScheduler, Linked, TypeOK, Section, Disconnected
  <2> HIDE DEF label
  <2> QED BY <1>3, <1>16, <2>1, <2>3, Zenon DEF StopScheduler
<1>17. CASE Reuse(i)
  <2>1. CASE conn[i] # "nil"
    <3> DEFINE label == IF conn[i] = "closed" THEN "connect" ELSE "query"
    <3>1. label \in ElectorPc /\ Goto(Elector(i), label)
      BY <1>17, <2>1 DEF Reuse, ElectorPc
    <3>2. pc'[Elector(i)] = label /\ pc'[Main(i)] = pc[Main(i)]
      BY <1>1, <3>1, ElectorMoves, Zenon
    <3>3. Linked(i)'
      BY <1>1, <1>17, <2>1, <3>2, SMTT(30) DEF Reuse, Linked, TypeOK, Section, Disconnected
    <3> HIDE DEF label
    <3> QED BY <1>3, <1>17, <2>1, <3>1, <3>3 DEF Reuse
  <2> QED BY <1>2, <1>17, <2>1 DEF Reuse
<1>18. CASE QueryRow(i)
  <2>1. CASE conn[i] # "nil"
    <3> DEFINE label == IF pc[Elector(i)] = "query"
                          THEN IF Cancelled(i) THEN "discard" ELSE "querying"
                          ELSE IF Cancelled(i) THEN "close" ELSE "verifying"
    <3>1. label \in ElectorPc /\ Goto(Elector(i), label)
      BY <1>18, <2>1 DEF QueryRow, ElectorPc
    <3>2. pc'[Elector(i)] = label /\ pc'[Main(i)] = pc[Main(i)]
      BY <1>1, <3>1, ElectorMoves, ZenonT(60)
    <3>3. /\ conn'[i] = conn[i] /\ attached'[i] = attached[i] /\ lock' = lock
          /\ isLeader'[i] = isLeader[i] /\ running'[i] = running[i]
      BY <1>18, <2>1, Zenon DEF QueryRow
    <3>4. \/ pc[Elector(i)] = "query" /\ label \in {"discard", "querying"}
             /\ (label = "querying" => ~Cancelled(i))
          \/ pc[Elector(i)] = "verify" /\ label \in {"close", "verifying"}
      BY <1>18, <2>1, SMTT(30) DEF QueryRow
    <3> HIDE DEF label
    <3>5. Linked(i)'
      BY <1>1, <3>2, <3>3, <3>4, ZenonT(60) DEF Cancelled, Linked, Section, Disconnected
    <3> QED BY <1>3, <1>18, <2>1, <3>1, <3>5 DEF QueryRow
  <2> QED BY <1>2, <1>18, <2>1 DEF QueryRow
<1>19. CASE Discard(i)
  <2>1. CASE conn[i] # "nil"
    <3>1. "forget" \in ElectorPc /\ Goto(Elector(i), "forget")
      BY <1>19, <2>1 DEF Discard, ElectorPc
    <3>2. pc'[Elector(i)] = "forget" /\ pc'[Main(i)] = pc[Main(i)]
      BY <1>1, <3>1, ElectorMoves, Zenon
    <3>3. Linked(i)'
      BY <1>1, <1>19, <2>1, <3>2, SMTT(30)
         DEF Discard, SetConn, EndSession, Linked, TypeOK, Section, Disconnected
    <3> QED BY <1>3, <1>19, <2>1, <3>1, <3>3 DEF Discard
  <2> QED BY <1>2, <1>19, <2>1 DEF Discard
<1>20. CASE HoldLock(i)
  <2>1. PICK label \in {"close", "verify"} : Goto(Elector(i), label)
    BY <1>20 DEF HoldLock
  <2>2. label \in ElectorPc
    BY DEF ElectorPc
  <2>3. pc'[Elector(i)] = label /\ pc'[Main(i)] = pc[Main(i)]
    BY <1>1, <2>1, <2>2, ElectorMoves, Zenon
  <2>4. Linked(i)'
    BY <1>1, <1>20, <2>3, Zenon DEF HoldLock, Linked, TypeOK, Section, Disconnected
  <2> QED BY <1>3, <1>20, <2>1, <2>2, <2>4 DEF HoldLock
<1>21. Elector(i)[1] = i /\ After(Elector(i)) = "lost"
  BY Zenon DEF Elector, After
<1>22. CASE ReadConn(Elector(i))
  <2> DEFINE label == IF conn[i] = "nil" THEN "lost" ELSE "inspect"
  <2>1. label \in ElectorPc /\ Goto(Elector(i), label)
    BY <1>21, <1>22 DEF ReadConn, ElectorPc
  <2>2. pc'[Elector(i)] = label /\ pc'[Main(i)] = pc[Main(i)]
    BY <1>1, <2>1, ElectorMoves, Zenon
  <2>3. Linked(i)'
    BY <1>1, <1>22, <2>2, Zenon DEF ReadConn, Linked, TypeOK, Section, Disconnected
  <2> HIDE DEF label
  <2> QED BY <1>3, <1>22, <2>1, <2>3 DEF ReadConn
<1>23. CASE InspectConn(Elector(i))
  <2>1. CASE conn[i] # "nil"
    <3> DEFINE label == IF conn[i] = "closed" THEN "lost" ELSE "shut"
    <3>1. label \in ElectorPc /\ Goto(Elector(i), label)
      BY <1>21, <1>23, <2>1 DEF InspectConn, ElectorPc
    <3>2. pc'[Elector(i)] = label /\ pc'[Main(i)] = pc[Main(i)]
      BY <1>1, <3>1, ElectorMoves, Zenon
    <3>3. /\ pc[Elector(i)] = "inspect" /\ conn'[i] = conn[i] /\ attached'[i] = attached[i]
          /\ lock' = lock /\ isLeader'[i] = isLeader[i] /\ running'[i] = running[i]
      BY <1>21, <1>23, <2>1, Zenon DEF InspectConn
    <3>4. label \in {"lost", "shut"} /\ (label = "lost" => conn[i] # "open")
      OBVIOUS
    <3> HIDE DEF label
    <3>5. Linked(i)'
      BY <1>1, <3>2, <3>3, <3>4, Zenon DEF Linked, Section, Disconnected
    <3> QED BY <1>3, <1>21, <1>23, <2>1, <3>1, <3>5 DEF InspectConn
  <2> QED BY <1>2, <1>21, <1>23, <2>1 DEF InspectConn
<1>24. CASE ShutConn(Elector(i))
  <2>1. CASE conn[i] # "nil"
    <3>1. "clear" \in ElectorPc /\ Goto(Elector(i), "clear")
      BY <1>21, <1>24, <2>1 DEF ShutConn, ElectorPc
    <3>2. pc'[Elector(i)] = "clear" /\ pc'[Main(i)] = pc[Main(i)]
      BY <1>1, <3>1, ElectorMoves, ZenonT(60)
    <3>3. /\ pc[Elector(i)] = "shut" /\ conn'[i] = "closed" /\ attached'[i] = FALSE /\ lock' # i
          /\ isLeader'[i] = isLeader[i] /\ running'[i] = running[i]
      BY <1>1, <1>21, <1>24, <2>1, LossAssumption DEF ShutConn, SetConn, EndSession, TypeOK
    <3>4. Linked(i)'
      BY <1>1, <3>2, <3>3, Zenon DEF Linked, Section, Disconnected
    <3> QED BY <1>3, <1>21, <1>24, <2>1, <3>1, <3>4 DEF ShutConn
  <2> QED BY <1>2, <1>21, <1>24, <2>1, Zenon DEF ShutConn
<1>25. CASE ClearConn(Elector(i))
  <2>1. "lost" \in ElectorPc /\ Goto(Elector(i), "lost") /\ SetConn(i, "nil")
    BY <1>21, <1>25 DEF ClearConn, ElectorPc
  <2>2. pc'[Elector(i)] = "lost" /\ pc'[Main(i)] = pc[Main(i)]
    BY <1>1, <2>1, ElectorMoves, Zenon
  <2>3. /\ pc[Elector(i)] = "clear" /\ conn'[i] = "nil" /\ attached'[i] = attached[i]
        /\ lock' = lock /\ isLeader'[i] = isLeader[i] /\ running'[i] = running[i]
    BY <1>1, <1>25, <2>1, Zenon DEF ClearConn, SetConn, TypeOK
  <2>4. Linked(i)'
    BY <1>1, <2>2, <2>3, Zenon DEF Linked, Section, Disconnected
  <2> QED BY <1>3, <1>25, <2>1, <2>4, Zenon DEF ClearConn
<1> QED BY <1>4, <1>5, <1>6, <1>7, <1>8, <1>9, <1>10, <1>12, <1>13, <1>14, <1>15,
           <1>16, <1>17, <1>18, <1>19, <1>20, <1>22, <1>23, <1>24, <1>25
        DEF ElectorStep, CloseStep

\* A step of one main goroutine, from the signal to the end of the process.
LEMMA MainKeeps ==
  ASSUME LeaseInv, NEW i \in Instance, Cancel(i) \/ ShutdownStep(i)
  PROVE  LeaseInv'
<1> USE LossAssumption
<1>1. TypeOK /\ Linked(i) /\ \A j \in Instance : Linked(j)
  BY DEF LeaseInv
<1>2. CASE Panics(i)
  BY <1>2, DeathKeeps, Zenon DEF Panics, Dies, LeaseInv, TypeOK
<1>3. ASSUME NEW label \in MainPc, Goto(Main(i), label),
             conn' = conn \/ (\E c \in {"nil", "open", "closed"} : SetConn(i, c)),
             attached' = attached \/ EndSession(i),
             lock' = lock \/ EndSession(i),
             isLeader' = isLeader \/ (\E b \in BOOLEAN : isLeader' = [isLeader EXCEPT ![i] = b]),
             running' = running, losses' = losses,
             Linked(i)'
      PROVE  LeaseInv'
  <2>1. /\ DOMAIN pc' = Instance \X {"elector", "main"}
        /\ pc'[Main(i)] = label
        /\ \A j \in Instance : pc'[Elector(j)] = pc[Elector(j)]
        /\ \A j \in Instance \ {i} : pc'[Main(j)] = pc[Main(j)]
    BY <1>1, <1>3, MainMoves, Zenon
  <2>2. conn' \in [Instance -> {"nil", "open", "closed"}] /\ \A j \in Instance \ {i} : conn'[j] = conn[j]
    BY <1>1, <1>3 DEF TypeOK, SetConn
  <2>3. attached' \in [Instance -> BOOLEAN] /\ \A j \in Instance \ {i} : attached'[j] = attached[j]
    BY <1>1, <1>3, Zenon DEF TypeOK, EndSession
  <2>4. lock' \in Instance \cup {"free", "detached"}
        /\ \A j \in Instance \ {i} : lock' = j <=> lock = j
    BY <1>1, <1>3 DEF TypeOK, EndSession
  <2>5. isLeader' \in [Instance -> BOOLEAN] /\ \A j \in Instance \ {i} : isLeader'[j] = isLeader[j]
    BY <1>1, <1>3, Zenon DEF TypeOK
  <2>6. TypeOK'
    BY <1>1, <1>3, <2>1, <2>2, <2>3, <2>4, <2>5, ZenonT(60) DEF TypeOK
  <2>7. ASSUME NEW j \in Instance, j # i PROVE Linked(j)'
    <3>1. /\ pc'[Elector(j)] = pc[Elector(j)] /\ pc'[Main(j)] = pc[Main(j)] /\ conn'[j] = conn[j]
          /\ attached'[j] = attached[j] /\ isLeader'[j] = isLeader[j] /\ running'[j] = running[j]
          /\ lock' = j <=> lock = j
      BY <1>3, <2>1, <2>2, <2>3, <2>4, <2>5, <2>7, Zenon
    <3> QED BY <1>1, <3>1, ZenonT(60) DEF Linked
  <2> QED BY <1>3, <2>6, <2>7, Zenon DEF LeaseInv
<1>4. CASE Cancel(i)
  <2>1. "close" \in MainPc /\ Goto(Main(i), "close")
    BY <1>4 DEF Cancel, MainPc
  <2>2. pc'[Main(i)] = "close" /\ pc'[Elector(i)] = pc[Elector(i)]
    BY <1>1, <2>1, MainMoves, SMTT(30)
  <2>3. Linked(i)'
    BY <1>1, <1>4, <2>2, Zenon DEF Cancel, Linked
  <2> QED BY <1>3, <1>4, <2>1, <2>3 DEF Cancel
<1>5. Main(i)[1] = i /\ After(Main(i)) = "standby"
  BY Zenon DEF Main, After
<1>6. CASE ReadConn(Main(i))
  <2> DEFINE label == IF conn[i] = "nil" THEN "standby" ELSE "inspect"
  <2>1. label \in MainPc /\ Goto(Main(i), label)
    BY <1>5, <1>6, Zenon DEF ReadConn, MainPc
  <2>2. pc'[Main(i)] = label /\ pc'[Elector(i)] = pc[Elector(i)]
    BY <1>1, <2>1, MainMoves, Zenon
  <2>3. Linked(i)'
    BY <1>1, <1>6, <2>2, Zenon DEF ReadConn, Linked, TypeOK, Section, Disconnected
  <2> HIDE DEF label
  <2> QED BY <1>3, <1>6, <2>1, <2>3, Zenon DEF ReadConn
<1>7. CASE InspectConn(Main(i))
  <2>1. CASE conn[i] # "nil"
    <3> DEFINE label == IF conn[i] = "closed" THEN "standby" ELSE "shut"
    <3>1. label \in MainPc /\ Goto(Main(i), label)
      BY <1>5, <1>7, <2>1, Zenon DEF InspectConn, MainPc
    <3>2. pc'[Main(i)] = label /\ pc'[Elector(i)] = pc[Elector(i)]
      BY <1>1, <3>1, MainMoves, ZenonT(60)
    <3>3. /\ pc[Main(i)] = "inspect" /\ conn'[i] = conn[i] /\ attached'[i] = attached[i] /\ lock' = lock
          /\ isLeader'[i] = isLeader[i] /\ running'[i] = running[i]
      BY <1>5, <1>7, <2>1, Zenon DEF InspectConn
    <3>4. label \in {"standby", "shut"} /\ (label = "standby" => conn[i] # "open")
          /\ (label = "shut" => conn[i] = "open")
      BY <1>1, <2>1 DEF TypeOK
    <3> HIDE DEF label
    <3>5. Linked(i)'
      BY <1>1, <3>2, <3>3, <3>4, ZenonT(60) DEF Linked, Disconnected
    <3> QED BY <1>3, <1>5, <1>7, <2>1, <3>1, <3>5, Zenon DEF InspectConn
  <2> QED BY <1>2, <1>5, <1>7, <2>1, Zenon DEF InspectConn
<1>8. CASE ShutConn(Main(i))
  <2>1. CASE conn[i] # "nil"
    <3>1. "clear" \in MainPc /\ Goto(Main(i), "clear")
      BY <1>5, <1>8, <2>1, Zenon DEF ShutConn, MainPc
    <3>2. pc'[Main(i)] = "clear" /\ pc'[Elector(i)] = pc[Elector(i)]
      BY <1>1, <3>1, MainMoves, ZenonT(60)
    <3>3. /\ pc[Main(i)] = "shut" /\ conn'[i] = "closed" /\ attached'[i] = FALSE /\ lock' # i
          /\ isLeader'[i] = isLeader[i] /\ running'[i] = running[i]
      BY <1>1, <1>5, <1>8, <2>1, LossAssumption, Zenon DEF ShutConn, SetConn, EndSession, TypeOK
    <3>4. Linked(i)'
      BY <1>1, <3>2, <3>3, Zenon DEF Linked
    <3> QED BY <1>3, <1>5, <1>8, <2>1, <3>1, <3>4, Zenon DEF ShutConn
  <2> QED BY <1>2, <1>5, <1>8, <2>1, Zenon DEF ShutConn
<1>9. CASE ClearConn(Main(i))
  <2>1. "standby" \in MainPc /\ Goto(Main(i), "standby") /\ SetConn(i, "nil")
    BY <1>5, <1>9 DEF ClearConn, MainPc
  <2>2. pc'[Main(i)] = "standby" /\ pc'[Elector(i)] = pc[Elector(i)]
    BY <1>1, <2>1, MainMoves, ZenonT(60)
  <2>3. /\ pc[Main(i)] = "clear" /\ conn'[i] = "nil" /\ attached'[i] = attached[i]
        /\ lock' = lock /\ isLeader'[i] = isLeader[i] /\ running'[i] = running[i]
    BY <1>1, <1>9, <2>1, Zenon DEF ClearConn, SetConn, TypeOK
  <2>4. Linked(i)'
    BY <1>1, <2>2, <2>3, Zenon DEF Linked
  <2> QED BY <1>3, <1>9, <2>1, <2>4, Zenon DEF ClearConn
<1>10. CASE Standby(i)
  <2>1. "drain" \in MainPc /\ Goto(Main(i), "drain")
    BY <1>10, Zenon DEF Standby, MainPc
  <2>2. pc'[Main(i)] = "drain" /\ pc'[Elector(i)] = pc[Elector(i)]
    BY <1>1, <2>1, MainMoves, Zenon
  <2>3. /\ pc[Main(i)] = "standby" /\ isLeader'[i] = FALSE
        /\ conn'[i] = conn[i] /\ attached'[i] = attached[i] /\ lock' = lock /\ running'[i] = running[i]
    BY <1>1, <1>10, ZenonT(60) DEF Standby, TypeOK
  <2>4. Linked(i)'
    BY <1>1, <2>2, <2>3, ZenonT(60) DEF Linked
  <2> QED BY <1>3, <1>10, <2>1, <2>4, Zenon DEF Standby
<1>11. CASE Exit(i)
  BY <1>11, DeathKeeps, Zenon DEF Exit, Dies, LeaseInv, TypeOK
<1> QED BY <1>4, <1>6, <1>7, <1>8, <1>9, <1>10, <1>11 DEF ShutdownStep, CloseStep

\* Broken connections, crashes and the server's own cleaning up.
LEMMA EnvironmentKeeps ==
  ASSUME LeaseInv,
         ServerReleases \/ \E i \in Instance : ConnectionBreaks(i) \/ Crash(i)
  PROVE  LeaseInv'
<1> USE LossAssumption
<1>1. TypeOK /\ \A j \in Instance : Linked(j)
  BY ZenonT(60) DEF LeaseInv
<1>2. CASE ServerReleases
  BY <1>1, <1>2, SMTT(30) DEF ServerReleases, LeaseInv, Linked, TypeOK
<1>3. ASSUME NEW i \in Instance, ConnectionBreaks(i)
      PROVE  LeaseInv'
  <2>1. TypeOK'
    BY <1>1, <1>3, SMTT(30) DEF ConnectionBreaks, EndSession, Loses, TypeOK
  <2>2. ASSUME NEW j \in Instance PROVE Linked(j)'
    BY <1>1, <1>3, ZenonT(60) DEF ConnectionBreaks, EndSession, TypeOK, Linked
  <2> QED BY <2>1, <2>2, Zenon DEF LeaseInv
<1>4. ASSUME NEW i \in Instance, Crash(i)
      PROVE  LeaseInv'
  <2>1. losses' \in 0 .. MaxLosses
    BY <1>1, <1>4 DEF Crash, Loses, TypeOK
  <2> QED BY <1>4, <2>1, DeathKeeps, Zenon DEF Crash
<1> QED BY <1>2, <1>3, <1>4

----------------------------------------------------------------------------
\* The invariant holds in every behaviour.
LEMMA LeaseInvariant == Spec => []LeaseInv
<1>1. Init => LeaseInv
  BY LossAssumption DEF Init, LeaseInv, Linked, TypeOK, ElectorPc, MainPc, Elector, Main,
                        Section, Disconnected
<1>2. LeaseInv /\ [Next]_vars => LeaseInv'
  <2> SUFFICES ASSUME LeaseInv, [Next]_vars PROVE LeaseInv'
    BY Zenon
  <2>1. CASE UNCHANGED vars
    BY <2>1, Zenon DEF vars, LeaseInv, Linked, TypeOK
  <2>2. CASE Next
    BY <2>2, ElectorKeeps, MainKeeps, EnvironmentKeeps DEF Next
  <2> QED BY <2>1, <2>2
<1> QED BY <1>1, <1>2, PTL DEF Spec

\* The elector and main keep to their own code, and the shared fields to their
\* values, in every instance of the election.
THEOREM ElectionTypeCorrect == Spec => []TypeOK
BY LeaseInvariant, PTL DEF LeaseInv

\* A scheduler runs, and an instance calls itself leader, under the advisory lock,
\* or the instance's session is over:
\* holdLock is all that keeps two schedulers apart, and this is what it gives.
THEOREM LeaseOrLostHolds == Spec => []LeaseOrLost
<1>1. LeaseInv => LeaseOrLost
  BY Zenon DEF LeaseInv, Linked, LeaseOrLost
<1> QED BY <1>1, LeaseInvariant, PTL

\* Once elector.Stop has dealt with the connection, no session of the instance
\* owns the lock, whatever its elector was doing at the time.
THEOREM ReleasedByStopHolds == Spec => []ReleasedByStop
<1>1. LeaseInv => ReleasedByStop
  BY Zenon DEF LeaseInv, Linked, ReleasedByStop, Section
<1> QED BY <1>1, LeaseInvariant, PTL

----------------------------------------------------------------------------
(* The election implements the lease.                                      *)

InTenure(i) == pc[Elector(i)] \in Section
Acts(i) == running[i] \/ isLeader[i]

\* A step in which one instance moves shows in the lease as a step of that
\* instance, or not at all.
LEMMA OneInstanceMoves ==
  ASSUME NEW i \in Instance,
         \A j \in Instance \ {i} : /\ pc'[Elector(j)] = pc[Elector(j)]
                                  /\ running'[j] = running[j] /\ isLeader'[j] = isLeader[j],
         \/ lock' = lock /\ (InTenure(i)' <=> InTenure(i)) /\ (Acts(i)' => InTenure(i))
         \/ /\ lock' = (IF lock = i THEN "detached" ELSE lock)
            /\ (InTenure(i)' <=> InTenure(i)) /\ (Acts(i)' <=> Acts(i))
         \/ lock = "free" /\ lock' = i /\ ~InTenure(i) /\ InTenure(i)' /\ (Acts(i)' <=> Acts(i))
         \/ lock' = lock /\ lock # i /\ InTenure(i) /\ ~InTenure(i)' /\ ~Acts(i)'
         \/ lock' = (IF lock = i THEN "detached" ELSE lock) /\ ~InTenure(i)' /\ ~Acts(i)'
  PROVE  [Lease!Next]_(Lease!vars)
<1> USE LossAssumption
<1>1. Tenure' = IF InTenure(i)' THEN Tenure \cup {i} ELSE Tenure \ {i}
  BY Zenon DEF Tenure, InTenure
<1>2. InTenure(i) <=> i \in Tenure
  BY Zenon DEF Tenure, InTenure
<1>3. Acting' = IF Acts(i)' THEN Acting \cup {i} ELSE Acting \ {i}
  BY Zenon DEF Acting, Acts
<1>4. Acts(i) <=> i \in Acting
  BY Zenon DEF Acting, Acts
<1>5. CASE lock' = lock /\ (InTenure(i)' <=> InTenure(i)) /\ (Acts(i)' => InTenure(i))
  <2>1. Tenure' = Tenure
    BY <1>1, <1>2, <1>5, Zenon
  <2>2. CASE Acts(i)'
    <3>1. Lease!Act(i)
      BY <1>2, <1>3, <1>5, <2>1, <2>2, Zenon DEF Lease!Act
    <3> QED BY <3>1, Zenon DEF Lease!Next
  <2>3. CASE ~Acts(i)'
    <3>1. Lease!Pause(i)
      BY <1>3, <1>5, <2>1, <2>3, Zenon DEF Lease!Pause
    <3> QED BY <3>1, Zenon DEF Lease!Next
  <2> QED BY <2>2, <2>3, Zenon
<1>6. CASE /\ lock' = (IF lock = i THEN "detached" ELSE lock)
          /\ (InTenure(i)' <=> InTenure(i)) /\ (Acts(i)' <=> Acts(i))
  <2>1. Tenure' = Tenure /\ Acting' = Acting
    BY <1>1, <1>2, <1>3, <1>4, <1>6, Zenon
  <2>2. CASE lock = i
    <3>1. Lease!Lapse(i)
      BY <1>6, <2>1, <2>2, Zenon DEF Lease!Lapse
    <3> QED BY <3>1, Zenon DEF Lease!Next
  <2>3. CASE lock # i
    BY <1>6, <2>1, <2>3, Zenon DEF Lease!vars
  <2> QED BY <2>2, <2>3, Zenon
<1>7. CASE lock = "free" /\ lock' = i /\ ~InTenure(i) /\ InTenure(i)' /\ (Acts(i)' <=> Acts(i))
  <2>1. Acting' = Acting
    BY <1>3, <1>4, <1>7, Zenon
  <2>2. Lease!Grant(i)
    BY <1>1, <1>2, <1>7, <2>1, Zenon DEF Lease!Grant
  <2> QED BY <2>2, Zenon DEF Lease!Next
<1>8. CASE lock' = lock /\ lock # i /\ InTenure(i) /\ ~InTenure(i)' /\ ~Acts(i)'
  <2>1. Lease!StepDown(i)
    BY <1>1, <1>2, <1>3, <1>8, Zenon DEF Lease!StepDown
  <2> QED BY <2>1, Zenon DEF Lease!Next
<1>9. CASE lock' = (IF lock = i THEN "detached" ELSE lock) /\ ~InTenure(i)' /\ ~Acts(i)'
  <2>1. Lease!Vanish(i)
    BY <1>1, <1>3, <1>9, Zenon DEF Lease!Vanish
  <2> QED BY <2>1, Zenon DEF Lease!Next
<1> QED BY <1>5, <1>6, <1>7, <1>8, <1>9, Zenon

\* A step of the elector is a grant, a lapse, a change of who acts, the end of a
\* tenure without the lease, or the end of the process.
LEMMA ElectorRefines ==
  ASSUME LeaseInv, LeaseInv', NEW i \in Instance, ElectorStep(i)
  PROVE  [Lease!Next]_(Lease!vars)
<1> USE LossAssumption
<1>1. TypeOK /\ Linked(i) /\ Linked(i)'
  BY DEF LeaseInv
<1>2. CASE Panics(i)
  <2>1. /\ pc'[Elector(i)] = "panicked"
        /\ \A j \in Instance \ {i} : pc'[Elector(j)] = pc[Elector(j)]
    BY <1>1, <1>2 DEF Panics, Dies, TypeOK, Elector, Main
  <2>2. /\ ~running'[i] /\ ~isLeader'[i]
        /\ \A j \in Instance \ {i} : running'[j] = running[j] /\ isLeader'[j] = isLeader[j]
    BY <1>1, <1>2, Zenon DEF Panics, Dies, TypeOK
  <2> QED BY <1>2, <2>1, <2>2, OneInstanceMoves, Zenon DEF InTenure, Acts, Panics, Dies, EndSession, Section
<1>3. ASSUME NEW label \in ElectorPc, Goto(Elector(i), label)
      PROVE  /\ pc'[Elector(i)] = label
             /\ \A j \in Instance \ {i} : pc'[Elector(j)] = pc[Elector(j)]
  BY <1>1, <1>3, ElectorMoves, Zenon
<1>4. ASSUME NEW label \in ElectorPc, Goto(Elector(i), label),
             isLeader' = isLeader, running' = running, EndSession(i) \/ lock' = lock,
             label \in Section <=> pc[Elector(i)] \in Section
      PROVE  [Lease!Next]_(Lease!vars)
  <2>1. running[i] \/ isLeader[i] => pc[Elector(i)] \in Section
    BY <1>1, Zenon DEF Linked
  <2> QED BY <1>3, <1>4, <2>1, OneInstanceMoves, ZenonT(60) DEF InTenure, Acts, EndSession
<1>5. CASE CheckContext(i) \/ TryAcquire(i) \/ Connect(i) \/ ConnectFails(i) \/ Forget(i)
  BY <1>4, <1>5, Zenon DEF CheckContext, TryAcquire, Connect, ConnectFails, Forget, Section, ElectorPc
<1>6. CASE Reuse(i)
  BY <1>2, <1>4, <1>6, Zenon DEF Reuse, Section, ElectorPc
<1>7. CASE QueryRow(i)
  BY <1>2, <1>4, <1>7, Zenon DEF QueryRow, Section, ElectorPc
<1>8. CASE LockReply(i)
  <2>1. CASE lock = "free"
    <3>1. lock' = i /\ Goto(Elector(i), "acquired") /\ isLeader' = isLeader /\ running' = running
          /\ pc[Elector(i)] = "querying"
      BY <1>8, <2>1 DEF LockReply
    <3>2. "acquired" \in ElectorPc /\ "acquired" \in Section /\ "querying" \notin Section
      BY DEF ElectorPc, Section
    <3> QED BY <1>3, <2>1, <3>1, <3>2, OneInstanceMoves DEF InTenure, Acts
  <2>2. CASE lock # "free"
    BY <1>4, <1>8, <2>2, Zenon DEF LockReply, Section, ElectorPc
  <2> QED BY <2>1, <2>2, Zenon
<1>9. CASE QueryFails(i)
  BY <1>4, <1>9, Zenon DEF QueryFails, QueryError, Section, ElectorPc
<1>10. CASE Discard(i)
  BY <1>2, <1>4, <1>10, Zenon DEF Discard, Section, ElectorPc
<1>11. CASE Acquire(i) \/ StartScheduler(i) \/ Release(i)
  <2>1. PICK label \in Section : Goto(Elector(i), label) /\ label \in ElectorPc
    BY <1>11, Zenon DEF Acquire, StartScheduler, Release, Section, ElectorPc
  <2>2. pc[Elector(i)] \in Section /\ lock' = lock
    BY <1>11, Zenon DEF Acquire, StartScheduler, Release, Section
  <2>3. \A j \in Instance \ {i} : running'[j] = running[j] /\ isLeader'[j] = isLeader[j]
    BY <1>1, <1>11, Zenon DEF Acquire, StartScheduler, Release, TypeOK
  <2> QED BY <1>3, <2>1, <2>2, <2>3, OneInstanceMoves, Zenon DEF InTenure, Acts
<1>12. CASE HoldLock(i) \/ VerifyReply(i)
  BY <1>4, <1>12, Zenon DEF HoldLock, VerifyReply, Section, ElectorPc
<1>13. CASE CloseStep(Elector(i))
  <2>1. Elector(i)[1] = i /\ After(Elector(i)) = "lost"
    BY Zenon DEF Elector, After
  <2>2. CASE ReadConn(Elector(i)) \/ ClearConn(Elector(i))
    BY <1>4, <2>1, <2>2, Zenon DEF ReadConn, ClearConn, Section, ElectorPc
  <2>3. CASE InspectConn(Elector(i)) \/ ShutConn(Elector(i))
    BY <1>2, <1>4, <2>1, <2>3, Zenon DEF InspectConn, ShutConn, Section, ElectorPc
  <2> QED BY <1>13, <2>2, <2>3 DEF CloseStep
<1>14. CASE StopScheduler(i)
  <2>1. pc[Elector(i)] = "stop" /\ Goto(Elector(i), "loop") /\ lock' = lock
    BY <1>14 DEF StopScheduler
  <2>2. "loop" \in ElectorPc /\ "loop" \notin Section /\ "stop" \in Section /\ "stop" \in Disconnected
    BY Zenon DEF ElectorPc, Section, Disconnected
  <2>3. lock # i
    BY <1>1, <2>1, <2>2, Zenon DEF Linked
  <2>4. pc'[Elector(i)] = "loop"
    BY <1>3, <2>1, <2>2, Zenon
  <2>5. ~running'[i] /\ ~isLeader'[i]
    BY <1>1, <2>2, <2>4, Zenon DEF Linked
  <2>6. \A j \in Instance \ {i} : running'[j] = running[j] /\ isLeader'[j] = isLeader[j]
    BY <1>1, <1>14 DEF StopScheduler, TypeOK
  <2> QED BY <1>3, <2>1, <2>2, <2>3, <2>4, <2>5, <2>6, OneInstanceMoves, Zenon DEF InTenure, Acts
<1> QED BY <1>5, <1>6, <1>7, <1>8, <1>9, <1>10, <1>11, <1>12, <1>13, <1>14 DEF ElectorStep

\* So is a step of main or a failure of the instance.
LEMMA OthersRefine ==
  ASSUME LeaseInv, LeaseInv', NEW i \in Instance,
         Cancel(i) \/ ShutdownStep(i) \/ ConnectionBreaks(i) \/ Crash(i)
  PROVE  [Lease!Next]_(Lease!vars)
<1> USE LossAssumption
<1>1. TypeOK /\ Linked(i) /\ Linked(i)'
  BY DEF LeaseInv
<1>2. ASSUME NEW how \in {"exited", "panicked"},
             pc' = [pc EXCEPT ![Elector(i)] = how, ![Main(i)] = how], EndSession(i),
             isLeader' = [isLeader EXCEPT ![i] = FALSE],
             running' = [running EXCEPT ![i] = FALSE]
      PROVE  [Lease!Next]_(Lease!vars)
  <2>1. /\ pc'[Elector(i)] = how
        /\ \A j \in Instance \ {i} : pc'[Elector(j)] = pc[Elector(j)]
    BY <1>1, <1>2 DEF TypeOK, Elector, Main
  <2>2. /\ ~running'[i] /\ ~isLeader'[i]
        /\ \A j \in Instance \ {i} : running'[j] = running[j] /\ isLeader'[j] = isLeader[j]
    BY <1>1, <1>2, Zenon DEF TypeOK
  <2> QED BY <1>2, <2>1, <2>2, OneInstanceMoves, ZenonT(60) DEF InTenure, Acts, EndSession, Section
<1>3. ASSUME \A j \in Instance : pc'[Elector(j)] = pc[Elector(j)],
             isLeader' = isLeader, running' = running, EndSession(i) \/ lock' = lock
      PROVE  [Lease!Next]_(Lease!vars)
  <2>1. running[i] \/ isLeader[i] => pc[Elector(i)] \in Section
    BY <1>1, Zenon DEF Linked
  <2> QED BY <1>3, <2>1, OneInstanceMoves, Zenon DEF InTenure, Acts, EndSession
<1>4. ASSUME NEW label \in MainPc, Goto(Main(i), label)
      PROVE  \A j \in Instance : pc'[Elector(j)] = pc[Elector(j)]
  BY <1>1, <1>4, MainMoves, Zenon
<1>5. CASE Cancel(i)
  BY <1>3, <1>4, <1>5, Zenon DEF Cancel, MainPc
<1>6. CASE CloseStep(Main(i))
  <2>1. Main(i)[1] = i /\ After(Main(i)) = "standby"
    BY DEF Main, After
  <2>2. CASE ReadConn(Main(i)) \/ ClearConn(Main(i))
    BY <1>3, <1>4, <2>1, <2>2, Zenon DEF ReadConn, ClearConn, MainPc
  <2>3. CASE InspectConn(Main(i)) \/ ShutConn(Main(i))
    BY <1>2, <1>3, <1>4, <2>1, <2>3, Zenon DEF InspectConn, ShutConn, Panics, Dies, MainPc
  <2> QED BY <1>6, <2>2, <2>3 DEF CloseStep
<1>7. CASE Standby(i)
  <2>1. (\A j \in Instance : pc'[Elector(j)] = pc[Elector(j)]) /\ lock' = lock
    BY <1>4, <1>7, Zenon DEF Standby, MainPc
  <2>2. \A j \in Instance \ {i} : running'[j] = running[j] /\ isLeader'[j] = isLeader[j]
    BY <1>1, <1>7, Zenon DEF Standby, TypeOK
  <2>3. running'[i] \/ isLeader'[i] => pc[Elector(i)] \in Section
    BY <1>1, <2>1, Zenon DEF Linked
  <2> QED BY <2>1, <2>2, <2>3, OneInstanceMoves, Zenon DEF InTenure, Acts
<1>8. CASE Exit(i) \/ Crash(i)
  BY <1>2, <1>8 DEF Exit, Dies, Crash
<1>9. CASE ConnectionBreaks(i)
  BY <1>3, <1>9 DEF ConnectionBreaks
<1> QED BY <1>5, <1>6, <1>7, <1>8, <1>9 DEF ShutdownStep

\* The two goroutines of every instance, the connection field they share and the
\* sessions of the server implement the lease: a tenure begins with the lock free,
\* only an instance in tenure starts the scheduler or says it leads, and a tenure
\* ends, short of the process, with the lock given up.
THEOREM LeaseImplemented == Spec => LeaseKept
<1>1. Init => Lease!Init
  BY Zenon DEF Init, Lease!Init, Tenure, Acting, Section, Elector
<1>2. LeaseInv /\ LeaseInv' /\ [Next]_vars => [Lease!Next]_(Lease!vars)
  <2> SUFFICES ASSUME LeaseInv, LeaseInv', [Next]_vars PROVE [Lease!Next]_(Lease!vars)
    BY Zenon
  <2>1. CASE UNCHANGED vars
    BY <2>1 DEF vars, Lease!vars, Tenure, Acting
  <2>2. CASE ServerReleases
    <3>1. Lease!Free
      BY <2>2 DEF ServerReleases, Lease!Free, Tenure, Acting
    <3> QED BY <3>1 DEF Lease!Next
  <2>3. CASE Next
    BY <2>2, <2>3, ElectorRefines, OthersRefine DEF Next
  <2> QED BY <2>1, <2>3
<1> QED BY <1>1, <1>2, LeaseInvariant, PTL DEF Spec, LeaseKept, Lease!Spec

----------------------------------------------------------------------------
(* The processes around the election.                                      *)
LoopPlace == {"none", "new", "select", "work", "statement"}
WorkerPlace == {"none", "loop", "pop", "job", "handler"}
RequestPlace == {"none", "active", "statement"}
ServerPlace == {"none", "starting", "listening", "failed", "closed"}
StagePlace == {"config", "store", "migrate", "redis", "serving", "http", "pool", "close redis",
               "close store", "return", "gone"}

\* The shapes the argument needs.
Shape ==
  /\ stage \in [Instance -> StagePlace]
  /\ loop \in [Instance -> [Loop -> LoopPlace]]
  /\ worker \in [Instance -> [Worker -> WorkerPlace]]
  /\ request \in [Instance -> [Request -> RequestPlace]]
  /\ server \in [Instance -> ServerPlace]
  /\ timedOut \in [Instance -> BOOLEAN]

Quiet(i) == AllNone(request[i]) \/ timedOut[i]

\* All connections of the pool have been given back.
Released(i) == NoneAcquired(request[i]) /\ NoneAcquired(loop[i])

\* What main has waited for, per place it has reached.
Awaited(i) ==
  /\ stage[i] \in Ending => server[i] = "closed"
  /\ stage[i] \in {"pool", "close redis", "close store", "return"} => Quiet(i)
  /\ stage[i] \in {"close redis", "close store", "return"} => AllNone(worker[i])
  /\ stage[i] = "return" => Released(i)

Flagged(i) == running[i] \/ AllNone(loop[i])

PartInv == Shape /\ \A i \in Instance : Awaited(i) /\ Flagged(i)

----------------------------------------------------------------------------
(* Frames: a step of one process leaves the others alone.                  *)

\* The other processes keep what they had.
SameElsewhere(i) ==
  \A j \in Instance \ {i} :
    /\ stage'[j] = stage[j] /\ loop'[j] = loop[j] /\ worker'[j] = worker[j]
    /\ request'[j] = request[j] /\ server'[j] = server[j] /\ timedOut'[j] = timedOut[j]
    /\ running'[j] = running[j]

\* A step of one process breaks nothing between it and its clients but its own part.
LEMMA OneProcess ==
  ASSUME PartInv, Shape', NEW i \in Instance, SameElsewhere(i), Awaited(i)', Flagged(i)'
  PROVE  PartInv'
<1>1. ASSUME NEW j \in Instance, j # i PROVE Awaited(j)' /\ Flagged(j)'
  BY <1>1, Zenon DEF PartInv, SameElsewhere, Awaited, Flagged, Quiet, Released
<1> QED BY <1>1 DEF PartInv

\* The end of a process.
LEMMA GoneKeeps ==
  ASSUME PartInv, NEW i \in Instance, Gone(i),
         \A j \in Instance \ {i} : running'[j] = running[j]
  PROVE  PartInv'
<1>1. Shape'
  <2>1. /\ [l \in Loop |-> "none"] \in [Loop -> LoopPlace]
        /\ [w \in Worker |-> "none"] \in [Worker -> WorkerPlace]
        /\ [r \in Request |-> "none"] \in [Request -> RequestPlace]
    BY Zenon DEF LoopPlace, WorkerPlace, RequestPlace
  <2>2. loop' \in [Instance -> [Loop -> LoopPlace]]
    BY <2>1, Zenon DEF Gone, PartInv, Shape
  <2>3. worker' \in [Instance -> [Worker -> WorkerPlace]]
    BY <2>1, Zenon DEF Gone, PartInv, Shape
  <2>4. request' \in [Instance -> [Request -> RequestPlace]]
    BY <2>1, Zenon DEF Gone, PartInv, Shape
  <2>5. stage' \in [Instance -> StagePlace] /\ server' \in [Instance -> ServerPlace] /\ timedOut' = timedOut
    BY Zenon DEF Gone, PartInv, Shape, StagePlace, ServerPlace
  <2> QED BY <2>2, <2>3, <2>4, <2>5, Zenon DEF PartInv, Shape
<1>2. /\ stage'[i] = "gone" /\ loop'[i] = [l \in Loop |-> "none"] /\ SameElsewhere(i)
  BY Zenon DEF Gone, PartInv, Shape, SameElsewhere
<1>3. AllNone(loop[i])'
  BY <1>2, Zenon DEF AllNone
<1>4. Awaited(i)' /\ Flagged(i)'
  BY <1>2, <1>3, Zenon DEF Awaited, Flagged, Ending
<1> QED BY <1>1, <1>2, <1>4, OneProcess, Zenon

\* What a step of the election does to the flag `running'.
LEMMA ElectorFlag ==
  ASSUME TypeOK, NEW i \in Instance, ElectorStep(i)
  PROVE  /\ \A j \in Instance \ {i} : running'[j] = running[j]
         /\ \/ pc[Elector(i)] = "start" /\ running'[i]
            \/ pc[Elector(i)] = "stop" /\ ~running'[i]
            \/ pc[Elector(i)] # "start" /\ running' = running
            \/ pc'[Elector(i)] = "panicked"
<1>1. CASE Panics(i)
  BY <1>1, Zenon DEF Panics, Dies, TypeOK, Elector, Main
<1>2. CASE StartScheduler(i) \/ StopScheduler(i)
  BY <1>2, Zenon DEF StartScheduler, StopScheduler, TypeOK
<1>3. CASE \/ CheckContext(i) \/ TryAcquire(i) \/ Connect(i) \/ ConnectFails(i) \/ LockReply(i)
           \/ QueryFails(i) \/ Forget(i) \/ Acquire(i) \/ HoldLock(i) \/ VerifyReply(i) \/ Release(i)
  BY <1>3, Zenon DEF CheckContext, TryAcquire, Connect, ConnectFails, LockReply, QueryFails, QueryError, Forget,
              Acquire, HoldLock, VerifyReply, Release
<1>4. CASE Reuse(i) \/ QueryRow(i) \/ Discard(i)
  BY <1>1, <1>4, ZenonT(60) DEF Reuse, QueryRow, Discard
<1>5. CASE CloseStep(Elector(i))
  <2>1. Elector(i)[1] = i
    BY DEF Elector
  <2> QED BY <1>1, <1>5, <2>1, Zenon DEF CloseStep, ReadConn, InspectConn, ShutConn, ClearConn
<1> QED BY <1>2, <1>3, <1>4, <1>5, Zenon DEF ElectorStep

----------------------------------------------------------------------------
(* One lemma per part of a process.                                        *)

\* The elector, with the scheduler it starts and waits for.
LEMMA ElectorMoveKeeps ==
  ASSUME PartInv, TypeOK, NEW i \in Instance, ElectorMove(i)
  PROVE  PartInv'
<1>1. ElectorStep(i) /\ LoopWait(i)
  BY DEF ElectorMove
<1>2. CASE pc'[Elector(i)] = "panicked"
  BY <1>1, <1>2, ElectorFlag, GoneKeeps, Zenon DEF ElectorMove
<1>3. CASE pc'[Elector(i)] # "panicked"
  <2>1. LoopStart(i) /\ UNCHANGED <<stage, worker, server, request, timedOut>>
    BY <1>3 DEF ElectorMove
  <2>2. [l \in Loop |-> "new"] \in [Loop -> LoopPlace]
    BY DEF LoopPlace
  <2>3. loop' \in [Instance -> [Loop -> LoopPlace]] /\ \A j \in Instance \ {i} : loop'[j] = loop[j]
    BY <2>1, <2>2, Zenon DEF LoopStart, PartInv, Shape
  <2>4. Shape' /\ SameElsewhere(i) /\ Awaited(i)'
    <3>1. NoneAcquired(loop[i]) => NoneAcquired(loop'[i])
      <4>1. loop' = loop \/ loop'[i] = [l \in Loop |-> "new"]
        BY <2>1, Zenon DEF LoopStart, PartInv, Shape
      <4> QED BY <4>1, Zenon DEF NoneAcquired
    <3>2. Awaited(i)'
      BY <2>1, <3>1, Zenon DEF PartInv, Awaited, Quiet, Released
    <3> QED BY <1>1, <2>1, <2>3, <3>2, ElectorFlag, Zenon DEF PartInv, Shape, SameElsewhere
  <2>5. Flagged(i)'
    <3>1. CASE running'[i]
      BY <3>1 DEF Flagged
    <3>2. CASE ~running'[i]
      <4>1. pc[Elector(i)] # "start" /\ (pc[Elector(i)] = "stop" \/ running' = running)
        BY <1>1, <1>3, <3>2, ElectorFlag, Zenon
      <4>2. loop' = loop
        BY <2>1, <4>1, Zenon DEF LoopStart
      <4>3. AllNone(loop[i])
        BY <1>1, <3>2, <4>1 DEF LoopWait, PartInv, Flagged
      <4> QED BY <4>2, <4>3 DEF Flagged
    <3> QED BY <3>1, <3>2, Zenon
  <2> QED BY <2>4, <2>5, OneProcess
<1> QED BY <1>2, <1>3

\* The loops: only one that lives moves, and no step of it makes it live again.
LEMMA LoopKeeps ==
  ASSUME PartInv, NEW i \in Instance, NEW l \in Loop, LoopStep(i, l) \/ LoopEnds(i, l)
  PROVE  PartInv'
<1>1. PICK place \in LoopPlace : loop' = [loop EXCEPT ![i][l] = place]
  BY Zenon DEF LoopStep, LoopEnds, SetLoop, LoopPlace
<1>2. UNCHANGED <<stage, worker, server, request, timedOut, running>>
  BY Zenon DEF LoopStep, LoopEnds, SetLoop, vars
<1>3. loop[i] \in [Loop -> LoopPlace] /\ loop[i][l] # "none"
  BY Zenon DEF LoopStep, LoopEnds, PartInv, Shape
<1>4. running[i]
  BY <1>3, Zenon DEF PartInv, Flagged, AllNone
<1>5. loop'[i] \in [Loop -> LoopPlace] /\ \A j \in Instance \ {i} : loop'[j] = loop[j]
  BY <1>1, <1>3 DEF PartInv, Shape
<1>6. loop' \in [Instance -> [Loop -> LoopPlace]]
  BY <1>1, <1>3 DEF PartInv, Shape
<1>7. stage[i] = "return" /\ NoneAcquired(loop[i]) => NoneAcquired(loop'[i])
  <2> HAVE stage[i] = "return" /\ NoneAcquired(loop[i])
  <2>1. PICK quiet \in LoopPlace \ {"statement"} : loop' = [loop EXCEPT ![i][l] = quiet]
    BY Zenon DEF LoopStep, LoopEnds, SetLoop, LoopPlace, PoolOpen
  <2>2. \A m \in Loop : loop'[i][m] # "statement"
    BY <1>3, <2>1 DEF NoneAcquired, PartInv, Shape
  <2> QED BY <1>5, <2>2, Zenon DEF NoneAcquired
<1>8. Awaited(i)'
  BY <1>2, <1>7, Zenon DEF PartInv, Awaited, Quiet, Released
<1>9. Shape' /\ SameElsewhere(i) /\ Flagged(i)'
  BY <1>2, <1>4, <1>5, <1>6, Zenon DEF PartInv, Shape, SameElsewhere, Flagged
<1> QED BY <1>8, <1>9, OneProcess, Zenon

\* The workers: none comes to life once main has seen them all end.
LEMMA WorkerKeeps ==
  ASSUME PartInv, NEW i \in Instance, NEW w \in Worker, WorkerStep(i, w)
  PROVE  PartInv'
<1>1. PICK place \in WorkerPlace : worker' = [worker EXCEPT ![i][w] = place]
  BY Zenon DEF WorkerStep, WorkerLoop, Pop, FetchJob, HandlerReturns, SetWorker, WorkerPlace
<1>2. UNCHANGED <<stage, loop, server, request, timedOut, running>>
  BY Zenon DEF WorkerStep, WorkerLoop, Pop, FetchJob, HandlerReturns, SetWorker, vars
<1>3. worker[i] \in [Worker -> WorkerPlace] /\ worker[i][w] # "none"
  BY DEF WorkerStep, WorkerLoop, Pop, FetchJob, HandlerReturns, PartInv, Shape
<1>4. stage[i] \notin {"close redis", "close store", "return"}
  BY <1>3, Zenon DEF PartInv, Awaited, AllNone
<1>5. \A j \in Instance \ {i} : worker'[j] = worker[j]
  BY <1>1 DEF PartInv, Shape
<1>6. worker' \in [Instance -> [Worker -> WorkerPlace]]
  BY <1>1, <1>3 DEF PartInv, Shape
<1>7. Shape' /\ SameElsewhere(i) /\ Awaited(i)' /\ Flagged(i)'
  BY <1>2, <1>4, <1>5, <1>6, Zenon DEF PartInv, Shape, SameElsewhere, Awaited, Quiet, Released, Flagged
<1> QED BY <1>7, OneProcess, Zenon

\* The HTTP server: a closed one takes no request.
LEMMA ServerKeeps ==
  ASSUME PartInv, NEW i \in Instance,
         ListenAndServe(i) \/ \E r \in Request : RequestStep(i, r)
  PROVE  PartInv'
<1>1. CASE ListenAndServe(i)
  <2>1. /\ UNCHANGED <<stage, loop, worker, request, timedOut, running>>
        /\ server[i] = "starting" /\ server' \in [Instance -> ServerPlace]
        /\ \A j \in Instance \ {i} : server'[j] = server[j]
    BY <1>1, ZenonT(60) DEF ListenAndServe, SetServer, vars, PartInv, Shape, ServerPlace
  <2>2. stage[i] \notin Ending
    BY <2>1, Zenon DEF PartInv, Awaited
  <2>3. Shape' /\ SameElsewhere(i) /\ Awaited(i)' /\ Flagged(i)'
    BY <2>1, <2>2, Zenon DEF PartInv, Shape, SameElsewhere, Awaited, Flagged, Quiet, Released, Ending
  <2> QED BY <2>3, OneProcess, Zenon
<1>2. ASSUME NEW r \in Request, RequestStep(i, r)
      PROVE  PartInv'
  <2>1. PICK place \in RequestPlace :
          /\ request' = [request EXCEPT ![i][r] = place]
          /\ place = "statement" => PoolOpen(i)
    BY <1>2, Zenon DEF RequestStep, RequestArrives, RequestQueries, StatementReturns, RequestEnds,
                      SetRequest, RequestPlace
  <2>2. UNCHANGED <<stage, loop, worker, server, timedOut, running>>
    BY <1>2, Zenon DEF RequestStep, RequestArrives, RequestQueries, StatementReturns, RequestEnds,
                      SetRequest, vars
  <2>3. request[i] \in [Request -> RequestPlace]
    BY Zenon DEF PartInv, Shape
  <2>4. request' \in [Instance -> [Request -> RequestPlace]]
        /\ \A j \in Instance \ {i} : request'[j] = request[j]
    BY <2>1, <2>3 DEF PartInv, Shape
  <2>5. stage[i] \in Ending => ~AllNone(request[i])
    <3>1. request[i][r] # "none" \/ server[i] = "listening"
      BY <1>2, Zenon DEF RequestStep, RequestArrives, RequestQueries, StatementReturns, RequestEnds
    <3> QED BY <2>3, <3>1, Zenon DEF PartInv, Awaited, AllNone
  <2>6. Awaited(i)'
    <3>1. stage[i] = "return" => NoneAcquired(request'[i])
      <4> HAVE stage[i] = "return"
      <4>1. place # "statement" /\ NoneAcquired(request[i])
        BY <2>1, Zenon DEF PoolOpen, PartInv, Awaited, Released
      <4>2. \A q \in Request : request'[i][q] # "statement"
        BY <2>1, <2>3, <4>1 DEF NoneAcquired, PartInv, Shape
      <4> QED BY <2>4, <4>2, Zenon DEF NoneAcquired
    <3> QED BY <2>2, <2>5, <3>1, Zenon DEF PartInv, Awaited, Quiet, Released, Ending
  <2>7. Shape' /\ SameElsewhere(i) /\ Flagged(i)'
    BY <2>2, <2>4, Zenon DEF PartInv, Shape, SameElsewhere, Flagged
  <2> QED BY <2>6, <2>7, OneProcess, Zenon
<1> QED BY <1>1, <1>2

\* main, from the start-up to the return.
LEMMA MainKeepsParts ==
  ASSUME PartInv, TypeOK, NEW i \in Instance,
         \/ BootStep(i) \/ BootFails(i) \/ Killed(i) \/ Signal(i) \/ MainStep(i)
         \/ SchedulerCancel(i) \/ NetworkBreaks(i) \/ ServerNotices
  PROVE  PartInv'
<1>1. CASE BootFails(i) \/ Killed(i)
  <2>1. \A j \in Instance \ {i} : running'[j] = running[j]
    BY <1>1, ZenonT(60) DEF BootFails, Killed, Crash, TypeOK
  <2> QED BY <1>1, <2>1, GoneKeeps, ZenonT(60) DEF BootFails, Killed
<1>2. CASE Return(i)
  <2>1. \A j \in Instance \ {i} : running'[j] = running[j]
    <3>1. running' = [running EXCEPT ![i] = FALSE]
      BY <1>2, Zenon DEF Return, Exit, Dies
    <3> QED BY <3>1, Zenon DEF TypeOK
  <2> QED BY <1>2, <2>1, GoneKeeps, Zenon DEF Return
<1>3. CASE running' = running /\ UNCHANGED partVars
  BY <1>3, Zenon DEF partVars, PartInv, Shape, Awaited, Flagged, Quiet, Released
<1>4. CASE StopElector(i)
  <2>1. Main(i)[1] = i
    BY DEF Main
  <2>2. running' = running \/ Panics(i)
    BY <1>4, <2>1, Zenon DEF StopElector, CloseStep, ReadConn, InspectConn, ShutConn, ClearConn, Standby
  <2>3. CASE Panics(i)
    <3>1. pc'[Main(i)] = "panicked" /\ \A j \in Instance \ {i} : running'[j] = running[j]
      BY <2>3, Zenon DEF Panics, Dies, TypeOK, Elector, Main
    <3> QED BY <1>4, <3>1, GoneKeeps, Zenon DEF StopElector
  <2>4. CASE running' = running
    BY <1>3, <1>4, <2>4, GoneKeeps, Zenon DEF StopElector
  <2> QED BY <2>2, <2>3, <2>4
<1>5. CASE Signal(i) \/ NetworkBreaks(i) \/ ServerNotices
  BY <1>3, <1>5, Zenon DEF Signal, Cancel, NetworkBreaks, ConnectionBreaks, ServerNotices, ServerReleases
<1>6. CASE SchedulerCancel(i)
  BY <1>6, Zenon DEF SchedulerCancel, vars, PartInv, Shape, Awaited, Flagged, Quiet, Released
<1>7. CASE BootStep(i)
  <2>1. PICK k \in 1 .. 4 :
          /\ stage[i] = Boot[k]
          /\ stage' = [stage EXCEPT ![i] = Boot[k + 1]]
          /\ IF Boot[k + 1] = "serving"
               THEN /\ worker' = [worker EXCEPT ![i] = [w \in Worker |-> "loop"]]
                    /\ server' = [server EXCEPT ![i] = "starting"]
               ELSE UNCHANGED <<worker, server>>
    BY <1>7, Zenon DEF BootStep
  <2>2. [w \in Worker |-> "loop"] \in [Worker -> WorkerPlace]
    BY DEF WorkerPlace
  <2>3. worker' \in [Instance -> [Worker -> WorkerPlace]]
        /\ \A j \in Instance \ {i} : worker'[j] = worker[j]
    BY <2>1, <2>2, ZenonT(60) DEF PartInv, Shape
  <2>4. server' \in [Instance -> ServerPlace] /\ \A j \in Instance \ {i} : server'[j] = server[j]
    BY <2>1, Zenon DEF PartInv, Shape, ServerPlace
  <2>5. Boot[k + 1] \in StagePlace /\ Boot[k + 1] \notin Ending
    <3>1. k + 1 = 2 \/ k + 1 = 3 \/ k + 1 = 4 \/ k + 1 = 5
      OBVIOUS
    <3>2. Boot[2] = "store" /\ Boot[3] = "migrate" /\ Boot[4] = "redis" /\ Boot[5] = "serving"
      BY DEF Boot
    <3>3. {"store", "migrate", "redis", "serving"} \subseteq StagePlace \ Ending
      BY DEF Ending, StagePlace
    <3> QED BY <3>1, <3>2, <3>3
  <2>6. stage' \in [Instance -> StagePlace] /\ stage'[i] \notin Ending
        /\ \A j \in Instance \ {i} : stage'[j] = stage[j]
    BY <2>1, <2>5, Zenon DEF PartInv, Shape
  <2>7. UNCHANGED <<loop, request, timedOut, running>>
    BY <1>7, Zenon DEF BootStep, vars
  <2>8. Shape' /\ SameElsewhere(i) /\ Awaited(i)' /\ Flagged(i)'
    BY <2>3, <2>4, <2>6, <2>7, ZenonT(60) DEF PartInv, Shape, SameElsewhere, Awaited, Flagged, Ending
  <2> QED BY <2>8, OneProcess
<1>8. ASSUME NEW place \in StagePlace, SetStage(i, place)
      PROVE  /\ UNCHANGED <<loop, worker, request, running>>
             /\ stage' \in [Instance -> StagePlace] /\ stage'[i] = place
             /\ \A j \in Instance \ {i} : stage'[j] = stage[j]
  BY <1>8 DEF SetStage, vars, PartInv, Shape
<1>9. CASE HttpShutdown(i)
  <2>1. /\ server' \in [Instance -> ServerPlace] /\ server'[i] = "closed" /\ timedOut' = timedOut
        /\ \A j \in Instance \ {i} : server'[j] = server[j]
    BY <1>9 DEF HttpShutdown, PartInv, Shape, ServerPlace
  <2>2. Shape' /\ SameElsewhere(i) /\ Awaited(i)' /\ Flagged(i)'
    BY <1>8, <1>9, <2>1, ZenonT(60)
       DEF HttpShutdown, PartInv, Shape, SameElsewhere, Awaited, Flagged, StagePlace
  <2> QED BY <2>2, OneProcess, Zenon
<1>10. CASE HttpDrained(i) \/ HttpTimesOut(i)
  <2>1. /\ timedOut' \in [Instance -> BOOLEAN] /\ server' = server
        /\ \A j \in Instance \ {i} : timedOut'[j] = timedOut[j]
    BY <1>10, Zenon DEF HttpDrained, HttpTimesOut, PartInv, Shape
  <2>2. AllNone(request[i]) \/ timedOut'[i]
    BY <1>10, Zenon DEF HttpDrained, HttpTimesOut, PartInv, Shape
  <2>3. SetStage(i, "pool") /\ stage[i] = "http"
    BY <1>10, Zenon DEF HttpDrained, HttpTimesOut
  <2>4. Awaited(i)'
    BY <1>8, <2>1, <2>2, <2>3, Zenon DEF PartInv, Awaited, Quiet, Ending, StagePlace
  <2>5. Shape' /\ SameElsewhere(i) /\ Flagged(i)'
    BY <1>8, <2>1, <2>3, Zenon DEF PartInv, Shape, SameElsewhere, Flagged, StagePlace
  <2> QED BY <2>4, <2>5, OneProcess
<1>11. CASE PoolStop(i) \/ CloseRedis(i) \/ CloseStore(i)
  <2>1. PICK place \in {"close redis", "close store", "return"} :
          SetStage(i, place) /\ (place = "return" => Released(i))
    BY <1>11, Zenon DEF PoolStop, CloseRedis, CloseStore, Released
  <2>2. /\ UNCHANGED <<server, timedOut>> /\ AllNone(worker[i]) /\ Quiet(i) /\ server[i] = "closed"
    BY <1>11, Zenon DEF PoolStop, CloseRedis, CloseStore, PartInv, Awaited, Ending
  <2>3. Awaited(i)'
    BY <1>8, <2>1, <2>2, Zenon DEF Awaited, Quiet, Released, StagePlace
  <2>4. Shape' /\ SameElsewhere(i) /\ Flagged(i)'
    BY <1>8, <2>1, <2>2, Zenon DEF PartInv, Shape, SameElsewhere, Flagged, StagePlace
  <2> QED BY <2>3, <2>4, OneProcess, Zenon
<1> QED BY <1>1, <1>2, <1>4, <1>5, <1>6, <1>7, <1>9, <1>10, <1>11, Zenon DEF MainStep

----------------------------------------------------------------------------
\* Every step of the processes is a step of their election or leaves it alone.
LEMMA ElectionStep ==
  ASSUME [ProcNext]_procVars
  PROVE  [Next]_vars
<1>1. CASE UNCHANGED procVars
  BY <1>1 DEF procVars
<1>2. CASE ServerNotices
  BY <1>2, Zenon DEF ServerNotices, Next
<1>3. ASSUME NEW i \in Instance,
             \/ BootFails(i) \/ Killed(i) \/ ElectorMove(i) \/ Signal(i) \/ NetworkBreaks(i)
             \/ StopElector(i) \/ Return(i)
      PROVE  Next
  BY <1>3 DEF BootFails, Killed, ElectorMove, Signal, NetworkBreaks, StopElector, Return, Next,
              ShutdownStep
<1>4. ASSUME NEW i \in Instance,
             \/ BootStep(i) \/ SchedulerCancel(i) \/ ListenAndServe(i) \/ HttpShutdown(i)
             \/ HttpDrained(i) \/ HttpTimesOut(i) \/ PoolStop(i) \/ CloseRedis(i) \/ CloseStore(i)
             \/ (\E l \in Loop : LoopStep(i, l) \/ LoopEnds(i, l))
             \/ (\E w \in Worker : WorkerStep(i, w))
             \/ (\E r \in Request : RequestStep(i, r))
      PROVE  UNCHANGED vars
  BY <1>4, Zenon DEF BootStep, SchedulerCancel, ListenAndServe, SetServer, HttpShutdown, HttpDrained,
              HttpTimesOut, PoolStop, CloseRedis, CloseStore, SetStage, LoopStep, LoopEnds, SetLoop,
              WorkerStep, WorkerLoop, Pop, FetchJob, HandlerReturns, SetWorker,
              RequestStep, RequestArrives, RequestQueries, StatementReturns, RequestEnds, SetRequest
<1> QED BY <1>1, <1>2, <1>3, <1>4 DEF ProcNext, MainStep

\* The parts keep their invariant while the election keeps its own.
LEMMA PartStep ==
  ASSUME PartInv, TypeOK, [ProcNext]_procVars
  PROVE  PartInv'
<1>1. CASE UNCHANGED procVars
  BY <1>1, Zenon DEF procVars, partVars, vars, PartInv, Shape, Awaited, Flagged, Quiet, Released
<1>2. CASE ServerNotices
  BY <1>2, Zenon DEF ServerNotices, ServerReleases, partVars, PartInv, Shape, Awaited, Flagged, Quiet,
                     Released
<1>3. CASE ProcNext /\ ~ServerNotices
  BY <1>3, ElectorMoveKeeps, LoopKeeps, WorkerKeeps, ServerKeeps, MainKeepsParts DEF ProcNext
<1> QED BY <1>1, <1>2, <1>3

\* Both invariants hold in every behaviour of the processes.
LEMMA ProcInvariant == ProcSpec => [](PartInv /\ LeaseInv)
<1>1. ProcInit => PartInv
  <2> SUFFICES ASSUME ProcInit PROVE PartInv
    OBVIOUS
  <2>1. /\ [l \in Loop |-> "none"] \in [Loop -> LoopPlace]
        /\ [w \in Worker |-> "none"] \in [Worker -> WorkerPlace]
        /\ [r \in Request |-> "none"] \in [Request -> RequestPlace]
    BY DEF LoopPlace, WorkerPlace, RequestPlace
  <2>2. Shape
    BY <2>1 DEF ProcInit, Each, Shape, StagePlace, ServerPlace
  <2>3. \A i \in Instance : Awaited(i) /\ Flagged(i)
    BY Zenon DEF ProcInit, Each, Awaited, Flagged, Ending, AllNone
  <2> QED BY <2>2, <2>3 DEF PartInv
<1>2. ProcSpec => Spec
  <2>1. ProcInit => Init
    BY DEF ProcInit
  <2> QED BY <2>1, ElectionStep, PTL DEF ProcSpec, Spec
<1>3. LeaseInv => TypeOK
  BY DEF LeaseInv
<1> QED BY <1>1, <1>2, <1>3, PartStep, LeaseInvariant, PTL DEF ProcSpec

\* The composition of the election with the scheduler's Start and Stop: whatever
\* the number of processes, only one that owns the advisory lock, or has lost its
\* session, has loops that move jobs.
THEOREM LoopsUnderLeaseHold == ProcSpec => []LoopsUnderLease
<1>1. PartInv /\ LeaseInv => LoopsUnderLease
  BY Zenon DEF PartInv, LeaseInv, Linked, Flagged, LoopsUnderLease
<1> QED BY <1>1, ProcInvariant, PTL

\* The order of main's shutdown: the deferred Close of the stores finds no worker,
\* and no request unless srv.Shutdown timed out, however many there were; and main
\* returns only when no request and no loop holds a connection, or can get one.
THEOREM ClosedAfterUseHolds == ProcSpec => []ClosedAfterUse
<1>1. PartInv => ClosedAfterUse
  BY Zenon DEF PartInv, Awaited, Quiet, Released, ClosedAfterUse
<1> QED BY <1>1, ProcInvariant, PTL
=============================================================================
