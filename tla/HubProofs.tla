----------------------------- MODULE HubProofs -----------------------------
(***************************************************************************)
(* For any number of connections and any channel capacity: the channels    *)
(* keep to their capacity, and until main shuts the hub down Hub.Run closes *)
(* every send channel at most once and never sends on a closed one.        *)
(***************************************************************************)
EXTENDS Hub, TLAPS

\* Run is about to close, to drop or to forget the client.
Handling(c) == run.pc \in {"delete", "close", "drop", "forget"} /\ run.client = c

Waiting(c) == \E k \in 1 .. Len(register) : register[k] = c

\* A client is registered once, leaves the map with its channel closed, and is
\* never registered again.
OneLife(c) ==
  /\ serving[c] # "done" => ~Waiting(c) /\ c \notin clients /\ ~closed[c]
  /\ Waiting(c) => c \notin clients /\ ~closed[c]
  /\ Handling(c) => serving[c] = "done" /\ ~Waiting(c)
  /\ c \in clients /\ closed[c] => Handling(c) /\ run.pc = "forget"
  /\ Handling(c) /\ run.pc \in {"delete", "drop"} => c \in clients
  /\ Handling(c) /\ run.pc \in {"close", "drop"} => ~closed[c]
  /\ Handling(c) /\ run.pc = "close" => c \notin clients

RegisteredOnce ==
  \A k, l \in 1 .. Len(register) : register[k] = register[l] => k = l

ServingInv ==
  /\ run.pc \notin {"panicked", "ended"}
  /\ run.pc \in {"delete", "close", "drop", "forget"} => run.client \in Client
  /\ RegisteredOnce
  /\ \A c \in Client : OneLife(c)

HubInv == TypeOK /\ (~Cancelled => ServingInv)

RunPc == {"select", "delete", "close", "range", "drop", "forget", "ended", "panicked"}
MainPc == {"serving", "cancelled", "range", "delete", "done", "panicked"}

----------------------------------------------------------------------------
\* Steps of a connection leave Run, main and the subscriber alone.
LEMMA ConnectionTyped ==
  ASSUME TypeOK, NEW c \in Client,
         Accept(c) \/ Register(c) \/ Disconnect(c) \/ WriterStep(c) \/ WriterUnregisters(c)
         \/ ReaderStep(c) \/ ReaderUnregisters(c)
  PROVE  TypeOK'
<1> USE CapAssumption
<1>1. CASE Accept(c)
  BY <1>1 DEF Accept, channelVars, TypeOK
<1>2. CASE Register(c)
  BY <1>2 DEF Register, TypeOK
<1>3. CASE Disconnect(c)
  BY <1>3 DEF Disconnect, channelVars, TypeOK
<1>4. CASE WriterReceives(c)
  <2>1. send' \in [Client -> 0 .. Cap]
    <3>1. send \in [Client -> 0 .. Cap] /\ Cap \in Nat
      BY DEF TypeOK
    <3>2. send' = send \/ (send[c] > 0 /\ send' = [send EXCEPT ![c] = send[c] - 1])
      BY <1>4 DEF WriterReceives
    <3> QED BY <3>1, <3>2
  <2>2. conn' \in [Client -> {"none", "open", "closed"}]
    BY <1>4, ZenonT(60) DEF WriterReceives, TypeOK
  <2>3. writer' \in [Client -> {"idle", "loop", "write", "unregister", "ended"}]
    BY <1>4, ZenonT(60) DEF WriterReceives, TypeOK
  <2>4. UNCHANGED <<clients, register, unregister, broadcast, closed, serving, reader,
                    run, subscriber, main>>
    BY <1>4 DEF WriterReceives
  <2> QED BY <2>1, <2>2, <2>3, <2>4 DEF TypeOK
<1>5. CASE WriterWrites(c)
  <2>1. conn' \in [Client -> {"none", "open", "closed"}]
    BY <1>5, ZenonT(60) DEF WriterWrites, TypeOK
  <2>2. writer' \in [Client -> {"idle", "loop", "write", "unregister", "ended"}]
    <3>1. \E label \in {"loop", "unregister"} : writer' = [writer EXCEPT ![c] = label]
      BY <1>5 DEF WriterWrites
    <3> QED BY <3>1 DEF TypeOK
  <2>3. UNCHANGED <<clients, channelVars, serving, reader, run, subscriber, main>>
    BY <1>5 DEF WriterWrites
  <2> QED BY <2>1, <2>2, <2>3 DEF channelVars, TypeOK
<1>6. CASE WriterUnregisters(c)
  BY <1>6, SMTT(30) DEF WriterUnregisters, TypeOK
<1>7. CASE ReaderFails(c)
  BY <1>7 DEF ReaderFails, channelVars, TypeOK
<1>8. CASE ReaderUnregisters(c)
  BY <1>8, SMTT(30) DEF ReaderUnregisters, TypeOK
<1>9. CASE ReaderCloses(c)
  BY <1>9 DEF ReaderCloses, channelVars, TypeOK
<1> QED BY <1>1, <1>2, <1>3, <1>4, <1>5, <1>6, <1>7, <1>8, <1>9 DEF WriterStep, ReaderStep

\* A place of Run or of main, with its client and the rest of its range.
LEMMA PlaceTyped ==
  ASSUME NEW label, NEW c \in Client \cup {None}, NEW rest \in SUBSET Client
  PROVE  /\ label \in RunPc => At(label, c, rest) \in [pc : RunPc, client : Client \cup {None},
                                                        left : SUBSET Client]
         /\ label \in MainPc => At(label, c, rest) \in [pc : MainPc, client : Client \cup {None},
                                                         left : SUBSET Client]
BY DEF At

\* Steps of Run.
LEMMA RunTyped ==
  ASSUME TypeOK, RunEnds \/ RunRegister \/ RunUnregister \/ RunBroadcast \/ RunStep
  PROVE  TypeOK'
<1> USE CapAssumption
<1>1. run.client \in Client \cup {None} /\ run.left \in SUBSET Client /\ clients \in SUBSET Client
      /\ run \in [pc : RunPc, client : Client \cup {None}, left : SUBSET Client]
  BY DEF TypeOK, RunPc
<1>2. ASSUME run' \in [pc : RunPc, client : Client \cup {None}, left : SUBSET Client],
             UNCHANGED <<clientVars, subscriber, main>>,
             clients' \subseteq Client,
             register' \in Seq(Client) /\ Len(register') <= Cap,
             unregister' \in Seq(Client) /\ Len(unregister') <= Cap,
             broadcast' \in 0 .. Cap,
             send' \in [Client -> 0 .. Cap],
             closed' \in [Client -> BOOLEAN]
      PROVE  TypeOK'
  BY <1>2, Zenon DEF TypeOK, RunPc, clientVars
<1>3. CASE RunEnds
  BY <1>2, <1>3, PlaceTyped, Zenon DEF RunEnds, channelVars, TypeOK, RunPc
<1>4. CASE RunRegister
  BY <1>1, <1>2, <1>4, SMTT(30) DEF RunRegister, TypeOK
<1>5. CASE RunUnregister
  <2>1. Head(unregister) \in Client /\ Tail(unregister) \in Seq(Client)
        /\ Len(Tail(unregister)) <= Cap
    BY <1>5 DEF RunUnregister, TypeOK
  <2>2. run' \in [pc : RunPc, client : Client \cup {None}, left : SUBSET Client]
    BY <1>1, <1>5, <2>1, PlaceTyped, Zenon DEF RunUnregister, RunPc
  <2> QED BY <1>2, <1>5, <2>1, <2>2, Zenon DEF RunUnregister, TypeOK
<1>6. CASE RunBroadcast
  <2>1. run' \in [pc : RunPc, client : Client \cup {None}, left : SUBSET Client]
    BY <1>1, <1>6, PlaceTyped, Zenon DEF RunBroadcast, RunPc
  <2>2. broadcast' \in 0 .. Cap
    BY <1>6 DEF RunBroadcast, TypeOK
  <2> QED BY <1>2, <1>6, <2>1, <2>2 DEF RunBroadcast, TypeOK
<1>7. CASE RunDelete
  <2>1. run' \in [pc : RunPc, client : Client \cup {None}, left : SUBSET Client]
    BY <1>1, <1>7, PlaceTyped, Zenon DEF RunDelete, RunPc
  <2> QED BY <1>2, <1>7, <2>1 DEF RunDelete, channelVars, TypeOK
<1>8. CASE RunClose
  <2>1. run' \in [pc : RunPc, client : Client \cup {None}, left : SUBSET Client]
    BY <1>1, <1>8, PlaceTyped, Zenon DEF RunClose, RunPc
  <2> QED BY <1>2, <1>8, <2>1, Zenon DEF RunClose, TypeOK
<1>9. CASE RunRange
  <2>1. PICK c \in run.left :
          LET rest == run.left \ {c}
              ready == c \in clients /\ ~closed[c] /\ send[c] < Cap IN
          /\ send' = [send EXCEPT ![c] = IF ready THEN @ + 1 ELSE @]
          /\ run' = IF c \notin clients \/ ready THEN At("range", None, rest)
                    ELSE IF closed[c] THEN At("panicked", None, {})
                    ELSE At("drop", c, rest)
    BY <1>9, Zenon DEF RunRange
  <2>2. run' \in [pc : RunPc, client : Client \cup {None}, left : SUBSET Client]
    BY <1>1, <2>1, PlaceTyped DEF RunPc
  <2>3. send' \in [Client -> 0 .. Cap]
    BY <1>1, <2>1 DEF TypeOK
  <2> QED BY <1>2, <1>9, <2>2, <2>3, Zenon DEF RunRange, TypeOK
<1>10. CASE RunRangeEnds
  BY <1>2, <1>10, PlaceTyped, Zenon DEF RunRangeEnds, channelVars, TypeOK, RunPc
<1> QED BY <1>3, <1>4, <1>5, <1>6, <1>7, <1>8, <1>9, <1>10 DEF RunStep

\* Steps of the subscriber and of main.
LEMMA OthersTyped ==
  ASSUME TypeOK, SubscriberRenders \/ SubscriberSends \/ SubscriberEnds \/ Cancel \/ ShutdownStep
  PROVE  TypeOK'
<1> USE CapAssumption
<1>1. main.client \in Client \cup {None} /\ main.left \in SUBSET Client /\ clients \in SUBSET Client
  BY DEF TypeOK
<1>2. CASE SubscriberRenders \/ SubscriberSends \/ SubscriberEnds
  BY <1>2 DEF SubscriberRenders, SubscriberSends, SubscriberEnds, channelVars, clientVars, TypeOK
<1>3. ASSUME main' \in [pc : MainPc, client : Client \cup {None}, left : SUBSET Client],
             UNCHANGED <<register, unregister, broadcast, send, clientVars, run, subscriber>>,
             clients' \subseteq Client, closed' \in [Client -> BOOLEAN]
      PROVE  TypeOK'
  BY <1>3 DEF TypeOK, MainPc, clientVars
<1>4. CASE Cancel
  BY <1>3, <1>4, PlaceTyped, Zenon DEF Cancel, channelVars, TypeOK, MainPc
<1>5. CASE Shutdown
  BY <1>1, <1>3, <1>5, PlaceTyped, Zenon DEF Shutdown, channelVars, TypeOK, MainPc
<1>6. CASE ShutdownCloses
  <2>1. PICK c \in clients :
          /\ closed' = [closed EXCEPT ![c] = TRUE]
          /\ main' = IF closed[c] THEN At("panicked", None, {})
                                  ELSE At("delete", c, main.left \ {c})
    BY <1>6, Zenon DEF ShutdownCloses
  <2>2. main' \in [pc : MainPc, client : Client \cup {None}, left : SUBSET Client]
    BY <1>1, <2>1, PlaceTyped, Zenon DEF MainPc
  <2> QED BY <1>1, <1>3, <1>6, <2>1, <2>2, Zenon DEF ShutdownCloses, TypeOK
<1>7. CASE ShutdownDeletes
  BY <1>1, <1>3, <1>7, PlaceTyped, Zenon DEF ShutdownDeletes, channelVars, TypeOK, MainPc
<1>8. CASE ShutdownEnds
  BY <1>3, <1>8, PlaceTyped, Zenon DEF ShutdownEnds, channelVars, TypeOK, MainPc
<1> QED BY <1>2, <1>4, <1>5, <1>6, <1>7, <1>8 DEF ShutdownStep

----------------------------------------------------------------------------
(* While main serves.                                                      *)

\* Removing the head of the register channel leaves the other entries.
LEMMA RegisterTail ==
  ASSUME register \in Seq(Client), register # <<>>, register' = Tail(register), RegisteredOnce,
         NEW h, h = Head(register)
  PROVE  /\ RegisteredOnce'
         /\ h \in Client /\ Waiting(h) /\ ~Waiting(h)'
         /\ \A c \in Client : Waiting(c)' => Waiting(c)
<1>1. /\ Len(register) \in Nat \ {0} /\ Len(register') = Len(register) - 1
      /\ \A k \in 1 .. Len(register') : register'[k] = register[k + 1]
      /\ h = register[1] /\ h \in Client
  OBVIOUS
<1>2. RegisteredOnce'
  <2> SUFFICES ASSUME NEW k \in 1 .. Len(register'), NEW l \in 1 .. Len(register'),
                      register'[k] = register'[l]
               PROVE  k = l
    BY DEF RegisteredOnce
  <2>1. k + 1 \in 1 .. Len(register) /\ l + 1 \in 1 .. Len(register)
    BY <1>1
  <2>2. register[k + 1] = register[l + 1]
    BY <1>1
  <2>3. k + 1 = l + 1
    BY <2>1, <2>2 DEF RegisteredOnce
  <2> QED BY <1>1, <2>3
<1>3. Waiting(h) /\ ~Waiting(h)'
  <2>1. 1 \in 1 .. Len(register) /\ Waiting(h)
    BY <1>1 DEF Waiting
  <2>2. ASSUME NEW k \in 1 .. Len(register') PROVE register'[k] # h
    <3>1. k + 1 \in 1 .. Len(register) /\ register'[k] = register[k + 1] /\ k + 1 # 1
      BY <1>1
    <3> QED BY <1>1, <2>1, <3>1 DEF RegisteredOnce
  <2> QED BY <1>1, <2>1, <2>2 DEF Waiting
<1>4. ASSUME NEW c \in Client, Waiting(c)' PROVE Waiting(c)
  <2>1. PICK k \in 1 .. Len(register') : register'[k] = c
    BY <1>4 DEF Waiting
  <2>2. k + 1 \in 1 .. Len(register) /\ register[k + 1] = c
    BY <1>1, <2>1
  <2> QED BY <2>2 DEF Waiting
<1> QED BY <1>1, <1>2, <1>3, <1>4

\* A new entry at the end adds that client only.
LEMMA RegisterAppend ==
  ASSUME register \in Seq(Client), NEW c \in Client, register' = Append(register, c),
         RegisteredOnce, ~Waiting(c)
  PROVE  RegisteredOnce' /\ \A d \in Client \ {c} : Waiting(d)' <=> Waiting(d)
<1>1. /\ Len(register) \in Nat /\ Len(register') = Len(register) + 1
      /\ \A k \in 1 .. Len(register) : register'[k] = register[k]
      /\ register'[Len(register) + 1] = c
  OBVIOUS
<1> QED BY <1>1 DEF RegisteredOnce, Waiting

\* What a connection, the subscriber or main do does not touch the life of a
\* client in the hub, apart from its registration.
LEMMA OutsideKeeps ==
  ASSUME HubInv, ~Panicked, ~Cancelled',
         \/ \E c \in Client : \/ Accept(c) \/ Register(c) \/ Disconnect(c) \/ WriterStep(c)
                               \/ WriterUnregisters(c) \/ ReaderStep(c) \/ ReaderUnregisters(c)
         \/ SubscriberRenders \/ SubscriberSends \/ SubscriberEnds \/ Cancel \/ ShutdownStep
  PROVE  ServingInv'
<1>1. ASSUME NEW c \in Client, Register(c), ~Cancelled
      PROVE  ServingInv'
  <2>1. TypeOK /\ ServingInv /\ OneLife(c) /\ serving[c] = "accepted"
    BY <1>1 DEF HubInv, ServingInv, Register
  <2>2. ~Waiting(c) /\ c \notin clients /\ ~closed[c] /\ ~Handling(c)
    BY <2>1 DEF OneLife
  <2>3. RegisteredOnce' /\ \A d \in Client \ {c} : Waiting(d)' <=> Waiting(d)
    BY <1>1, <2>1, <2>2, RegisterAppend DEF Register, TypeOK, ServingInv
  <2>4. /\ serving'[c] = "done" /\ \A d \in Client \ {c} : serving'[d] = serving[d]
        /\ clients' = clients /\ closed' = closed /\ run' = run
    BY <1>1, <2>1, ZenonT(60) DEF Register, TypeOK
  <2>5. ASSUME NEW d \in Client PROVE OneLife(d)'
    <3>1. Handling(d)' <=> Handling(d)
      BY <2>4 DEF Handling
    <3>2. OneLife(d)
      BY <2>1, Zenon DEF ServingInv
    <3> QED BY <2>2, <2>3, <2>4, <3>1, <3>2, Zenon DEF OneLife
  <2> QED BY <2>1, <2>3, <2>4, <2>5 DEF ServingInv
<1>2. ASSUME UNCHANGED <<clients, register, closed, run>>, ~Cancelled,
             \A d \in Client : serving'[d] = serving[d] \/ (serving[d] # "done" /\ serving'[d] # "done")
      PROVE  ServingInv'
  <2>1. ServingInv
    BY <1>2 DEF HubInv
  <2> QED BY <1>2, <2>1, ZenonT(60) DEF ServingInv, RegisteredOnce, OneLife, Waiting, Handling
<1>3. ASSUME NEW c \in Client,
             \/ Accept(c) \/ Disconnect(c) \/ WriterStep(c)
             \/ WriterUnregisters(c) \/ ReaderStep(c) \/ ReaderUnregisters(c)
      PROVE  ServingInv'
  <2>1. UNCHANGED <<clients, register, closed, run, main>>
    BY <1>3, ZenonT(60) DEF Accept, Disconnect, WriterStep, WriterReceives, WriterWrites, WriterUnregisters,
                ReaderStep, ReaderFails, ReaderCloses, ReaderUnregisters, channelVars
  <2>2. \A d \in Client : serving'[d] = serving[d] \/ (serving[d] # "done" /\ serving'[d] # "done")
    BY <1>3, ZenonT(60) DEF Accept, Disconnect, WriterStep, WriterReceives, WriterWrites, WriterUnregisters,
                ReaderStep, ReaderFails, ReaderCloses, ReaderUnregisters, HubInv, TypeOK
  <2> QED BY <1>2, <2>1, <2>2, Zenon DEF Cancelled
<1>4. CASE SubscriberRenders \/ SubscriberSends \/ SubscriberEnds
  BY <1>2, <1>4 DEF SubscriberRenders, SubscriberSends, SubscriberEnds, channelVars, clientVars,
                    Cancelled
<1>5. CASE Cancel \/ ShutdownStep
  <2>1. ASSUME NEW pc, NEW c, NEW left, main' = At(pc, c, left) PROVE pc = "serving"
    BY <2>1 DEF At, Cancelled
  <2>2. ~Cancel /\ ~Shutdown /\ ~ShutdownDeletes /\ ~ShutdownEnds
    BY <2>1 DEF Cancel, Shutdown, ShutdownDeletes, ShutdownEnds
  <2>3. ~ShutdownCloses
    <3> SUFFICES ASSUME ShutdownCloses PROVE FALSE
      BY Zenon
    <3>1. PICK c : main' = IF closed[c] THEN At("panicked", None, {}) ELSE At("delete", c, main.left \ {c})
      BY Zenon DEF ShutdownCloses
    <3> QED BY <2>1, <3>1
  <2> QED BY <1>5, <2>2, <2>3 DEF ShutdownStep
<1>6. ASSUME NEW c \in Client, Register(c) PROVE ~Cancelled
  BY <1>6 DEF Register, Cancelled
<1> QED BY <1>1, <1>3, <1>4, <1>5, <1>6

\* Run: a client leaves the map and has its channel closed in either order, and
\* no other client is touched meanwhile.
LEMMA RunKeeps ==
  ASSUME HubInv, ~Cancelled', RunEnds \/ RunRegister \/ RunUnregister \/ RunBroadcast \/ RunStep
  PROVE  ServingInv'
<1>1. ~Cancelled /\ main' = main
  BY DEF RunEnds, RunRegister, RunUnregister, RunBroadcast, RunStep, RunDelete, RunClose,
         RunRange, RunRangeEnds, Cancelled
<1>2. TypeOK /\ ServingInv /\ RegisteredOnce /\ \A c \in Client : OneLife(c)
  BY <1>1 DEF HubInv, ServingInv
<1>3. ASSUME register' = register PROVE RegisteredOnce' /\ \A c \in Client : Waiting(c)' <=> Waiting(c)
  BY <1>2, <1>3 DEF RegisteredOnce, Waiting
<1>4. CASE RunEnds
  BY <1>1, <1>4 DEF RunEnds
<1>5. CASE RunRegister
  <2>0. PICK h : h = Head(register)
    OBVIOUS
  <2>1. /\ RegisteredOnce' /\ h \in Client /\ Waiting(h) /\ ~Waiting(h)'
        /\ \A c \in Client : Waiting(c)' => Waiting(c)
    BY <1>2, <1>5, <2>0, RegisterTail DEF RunRegister, TypeOK
  <2>2. /\ run.pc = "select" /\ run' = run /\ closed' = closed /\ serving' = serving
        /\ clients' = clients \cup {h}
    BY <1>5, <2>0 DEF RunRegister, clientVars
  <2>3. ASSUME NEW c \in Client PROVE OneLife(c)'
    <3>1. OneLife(c) /\ ~Handling(c) /\ ~Handling(c)'
      BY <1>2, <2>2 DEF Handling
    <3>2. CASE c = h
      BY <2>1, <2>2, <3>1, <3>2, Zenon DEF OneLife
    <3>3. CASE c # h
      BY <2>1, <2>2, <3>1, <3>3 DEF OneLife
    <3> QED BY <3>2, <3>3
  <2> QED BY <1>2, <2>1, <2>2, <2>3 DEF ServingInv
<1>6. CASE RunUnregister
  <2>1. /\ register' = register /\ closed' = closed /\ serving' = serving /\ clients' = clients
        /\ run.pc = "select"
    BY <1>6, Zenon DEF RunUnregister, clientVars
  <2>2. CASE run' = run
    BY <1>2, <1>3, <2>1, <2>2 DEF ServingInv, OneLife, Handling
  <2>3. CASE Head(unregister) \in clients
    <3> DEFINE h == Head(unregister)
    <3>1. h \in Client /\ h \in clients /\ run'.pc = "delete" /\ run'.client = h
      BY <1>2, <1>6, <2>3, ZenonT(60) DEF RunUnregister, TypeOK, At
    <3> HIDE DEF h
    <3>2. ASSUME NEW c \in Client PROVE OneLife(c)'
      BY <1>2, <1>3, <2>1, <3>1 DEF OneLife, Handling
    <3> QED BY <1>2, <1>3, <2>1, <3>1, <3>2, Zenon DEF ServingInv
  <2> QED BY <1>6, <2>2, <2>3 DEF RunUnregister
<1>7. CASE RunBroadcast \/ RunRangeEnds
  <2>1. /\ register' = register /\ closed' = closed /\ serving' = serving /\ clients' = clients
        /\ run.pc \in {"select", "range"} /\ run'.pc \in {"select", "range"}
    BY <1>7 DEF RunBroadcast, RunRangeEnds, clientVars, channelVars, At
  <2>2. ASSUME NEW c \in Client PROVE OneLife(c)'
    BY <1>2, <1>3, <2>1 DEF OneLife, Handling
  <2> QED BY <1>3, <2>1, <2>2, Zenon DEF ServingInv
<1>8. CASE RunDelete
  <2> DEFINE h == run.client
  <2>1. /\ register' = register /\ closed' = closed /\ serving' = serving /\ clients' = clients \ {h}
        /\ h \in Client /\ Handling(h)
    BY <1>2, <1>8 DEF RunDelete, clientVars, channelVars, ServingInv, Handling
  <2>2. \/ run.pc = "delete" /\ run'.pc = "close" /\ run'.client = h
        \/ run.pc = "forget" /\ run'.pc = "range"
    BY <1>8 DEF RunDelete, At
  <2>3. \A c \in Client : Handling(c) <=> c = h
    BY <1>8, Zenon DEF Handling, RunDelete
  <2> HIDE DEF h
  <2>4. ASSUME NEW c \in Client PROVE OneLife(c)'
    <3>1. OneLife(c) /\ OneLife(h)
      BY <1>2, <2>1
    <3> QED BY <1>3, <2>1, <2>2, <2>3, <3>1 DEF OneLife, Handling
  <2> QED BY <1>3, <2>1, <2>2, <2>4 DEF ServingInv
<1>9. CASE RunClose
  <2> DEFINE h == run.client
  <2>1. h \in Client /\ Handling(h) /\ ~closed[h] /\ closed' = [closed EXCEPT ![h] = TRUE]
        /\ register' = register /\ serving' = serving /\ clients' = clients
    BY <1>2, <1>9, Zenon DEF RunClose, ServingInv, Handling, OneLife, clientVars
  <2>2. \/ run.pc = "close" /\ run'.pc = "select"
        \/ run.pc = "drop" /\ run'.pc = "forget" /\ run'.client = h
    BY <1>9, <2>1 DEF RunClose, At
  <2>3. \A c \in Client : Handling(c) <=> c = h
    BY <1>9, ZenonT(60) DEF Handling, RunClose
  <2> HIDE DEF h
  <2>4. ASSUME NEW c \in Client PROVE OneLife(c)'
    <3>1. OneLife(c) /\ OneLife(h)
      BY <1>2, <2>1
    <3>2. closed'[c] = IF c = h THEN TRUE ELSE closed[c]
      BY <1>2, <2>1 DEF TypeOK
    <3> QED BY <1>3, <2>1, <2>2, <2>3, <3>1, <3>2, Zenon DEF OneLife, Handling
  <2> QED BY <1>3, <2>1, <2>2, <2>4, Zenon DEF ServingInv
<1>10. CASE RunRange
  <2>1. PICK h \in run.left :
          LET rest == run.left \ {h}
              ready == h \in clients /\ ~closed[h] /\ send[h] < Cap IN
          run' = IF h \notin clients \/ ready THEN At("range", None, rest)
                 ELSE IF closed[h] THEN At("panicked", None, {})
                 ELSE At("drop", h, rest)
    BY <1>10, Zenon DEF RunRange
  <2>2. /\ register' = register /\ closed' = closed /\ serving' = serving /\ clients' = clients
        /\ run.pc = "range" /\ h \in Client
    BY <1>2, <1>10 DEF RunRange, clientVars, TypeOK
  <2>3. OneLife(h) /\ ~Handling(h)
    BY <1>2, <2>2, Zenon DEF Handling
  <2>4. \/ run'.pc = "range"
        \/ run'.pc = "drop" /\ run'.client = h /\ h \in clients /\ ~closed[h]
    BY <2>1, <2>3, ZenonT(60) DEF At, OneLife
  <2>5. ASSUME NEW c \in Client PROVE OneLife(c)'
    BY <1>2, <1>3, <2>2, <2>3, <2>4 DEF OneLife, Handling
  <2> QED BY <1>3, <2>2, <2>4, <2>5 DEF ServingInv
<1> QED BY <1>4, <1>5, <1>6, <1>7, <1>8, <1>9, <1>10, SMTT(30) DEF RunStep

----------------------------------------------------------------------------
\* The invariant holds in every behaviour.
LEMMA HubInvariant == Spec => []HubInv
<1>1. Init => HubInv
  <2> SUFFICES ASSUME Init PROVE HubInv
    BY Zenon
  <2>1. TypeOK
    BY CapAssumption DEF Init, TypeOK, At
  <2>2. ServingInv
    BY DEF Init, ServingInv, RegisteredOnce, OneLife, Waiting, Handling, At
  <2> QED BY <2>1, <2>2 DEF HubInv
<1>2. HubInv /\ [Next]_vars => HubInv'
  <2> SUFFICES ASSUME HubInv, [Next]_vars PROVE HubInv'
    BY ZenonT(60)
  <2>1. CASE UNCHANGED vars
    BY <2>1 DEF vars, HubInv, TypeOK, ServingInv, RegisteredOnce, OneLife, Waiting, Handling,
                Cancelled
  <2>2. CASE Next
    <3>1. TypeOK'
      BY <2>2, ConnectionTyped, RunTyped, OthersTyped DEF Next, HubInv
    <3>2. ~Cancelled' => ServingInv'
      BY <2>2, OutsideKeeps, RunKeeps DEF Next
    <3> QED BY <3>1, <3>2 DEF HubInv
  <2> QED BY <2>1, <2>2
<1> QED BY <1>1, <1>2, PTL DEF Spec

\* No channel of the hub or of a client exceeds its capacity, and every goroutine
\* stays in its own code, for any number of connections and any capacity.
THEOREM HubTypeCorrect == Spec => []TypeOK
BY HubInvariant, PTL DEF HubInv

\* Until main shuts the hub down Run never closes a send channel twice and never
\* sends on a closed one, for any number of connections and any capacity.
THEOREM SafeWhileServingHolds == Spec => []SafeWhileServing
<1>1. HubInv => SafeWhileServing
  BY DEF HubInv, ServingInv, SafeWhileServing, Panicked, Cancelled
<1> QED BY <1>1, HubInvariant, PTL
=============================================================================
