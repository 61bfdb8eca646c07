-------------------------------- MODULE Hub --------------------------------
(***************************************************************************)
(* The WebSocket side of the dashboard (internal/dashboard): ServeWS, the  *)
(* two pumps of a client, Hub.Run, the subscriber that feeds it, and the   *)
(* Shutdown that main calls from its own goroutine.  A buffered channel is *)
(* a bounded sequence, or a count where its messages are alike.  Closing a *)
(* closed channel and sending on one panic.                                *)
(***************************************************************************)
EXTENDS Naturals, Sequences

CONSTANTS Client,        \* WebSocket connections, each accepted once
          Cap            \* the 256 of every channel

ASSUME CapAssumption == Cap \in Nat \ {0}

VARIABLES clients,                 \* Hub.clients
          register, unregister,    \* channels of clients
          broadcast,               \* messages in the broadcast channel
          send, closed,            \* per client: messages in send; send is closed
          conn,                    \* per client: the connection
          serving,                 \* per client: ServeWS
          writer, reader,          \* per client: the two pumps
          run,                     \* Hub.Run
          subscriber,              \* StartSubscriber
          main                     \* cancel() and Hub.Shutdown

vars == <<clients, register, unregister, broadcast, send, closed, conn,
          serving, writer, reader, run, subscriber, main>>

clientVars == <<conn, serving, writer, reader>>
channelVars == <<register, unregister, broadcast, send, closed>>

None == "none"

\* Where Run and Shutdown are, with the client at hand and, in a range over the
\* clients, the ones it still has to visit.
At(pc, client, left) == [pc |-> pc, client |-> client, left |-> left]

\* Every variable keeps its shape and no channel exceeds its capacity.
TypeOK ==
  /\ clients \subseteq Client
  /\ register \in Seq(Client) /\ Len(register) <= Cap
  /\ unregister \in Seq(Client) /\ Len(unregister) <= Cap
  /\ broadcast \in 0 .. Cap
  /\ send \in [Client -> 0 .. Cap]
  /\ closed \in [Client -> BOOLEAN]
  /\ conn \in [Client -> {"none", "open", "closed"}]
  /\ serving \in [Client -> {"idle", "accepted", "done"}]
  /\ writer \in [Client -> {"idle", "loop", "write", "unregister", "ended"}]
  /\ reader \in [Client -> {"idle", "loop", "unregister", "close", "ended"}]
  /\ run \in [pc : {"select", "delete", "close", "range", "drop", "forget", "ended", "panicked"},
              client : Client \cup {None}, left : SUBSET Client]
  /\ subscriber \in {"idle", "send", "ended"}
  /\ main \in [pc : {"serving", "cancelled", "range", "delete", "done", "panicked"},
               client : Client \cup {None}, left : SUBSET Client]

Init ==
  /\ clients = {} /\ register = <<>> /\ unregister = <<>> /\ broadcast = 0
  /\ send = [c \in Client |-> 0]
  /\ closed = [c \in Client |-> FALSE]
  /\ conn = [c \in Client |-> "none"]
  /\ serving = [c \in Client |-> "idle"]
  /\ writer = [c \in Client |-> "idle"]
  /\ reader = [c \in Client |-> "idle"]
  /\ run = At("select", None, {})
  /\ subscriber = "idle"
  /\ main = At("serving", None, {})

Panicked == run.pc = "panicked" \/ main.pc = "panicked"

Cancelled == main.pc # "serving"

----------------------------------------------------------------------------
(* A connection.                                                           *)
Accept(c) ==
  /\ serving[c] = "idle"
  /\ serving' = [serving EXCEPT ![c] = "accepted"]
  /\ conn' = [conn EXCEPT ![c] = "open"]
  /\ UNCHANGED <<clients, channelVars, writer, reader, run, subscriber, main>>

Register(c) ==
  /\ serving[c] = "accepted"
  /\ Len(register) < Cap
  /\ register' = Append(register, c)
  /\ serving' = [serving EXCEPT ![c] = "done"]
  /\ writer' = [writer EXCEPT ![c] = "loop"]
  /\ reader' = [reader EXCEPT ![c] = "loop"]
  /\ UNCHANGED <<clients, unregister, broadcast, send, closed, conn, run, subscriber, main>>

\* The browser goes away.
Disconnect(c) ==
  /\ conn[c] = "open"
  /\ conn' = [conn EXCEPT ![c] = "closed"]
  /\ UNCHANGED <<clients, channelVars, serving, writer, reader, run, subscriber, main>>

\* Mutant: the writer leaves the connection to the reader.
WriterReceivesOnly(c) ==
  /\ writer[c] = "loop"
  /\ \/ /\ send[c] > 0
        /\ send' = [send EXCEPT ![c] = @ - 1]
        /\ writer' = [writer EXCEPT ![c] = "write"]
     \/ /\ send[c] = 0 /\ closed[c]
        /\ writer' = [writer EXCEPT ![c] = "unregister"]
        /\ UNCHANGED send
  /\ UNCHANGED <<clients, register, unregister, broadcast, closed, conn, serving, reader,
                 run, subscriber, main>>

\* A closed channel hands out what it still holds first.
WriterReceives(c) ==
  /\ writer[c] = "loop"
  /\ \/ /\ send[c] > 0
        /\ send' = [send EXCEPT ![c] = @ - 1]
        /\ writer' = [writer EXCEPT ![c] = "write"]
        /\ UNCHANGED conn
     \/ /\ send[c] = 0 /\ closed[c]
        /\ conn' = [conn EXCEPT ![c] = "closed"]
        /\ writer' = [writer EXCEPT ![c] = "unregister"]
        /\ UNCHANGED send
  /\ UNCHANGED <<clients, register, unregister, broadcast, closed, serving, reader,
                 run, subscriber, main>>

\* conn.Write, with its own timeout: on an error the deferred Close follows.
WriterWrites(c) ==
  /\ writer[c] = "write"
  /\ \/ /\ conn[c] = "open"
        /\ writer' = [writer EXCEPT ![c] = "loop"]
        /\ UNCHANGED conn
     \/ /\ writer' = [writer EXCEPT ![c] = "unregister"]
        /\ conn' = [conn EXCEPT ![c] = "closed"]
  /\ UNCHANGED <<clients, channelVars, serving, reader, run, subscriber, main>>

WriterUnregisters(c) ==
  /\ writer[c] = "unregister"
  /\ Len(unregister) < Cap
  /\ unregister' = Append(unregister, c)
  /\ writer' = [writer EXCEPT ![c] = "ended"]
  /\ UNCHANGED <<clients, register, broadcast, send, closed, conn, serving, reader,
                 run, subscriber, main>>

ReaderFails(c) ==
  /\ reader[c] = "loop"
  /\ conn[c] = "closed"
  /\ reader' = [reader EXCEPT ![c] = "unregister"]
  /\ UNCHANGED <<clients, channelVars, conn, serving, writer, run, subscriber, main>>

ReaderUnregisters(c) ==
  /\ reader[c] = "unregister"
  /\ Len(unregister) < Cap
  /\ unregister' = Append(unregister, c)
  /\ reader' = [reader EXCEPT ![c] = "close"]
  /\ UNCHANGED <<clients, register, broadcast, send, closed, conn, serving, writer,
                 run, subscriber, main>>

ReaderCloses(c) ==
  /\ reader[c] = "close"
  /\ conn' = [conn EXCEPT ![c] = "closed"]
  /\ reader' = [reader EXCEPT ![c] = "ended"]
  /\ UNCHANGED <<clients, channelVars, serving, writer, run, subscriber, main>>

WriterStep(c) == WriterReceives(c) \/ WriterWrites(c)
ReaderStep(c) == ReaderFails(c) \/ ReaderCloses(c)

----------------------------------------------------------------------------
(* Hub.Run: one action per case of its select, then one per statement that *)
(* touches the clients map or a send channel.                              *)
RunEnds ==
  /\ run.pc = "select" /\ Cancelled
  /\ run' = At("ended", None, {})
  /\ UNCHANGED <<clients, channelVars, clientVars, subscriber, main>>

RunRegister ==
  /\ run.pc = "select" /\ register # <<>>
  /\ clients' = clients \cup {Head(register)}
  /\ register' = Tail(register)
  /\ UNCHANGED <<unregister, broadcast, send, closed, clientVars, run, subscriber, main>>

\* Mutant: the second unregistration of a client is not recognised.
RunUnregisterBlind ==
  /\ run.pc = "select" /\ unregister # <<>>
  /\ unregister' = Tail(unregister)
  /\ run' = At("delete", Head(unregister), {})
  /\ UNCHANGED <<clients, register, broadcast, send, closed, clientVars, subscriber, main>>

RunUnregister ==
  /\ run.pc = "select" /\ unregister # <<>>
  /\ unregister' = Tail(unregister)
  /\ run' = IF Head(unregister) \in clients THEN At("delete", Head(unregister), {}) ELSE run
  /\ UNCHANGED <<clients, register, broadcast, send, closed, clientVars, subscriber, main>>

RunBroadcast ==
  /\ run.pc = "select" /\ broadcast > 0
  /\ broadcast' = broadcast - 1
  /\ run' = At("range", None, clients)
  /\ UNCHANGED <<clients, register, unregister, send, closed, clientVars, subscriber, main>>

\* Mutant: an unregistered client keeps its channel open.
RunDeleteOnly ==
  /\ run.pc \in {"delete", "forget"}
  /\ clients' = clients \ {run.client}
  /\ run' = IF run.pc = "delete" THEN At("select", None, {}) ELSE At("range", None, run.left)
  /\ UNCHANGED <<channelVars, clientVars, subscriber, main>>

RunDelete ==
  /\ run.pc \in {"delete", "forget"}
  /\ clients' = clients \ {run.client}
  /\ run' = IF run.pc = "delete" THEN At("close", run.client, {})
                                 ELSE At("range", None, run.left)
  /\ UNCHANGED <<channelVars, clientVars, subscriber, main>>

RunClose ==
  /\ run.pc \in {"close", "drop"}
  /\ closed' = [closed EXCEPT ![run.client] = TRUE]
  /\ run' = IF closed[run.client] THEN At("panicked", None, {})
            ELSE IF run.pc = "close" THEN At("select", None, {})
            ELSE At("forget", run.client, run.left)
  /\ UNCHANGED <<clients, register, unregister, broadcast, send, clientVars, subscriber, main>>

\* Mutant: a full channel is filled further.
RunRangeOverfull ==
  /\ run.pc = "range" /\ run.left # {}
  /\ \E c \in run.left :
       LET rest == run.left \ {c} IN
       /\ send' = [send EXCEPT ![c] = @ + 1]
       /\ run' = IF send[c] <= Cap THEN At("range", None, rest) ELSE At("drop", c, rest)
  /\ UNCHANGED <<clients, register, unregister, broadcast, closed, clientVars, subscriber, main>>

\* The next client of the range; one that has been deleted is not produced.  A
\* full channel drops its client.
RunRange ==
  /\ run.pc = "range" /\ run.left # {}
  /\ \E c \in run.left :
       LET rest == run.left \ {c}
           ready == c \in clients /\ ~closed[c] /\ send[c] < Cap IN
       /\ send' = [send EXCEPT ![c] = IF ready THEN @ + 1 ELSE @]
       /\ run' = IF c \notin clients \/ ready THEN At("range", None, rest)
                 ELSE IF closed[c] THEN At("panicked", None, {})
                 ELSE At("drop", c, rest)
  /\ UNCHANGED <<clients, register, unregister, broadcast, closed, clientVars, subscriber, main>>

RunRangeEnds ==
  /\ run.pc = "range" /\ run.left = {}
  /\ run' = At("select", None, {})
  /\ UNCHANGED <<clients, channelVars, clientVars, subscriber, main>>

RunStep == RunDelete \/ RunClose \/ RunRange \/ RunRangeEnds

----------------------------------------------------------------------------
(* The subscriber: an event or the five-second ticker, the rendering, and  *)
(* a send that blocks while the channel is full.                           *)
SubscriberRenders ==
  /\ subscriber = "idle"
  /\ subscriber' = "send"
  /\ UNCHANGED <<clients, channelVars, clientVars, run, main>>

SubscriberSends ==
  /\ subscriber = "send" /\ broadcast < Cap
  /\ broadcast' = broadcast + 1
  /\ subscriber' = "idle"
  /\ UNCHANGED <<clients, register, unregister, send, closed, clientVars, run, main>>

SubscriberEnds ==
  /\ subscriber = "idle" /\ Cancelled
  /\ subscriber' = "ended"
  /\ UNCHANGED <<clients, channelVars, clientVars, run, main>>

----------------------------------------------------------------------------
(* main: cancel(), then Hub.Shutdown on the same map as Run.  Whether a    *)
(* range produces a client added meanwhile is open.                        *)
Cancel ==
  /\ main.pc = "serving"
  /\ main' = At("cancelled", None, {})
  /\ UNCHANGED <<clients, channelVars, clientVars, run, subscriber>>

Shutdown ==
  /\ main.pc = "cancelled"
  /\ main' = At("range", None, clients)
  /\ UNCHANGED <<clients, channelVars, clientVars, run, subscriber>>

ShutdownCloses ==
  /\ main.pc = "range"
  /\ \E c \in clients :
       /\ closed' = [closed EXCEPT ![c] = TRUE]
       /\ main' = IF closed[c] THEN At("panicked", None, {}) ELSE At("delete", c, main.left \ {c})
  /\ UNCHANGED <<clients, register, unregister, broadcast, send, clientVars, run, subscriber>>

ShutdownDeletes ==
  /\ main.pc = "delete"
  /\ clients' = clients \ {main.client}
  /\ main' = At("range", None, main.left)
  /\ UNCHANGED <<channelVars, clientVars, run, subscriber>>

ShutdownEnds ==
  /\ main.pc = "range" /\ main.left \cap clients = {}
  /\ main' = At("done", None, {})
  /\ UNCHANGED <<clients, channelVars, clientVars, run, subscriber>>

ShutdownStep == Shutdown \/ ShutdownCloses \/ ShutdownDeletes \/ ShutdownEnds

----------------------------------------------------------------------------
Next ==
  /\ ~Panicked
  /\ \/ \E c \in Client : \/ Accept(c) \/ Register(c) \/ Disconnect(c)
                           \/ WriterStep(c) \/ WriterUnregisters(c)
                           \/ ReaderStep(c) \/ ReaderUnregisters(c)
     \/ RunEnds \/ RunRegister \/ RunUnregister \/ RunBroadcast \/ RunStep
     \/ SubscriberRenders \/ SubscriberSends \/ SubscriberEnds
     \/ Cancel \/ ShutdownStep

Spec == Init /\ [][Next]_vars

(* The goroutines run.  select picks at random among its ready cases and   *)
(* blocked senders queue up, so neither can be passed over for ever:       *)
(* strong fairness.  Browsers and the shutdown promise nothing.            *)
Fairness ==
  /\ \A c \in Client :
       /\ WF_vars(~Panicked /\ WriterStep(c))
       /\ WF_vars(~Panicked /\ ReaderStep(c))
       /\ SF_vars(~Panicked /\ Register(c))
       /\ SF_vars(~Panicked /\ WriterUnregisters(c))
       /\ SF_vars(~Panicked /\ ReaderUnregisters(c))
  /\ SF_vars(~Panicked /\ RunEnds)
  /\ SF_vars(~Panicked /\ RunRegister)
  /\ SF_vars(~Panicked /\ RunUnregister)
  /\ SF_vars(~Panicked /\ RunBroadcast)
  /\ WF_vars(~Panicked /\ RunStep)
  /\ WF_vars(~Panicked /\ (SubscriberRenders \/ SubscriberSends))
  /\ WF_vars(~Panicked /\ ShutdownStep)

LiveSpec == Spec /\ Fairness

----------------------------------------------------------------------------
\* Until main shuts the hub down no channel is closed twice or sent to after it
\* was closed, although both pumps of a client unregister it and Run may have
\* dropped it as well.
SafeWhileServing == ~Cancelled => ~Panicked

PumpsEnded(c) == writer[c] = "ended" /\ reader[c] = "ended"

\* A client that the hub has dropped keeps no goroutine: the closed channel ends
\* the writer, which closes the connection, which ends the reader.
PumpsEnd == \A c \in Client : []<>(closed[c] => PumpsEnded(c) \/ Cancelled)

\* A client whose connection is gone leaves nothing behind: its pumps end, its
\* channel is closed and it leaves the map.  If Run serves the reader's
\* unregistration before the registration, the entry that is then made goes when
\* a broadcast makes the writer fail.
Forgotten ==
  \A c \in Client :
    []<>(conn[c] = "closed" => (PumpsEnded(c) /\ c \notin clients /\ closed[c]) \/ Cancelled)

\* Comment of Shutdown: it closes the send channel of every client.  No panic
\* stops it half way.
ShutdownSafe == ~Panicked
=============================================================================
