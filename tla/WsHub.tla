------------------------------- MODULE WsHub -------------------------------
(***************************************************************************)
(* The WebSocket hub of websocket/hub.go.  One goroutine (Run) owns the    *)
(* register, unregister and broadcast channels, all unbuffered; handlers   *)
(* of payments and logins call SendToIP from their own goroutines.  The    *)
(* map from IP to connection is shared under the mutex mu, which is held   *)
(* while a message is written: a peer that does not read can stall it.     *)
(***************************************************************************)
EXTENDS Naturals, FiniteSets

CONSTANTS
    IP,       \* client addresses (query parameter ip)
    Conn,     \* connections that may be made
    IpOf,     \* the address a connection registers under
    Sender,   \* calls of SendToIP
    None      \* no connection, nobody

ASSUME HubAssumption ==
    /\ IpOf \in [Conn -> IP]
    /\ None \notin Conn \cup Sender \cup {"run"}
    /\ "run" \notin Sender

VARIABLES
    clients,   \* the map: IP -> registered connection
    sock,      \* per connection: state of the TCP connection
    stalled,   \* connections whose peer does not read
    reader,    \* per connection: progress of HandleWebSocket and its reader goroutine
    run,       \* what Run is doing: <<"select">> or the event it received
    mu,        \* holder of the mutex
    call,      \* per sender: progress of its SendToIP
    target,    \* per sender: the IP it sends to
    writing,   \* per sender: the connection it is writing to
    broadcast  \* progress of a call of Send

hubVars == <<clients, sock, stalled, reader, run, mu, call, target, writing, broadcast>>

Select == <<"select">>
Message == <<"message">>
Event == {Select, Message}
           \cup {<<"register", c>> : c \in Conn}
           \cup {<<"unregister", ip>> : ip \in IP}
           \cup {<<"broadcast", S>> : S \in SUBSET Conn}

HubTypeOK ==
    /\ clients \in [IP -> Conn \cup {None}]
    /\ sock \in [Conn -> {"none", "open", "gone", "closed"}]
    /\ stalled \in SUBSET Conn
    /\ reader \in [Conn -> {"none", "registering", "reading", "leaving", "done"}]
    /\ run \in Event
    /\ mu \in Sender \cup {"run", None}
    /\ call \in [Sender -> {"idle", "locking", "writing", "done"}]
    /\ target \in [Sender -> IP]
    /\ writing \in [Sender -> Conn \cup {None}]
    /\ broadcast \in {"idle", "sending", "done"}

HubInit ==
    /\ clients = [ip \in IP |-> None]
    /\ sock = [c \in Conn |-> "none"]
    /\ stalled = {}
    /\ reader = [c \in Conn |-> "none"]
    /\ run = Select
    /\ mu = None
    /\ call = [s \in Sender |-> "idle"]
    /\ target \in [Sender -> IP]
    /\ writing = [s \in Sender |-> None]
    /\ broadcast = "idle"

-----------------------------------------------------------------------------
(* Connections *)

\* HandleWebSocket upgrades a request and offers the connection to Run.
HandleWebSocket(c) ==
    /\ reader[c] = "none"
    /\ sock' = [sock EXCEPT ![c] = "open"]
    /\ reader' = [reader EXCEPT ![c] = "registering"]
    /\ UNCHANGED <<clients, stalled, run, mu, call, target, writing, broadcast>>

\* The reader goroutine's ReadMessage fails: it offers the IP to Run.
ReadFails(c) ==
    /\ reader[c] = "reading"
    /\ sock[c] # "open"
    /\ reader' = [reader EXCEPT ![c] = "leaving"]
    /\ UNCHANGED <<clients, sock, stalled, run, mu, call, target, writing, broadcast>>

\* The peer disconnects, stops reading, or reads again.
PeerLeaves(c) ==
    /\ sock[c] = "open"
    /\ sock' = [sock EXCEPT ![c] = "gone"]
    /\ UNCHANGED <<clients, stalled, reader, run, mu, call, target, writing, broadcast>>

PeerStalls(c) ==
    /\ sock[c] = "open" /\ c \notin stalled
    /\ stalled' = stalled \cup {c}
    /\ UNCHANGED <<clients, sock, reader, run, mu, call, target, writing, broadcast>>

PeerReads(c) ==
    /\ c \in stalled
    /\ stalled' = stalled \ {c}
    /\ UNCHANGED <<clients, sock, reader, run, mu, call, target, writing, broadcast>>

-----------------------------------------------------------------------------
(* Run *)

\* A rendezvous on one of the three channels.  The other side goes on at once,
\* before Run has taken the mutex.
ReceiveRegister(c) ==
    /\ run = Select /\ reader[c] = "registering"
    /\ run' = <<"register", c>>
    /\ reader' = [reader EXCEPT ![c] = "reading"]
    /\ UNCHANGED <<clients, sock, stalled, mu, call, target, writing, broadcast>>

ReceiveUnregister(c) ==
    /\ run = Select /\ reader[c] = "leaving"
    /\ run' = <<"unregister", IpOf[c]>>
    /\ reader' = [reader EXCEPT ![c] = "done"]
    /\ UNCHANGED <<clients, sock, stalled, mu, call, target, writing, broadcast>>

\* Mutant: the IP is stored in place of the connection.
RegisterSwapped ==
    /\ run[1] = "register" /\ mu = None
    /\ clients' = [clients EXCEPT ![IpOf[run[2]]] = IpOf[run[2]]]
    /\ run' = Select
    /\ UNCHANGED <<sock, stalled, reader, mu, call, target, writing, broadcast>>

\* Mutant: the registration of one request is entered under the IP of another.
RegisterElsewhere ==
    /\ run[1] = "register" /\ mu = None
    /\ \E ip \in IP : clients' = [clients EXCEPT ![ip] = run[2]]
    /\ run' = Select
    /\ UNCHANGED <<sock, stalled, reader, mu, call, target, writing, broadcast>>

\* The connection replaces the one registered under its IP, which stays open.
Register ==
    /\ run[1] = "register" /\ mu = None
    /\ clients' = [clients EXCEPT ![IpOf[run[2]]] = run[2]]
    /\ run' = Select
    /\ UNCHANGED <<sock, stalled, reader, mu, call, target, writing, broadcast>>

\* Mutant: all connections are closed.
UnregisterAll ==
    /\ run[1] = "unregister" /\ mu = None
    /\ sock' = [c \in Conn |-> IF \E ip \in IP : c = clients[ip] THEN "closed" ELSE sock[c]]
    /\ clients' = [clients EXCEPT ![run[2]] = None]
    /\ run' = Select
    /\ UNCHANGED <<stalled, reader, mu, call, target, writing, broadcast>>

\* Mutant: the connection is closed but stays in the map.
UnregisterKeeps ==
    /\ run[1] = "unregister" /\ mu = None
    /\ sock' = [c \in Conn |-> IF c = clients[run[2]] THEN "closed" ELSE sock[c]]
    /\ run' = Select
    /\ UNCHANGED <<clients, stalled, reader, mu, call, target, writing, broadcast>>

\* Whatever is registered under the IP is closed and forgotten.
Unregister ==
    /\ run[1] = "unregister" /\ mu = None
    /\ sock' = [c \in Conn |-> IF c = clients[run[2]] THEN "closed" ELSE sock[c]]
    /\ clients' = [clients EXCEPT ![run[2]] = None]
    /\ run' = Select
    /\ UNCHANGED <<stalled, reader, mu, call, target, writing, broadcast>>

\* A write returns when the message is buffered or the connection is dead.
WriteReturns(c) == c \notin stalled \/ sock[c] # "open"

\* Send hands a message to Run, which writes it to all connections in turn.
Send ==
    /\ broadcast = "idle"
    /\ broadcast' = "sending"
    /\ UNCHANGED <<clients, sock, stalled, reader, run, mu, call, target, writing>>

ReceiveBroadcast ==
    /\ run = Select /\ broadcast = "sending"
    /\ broadcast' = "done"
    /\ run' = Message
    /\ UNCHANGED <<clients, sock, stalled, reader, mu, call, target, writing>>

BeginBroadcast ==
    /\ run = Message /\ mu = None
    /\ run' = <<"broadcast", {clients[ip] : ip \in IP} \ {None}>>
    /\ mu' = "run"
    /\ UNCHANGED <<clients, sock, stalled, reader, call, target, writing, broadcast>>

WriteBroadcast ==
    /\ run[1] = "broadcast" /\ run[2] # {}
    /\ \E c \in run[2] : WriteReturns(c) /\ run' = <<"broadcast", run[2] \ {c}>>
    /\ UNCHANGED <<clients, sock, stalled, reader, mu, call, target, writing, broadcast>>

\* Mutant: the mutex is not released.
EndBroadcastLocked ==
    /\ run = <<"broadcast", {}>>
    /\ run' = Select
    /\ UNCHANGED <<clients, sock, stalled, reader, mu, call, target, writing, broadcast>>

EndBroadcast ==
    /\ run = <<"broadcast", {}>>
    /\ run' = Select
    /\ mu' = None
    /\ UNCHANGED <<clients, sock, stalled, reader, call, target, writing, broadcast>>

Run ==
    \/ \E c \in Conn : ReceiveRegister(c) \/ ReceiveUnregister(c)
    \/ Register \/ Unregister
    \/ ReceiveBroadcast \/ BeginBroadcast \/ WriteBroadcast \/ EndBroadcast

-----------------------------------------------------------------------------
(* SendToIP *)

CallSendToIP(s) ==
    /\ call[s] = "idle"
    /\ call' = [call EXCEPT ![s] = "locking"]
    /\ UNCHANGED <<clients, sock, stalled, reader, run, mu, target, writing, broadcast>>

\* Nobody is registered under the IP: the message is dropped.
DropMessage(s) ==
    /\ call[s] = "locking" /\ mu = None
    /\ clients[target[s]] = None
    /\ call' = [call EXCEPT ![s] = "done"]
    /\ UNCHANGED <<clients, sock, stalled, reader, run, mu, target, writing, broadcast>>

\* Mutant: SendToIP does not take the mutex.
BeginWriteUnlocked(s) ==
    /\ call[s] = "locking"
    /\ clients[target[s]] # None
    /\ call' = [call EXCEPT ![s] = "writing"]
    /\ writing' = [writing EXCEPT ![s] = clients[target[s]]]
    /\ UNCHANGED <<clients, sock, stalled, reader, run, mu, target, broadcast>>

BeginWrite(s) ==
    /\ call[s] = "locking" /\ mu = None
    /\ clients[target[s]] # None
    /\ call' = [call EXCEPT ![s] = "writing"]
    /\ writing' = [writing EXCEPT ![s] = clients[target[s]]]
    /\ mu' = s
    /\ UNCHANGED <<clients, sock, stalled, reader, run, target, broadcast>>

EndWrite(s) ==
    /\ call[s] = "writing"
    /\ WriteReturns(writing[s])
    /\ call' = [call EXCEPT ![s] = "done"]
    /\ writing' = [writing EXCEPT ![s] = None]
    /\ mu' = None
    /\ UNCHANGED <<clients, sock, stalled, reader, run, target, broadcast>>

SendToIP(s) == DropMessage(s) \/ BeginWrite(s) \/ EndWrite(s)

-----------------------------------------------------------------------------
HubNext ==
    \/ \E c \in Conn : HandleWebSocket(c) \/ ReadFails(c)
    \/ \E c \in Conn : PeerLeaves(c) \/ PeerStalls(c) \/ PeerReads(c)
    \/ Run
    \/ Send
    \/ \E s \in Sender : CallSendToIP(s) \/ SendToIP(s)

HubSpec == HubInit /\ [][HubNext]_hubVars

\* Goroutines that can go on do.  Nothing is assumed of the peers.
HubFairness ==
    /\ WF_hubVars(Run)
    /\ \A c \in Conn : WF_hubVars(ReadFails(c))
    /\ \A s \in Sender : WF_hubVars(SendToIP(s))

HubFairSpec == HubSpec /\ HubFairness

-----------------------------------------------------------------------------
(* Properties *)

\* The goroutines that write to a connection now.
Writers(c) ==
    {s \in Sender : call[s] = "writing" /\ writing[s] = c}
      \cup {x \in {"run"} : run[1] = "broadcast" /\ c \in run[2]}

\* The WebSocket library allows one writer per connection at a time: Run and
\* the callers of SendToIP never write to the same connection together, and
\* the map is not changed under a writer's feet.
OneWriter ==
    \A c \in Conn : /\ Cardinality(Writers(c)) <= 1
                    /\ Writers(c) # {} => clients[IpOf[c]] = c

\* A message for an IP never reaches a connection of another IP, however
\* registrations, disconnects and sends interleave.
RightRecipient ==
    \A s \in Sender : call[s] = "writing" => IpOf[writing[s]] = target[s]

\* The hub closes a connection only when a connection of the same IP was lost
\* before (not necessarily that one: see the README): the clients behind other
\* IPs are not disturbed.
ClosedOnlyAfterLoss ==
    [][\A c \in Conn : sock[c] = "open" /\ sock'[c] = "closed" =>
         \E d \in Conn : IpOf[d] = IpOf[c] /\ reader[d] = "done" /\ sock[d] # "open"]_hubVars

Unstalled == \A c \in Conn : c \notin stalled \/ sock[c] # "open"

\* Unless a peer stalls the mutex for ever: a lost connection disappears from
\* the map and its reader goroutine ends.
LostIsForgotten ==
    <>[]Unstalled =>
        \A c \in Conn : (sock[c] = "gone" /\ reader[c] # "none") ~>
                        (reader[c] = "done" /\ c \notin {clients[ip] : ip \in IP})

\* Unless a peer stalls the mutex for ever, every SendToIP returns: the payment
\* callback and the queue workers, which call it, are not held up.
SendReturns ==
    <>[]Unstalled => \A s \in Sender : call[s] = "locking" ~> call[s] = "done"

\* hub.go: "Hub manages WebSocket connections, each identified by IP".  An
\* unregister names an IP, so the disconnect of one connection must end that
\* connection and no other: the hub never closes one whose peer is still there.
DisconnectEndsItsOwn ==
    [][\A c \in Conn : sock[c] = "open" => sock'[c] # "closed"]_hubVars
=============================================================================
