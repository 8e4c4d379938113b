----------------------------- MODULE DevicePool -----------------------------
(***************************************************************************)
(* The connection pools of mikrotik/manager.go, for one device ID.  The    *)
(* manager maps the ID to its current pool under the lock mu; a pool is a  *)
(* buffered channel of PoolSize RouterOS clients.  Queue workers get a     *)
(* reference to the pool (GetDevice) and run commands through Execute,     *)
(* holding no lock, while the pool may be removed or replaced.             *)
(***************************************************************************)
EXTENDS Naturals, FiniteSets

CONSTANTS
    Worker,     \* goroutines that call GetDevice and Execute
    Pool,       \* pools AddDevice may create, one after the other
    MaxDials,   \* bound: connections that may be dialled
    PoolSize,   \* capacity of a pool's channel
    None        \* no pool, no client

ASSUME PoolAssumption ==
    /\ IsFiniteSet(Worker)
    /\ PoolSize \in Nat \ {0}
    /\ MaxDials \in Nat
    /\ None \notin Pool \cup (1 .. MaxDials)

Client == 1 .. MaxDials

VARIABLES
    device,     \* the entry of the manager's map for the device
    created,    \* pools that were created
    removed,    \* pools that RemoveDevice has closed and deleted
    users,      \* per pool: how many workers had it when RemoveDevice began (history)
    conn,       \* per client: state of its connection
    clients,    \* per pool: the clients in its channel
    pc,         \* per worker: progress of GetDevice and Execute
    ref,        \* per worker: the pool it works with
    held,       \* per worker: the client it works with
    closing     \* the Close in progress: pool, receives left, delete afterwards

poolVars == <<device, created, removed, users, conn, clients, pc, ref, held, closing>>

NotClosing == [pool |-> None, left |-> 0, delete |-> FALSE]

PoolTypeOK ==
    /\ device \in Pool \cup {None}
    /\ created \in SUBSET Pool
    /\ removed \in SUBSET created
    /\ users \in [Pool -> Nat]
    /\ conn \in [Client -> {"none", "open", "closed"}]
    /\ clients \in [Pool -> SUBSET Client]
    /\ pc \in [Worker -> {"idle", "ready", "get", "dial", "run"}]
    /\ ref \in [Worker -> Pool \cup {None}]
    /\ held \in [Worker -> Client \cup {None}]
    /\ closing \in [pool : Pool \cup {None}, left : 0 .. PoolSize, delete : BOOLEAN]

PoolInit ==
    /\ device = None
    /\ created = {}
    /\ removed = {}
    /\ users = [p \in Pool |-> 0]
    /\ conn = [c \in Client |-> "none"]
    /\ clients = [p \in Pool |-> {}]
    /\ pc = [w \in Worker |-> "idle"]
    /\ ref = [w \in Worker |-> None]
    /\ held = [w \in Worker |-> None]
    /\ closing = NotClosing

-----------------------------------------------------------------------------
\* routeros.Dial: the next n connections.
Dialled == Cardinality({c \in Client : conn[c] # "none"})
CanDial(n) == Dialled + n <= MaxDials
Dial(n) == Dialled + 1 .. Dialled + n

\* RemoveDevice and Close hold mu while they empty a pool.
Locked == closing # NotClosing

\* AddDevice: newDevicePool dials PoolSize connections, then the pool takes
\* the place of whatever the map holds for the device.
AddDevice(p) ==
    /\ p \notin created /\ ~Locked
    /\ CanDial(PoolSize)
    /\ conn' = [c \in Client |-> IF c \in Dial(PoolSize) THEN "open" ELSE conn[c]]
    /\ clients' = [clients EXCEPT ![p] = Dial(PoolSize)]
    /\ created' = created \cup {p}
    /\ device' = p
    /\ UNCHANGED <<removed, users, pc, ref, held, closing>>

\* newDevicePool fails at a later dial and closes the connections it has made.
AddDeviceFails ==
    /\ \E n \in 1 .. PoolSize - 1 :
         /\ CanDial(n)
         /\ conn' = [c \in Client |-> IF c \in Dial(n) THEN "closed" ELSE conn[c]]
    /\ UNCHANGED <<device, created, removed, users, clients, pc, ref, held, closing>>

\* Mutant: the pool is not closed.
RemoveDeviceOnly ==
    /\ device # None /\ ~Locked
    /\ device' = None
    /\ removed' = removed \cup {device}
    /\ users' = [users EXCEPT ![device] = Cardinality({w \in Worker : ref[w] = device})]
    /\ UNCHANGED <<created, conn, clients, pc, ref, held, closing>>

\* RemoveDevice, and Close (which leaves the pool in the map).
RemoveDevice ==
    /\ device # None /\ ~Locked
    /\ closing' = [pool |-> device, left |-> PoolSize, delete |-> TRUE]
    /\ users' = [users EXCEPT ![device] = Cardinality({w \in Worker : ref[w] = device})]
    /\ UNCHANGED <<device, created, removed, conn, clients, pc, ref, held>>

CloseManager ==
    /\ device # None /\ ~Locked
    /\ closing' = [pool |-> device, left |-> PoolSize, delete |-> FALSE]
    /\ UNCHANGED <<device, created, removed, users, conn, clients, pc, ref, held>>

\* Mutant: the loop does not stop at the capacity.
CloseUncounted ==
    /\ Locked
    /\ \E c \in clients[closing.pool] :
         /\ clients' = [clients EXCEPT ![closing.pool] = @ \ {c}]
         /\ conn' = [conn EXCEPT ![c] = "closed"]
    /\ closing' = [closing EXCEPT !.left = @ - 1]
    /\ UNCHANGED <<device, created, removed, users, pc, ref, held>>

\* Mutant: the pool is closed without taking its clients out of the channel.
CloseInPlace ==
    /\ closing.left > 0
    /\ \E c \in clients[closing.pool] : conn' = [conn EXCEPT ![c] = "closed"]
    /\ closing' = [closing EXCEPT !.left = @ - 1]
    /\ UNCHANGED <<device, created, removed, users, clients, pc, ref, held>>

\* The loop of DevicePool.Close: a client is received and closed ...
CloseOne ==
    /\ closing.left > 0
    /\ \E c \in clients[closing.pool] :
         /\ clients' = [clients EXCEPT ![closing.pool] = @ \ {c}]
         /\ conn' = [conn EXCEPT ![c] = "closed"]
    /\ closing' = [closing EXCEPT !.left = @ - 1]
    /\ UNCHANGED <<device, created, removed, users, pc, ref, held>>

\* ... until the channel is empty or its capacity is reached.
CloseEnds ==
    /\ Locked
    /\ closing.left = 0 \/ clients[closing.pool] = {}
    /\ IF closing.delete
       THEN device' = None /\ removed' = removed \cup {closing.pool}
       ELSE UNCHANGED <<device, removed>>
    /\ closing' = NotClosing
    /\ UNCHANGED <<created, users, conn, clients, pc, ref, held>>

ClosePool == CloseOne \/ CloseEnds

-----------------------------------------------------------------------------
\* GetDevice; without a pool the caller gets an error and nothing changes.
GetDevice(w) ==
    /\ pc[w] = "idle" /\ ~Locked
    /\ device # None
    /\ ref' = [ref EXCEPT ![w] = device]
    /\ pc' = [pc EXCEPT ![w] = "ready"]
    /\ UNCHANGED <<device, created, removed, users, conn, clients, held, closing>>

\* The caller runs one command after another on the pool it was given
\* (LoginHotspotDeviceByAddress up to three), then drops it.
StartExecute(w) ==
    /\ pc[w] = "ready"
    /\ pc' = [pc EXCEPT ![w] = "get"]
    /\ UNCHANGED <<device, created, removed, users, conn, clients, ref, held, closing>>

DropPool(w) ==
    /\ pc[w] = "ready"
    /\ pc' = [pc EXCEPT ![w] = "idle"]
    /\ ref' = [ref EXCEPT ![w] = None]
    /\ UNCHANGED <<device, created, removed, users, conn, clients, held, closing>>

\* GetClient receives a client from the channel ...
ReceiveClient(w) ==
    /\ pc[w] = "get"
    /\ \E c \in clients[ref[w]] :
         /\ clients' = [clients EXCEPT ![ref[w]] = @ \ {c}]
         /\ held' = [held EXCEPT ![w] = c]
    /\ pc' = [pc EXCEPT ![w] = "run"]
    /\ UNCHANGED <<device, created, removed, users, conn, ref, closing>>

\* ... or waits five seconds without one ...
WaitEnds(w) ==
    /\ pc[w] = "get"
    /\ clients[ref[w]] = {}
    /\ pc' = [pc EXCEPT ![w] = "dial"]
    /\ UNCHANGED <<device, created, removed, users, conn, clients, ref, held, closing>>

\* ... and dials one more, whatever has come back into the channel since ...
DialClient(w) ==
    /\ pc[w] = "dial"
    /\ CanDial(1)
    /\ \E c \in Dial(1) : /\ conn' = [conn EXCEPT ![c] = "open"]
                          /\ held' = [held EXCEPT ![w] = c]
    /\ pc' = [pc EXCEPT ![w] = "run"]
    /\ UNCHANGED <<device, created, removed, users, clients, ref, closing>>

\* ... or gives up: Execute returns "failed to get client from pool".
DialFails(w) ==
    /\ pc[w] = "dial"
    /\ pc' = [pc EXCEPT ![w] = "ready"]
    /\ UNCHANGED <<device, created, removed, users, conn, clients, ref, held, closing>>

\* RunArgs returns an answer or an error, and the deferred ReturnClient puts the
\* client back into the channel, or closes it if the channel is full.  It does
\* so after an error too, even if the connection is broken.
ReturnClient(w) ==
    /\ pc[w] = "run"
    /\ \/ /\ Cardinality(clients[ref[w]]) < PoolSize
          /\ clients' = [clients EXCEPT ![ref[w]] = @ \cup {held[w]}]
          /\ UNCHANGED conn
       \/ /\ Cardinality(clients[ref[w]]) >= PoolSize
          /\ conn' = [conn EXCEPT ![held[w]] = "closed"]
          /\ UNCHANGED clients
    /\ pc' = [pc EXCEPT ![w] = "ready"]
    /\ held' = [held EXCEPT ![w] = None]
    /\ UNCHANGED <<device, created, removed, users, ref, closing>>

\* Mutant: GetClient waits for a client for ever.
GetClientBlocking(w) == ReceiveClient(w)

GetClient(w) == ReceiveClient(w) \/ WaitEnds(w) \/ DialClient(w) \/ DialFails(w)
Execute(w) == GetClient(w) \/ ReturnClient(w)

-----------------------------------------------------------------------------
PoolNext ==
    \/ \E p \in Pool : AddDevice(p)
    \/ AddDeviceFails
    \/ RemoveDevice \/ CloseManager \/ ClosePool
    \/ \E w \in Worker : GetDevice(w) \/ StartExecute(w) \/ Execute(w) \/ DropPool(w)

PoolSpec == PoolInit /\ [][PoolNext]_poolVars

\* Workers and the closing loop are scheduled, and the router answers a
\* command or its connection breaks.
PoolFairness ==
    /\ WF_poolVars(ClosePool)
    /\ \A w \in Worker : WF_poolVars(Execute(w))

PoolFairSpec == PoolSpec /\ PoolFairness

-----------------------------------------------------------------------------
(* Properties *)

\* Where a client is: in the channel of a pool or in the hands of a worker.
Places(c) == {p \in Pool : c \in clients[p]} \cup {w \in Worker : held[w] = c}

\* No two commands run on one connection at a time, and no command runs on,
\* and no pool hands out, a connection that ReturnClient, RemoveDevice or Close
\* has closed: an open connection is in exactly one place, a closed one nowhere.
OneOwner ==
    \A c \in Client : Cardinality(Places(c)) = IF conn[c] = "open" THEN 1 ELSE 0

\* The clients of a pool that are not closed.
Clients(p) == clients[p] \cup {held[w] : w \in {v \in Worker : ref[v] = p /\ held[v] # None}}

\* What RemoveDevice leaves open is bounded by the use that was made of the
\* pool when it began: a pool nobody works with is closed to the last
\* connection, and each worker that has it accounts for one more at most,
\* whatever it returns or dials during and after the removal.
LeakBounded ==
    \A p \in removed : Cardinality(Clients(p)) <= users[p]

\* Every Execute comes to an end, whatever is removed or replaced meanwhile.
ExecuteReturns ==
    \A w \in Worker : pc[w] = "get" ~> pc[w] = "ready"
=============================================================================
