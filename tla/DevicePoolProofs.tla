-------------------------- MODULE DevicePoolProofs --------------------------
(***************************************************************************)
(* Safety of the connection pools, for any number of workers, pools and    *)
(* connections and any capacity.                                           *)
(***************************************************************************)
EXTENDS DevicePool, FiniteSetTheorems, TLAPS

\* Connections are dialled in order: clients 1 .. n so far.
DialInv ==
    \E n \in 0 .. MaxDials : \A c \in Client : conn[c] # "none" <=> c <= n

\* A client in a channel, or held, is open and nowhere else; an open one is somewhere.
OwnerInv ==
    /\ \A p \in Pool : \A c \in clients[p] :
         /\ conn[c] = "open"
         /\ \A q \in Pool : c \in clients[q] => q = p
         /\ \A w \in Worker : held[w] # c
    /\ \A w \in Worker : held[w] # None =>
         /\ conn[held[w]] = "open"
         /\ \A v \in Worker : held[v] = held[w] => v = w
    /\ \A c \in Client : conn[c] = "open" =>
         (\E p \in Pool : c \in clients[p]) \/ (\E w \in Worker : held[w] = c)

\* A worker has a pool from GetDevice on and a client while a command runs.
WorkerInv ==
    \A w \in Worker :
        /\ pc[w] = "idle" <=> ref[w] = None
        /\ pc[w] = "run" <=> held[w] # None

\* The map holds a pool that was not removed, the one being closed if any is.
MapInv ==
    /\ device \in (created \ removed) \cup {None}
    /\ \A w \in Worker : ref[w] # None => ref[w] \in created
    /\ Locked => closing.pool = device /\ device # None
    /\ \A p \in Pool \ created : clients[p] = {}

SizeInv == \A p \in Pool : Cardinality(clients[p]) <= PoolSize

Using(p, rf) == {w \in Worker : rf[w] = p}

\* The workers of a pool that have a client of it, or are about to dial one.
Busy(p, rf, at) == {w \in Using(p, rf) : at[w] \in {"dial", "run"}}

\* The clients in the channel and those the workers have or dial are no more than
\* the receives left and the workers there were when the removal began.
LeakOK(chan, busy, using, left, n) ==
    Cardinality(chan) + Cardinality(busy) <= left + n /\ Cardinality(using) <= n

LeakInv ==
    /\ \A p \in removed : LeakOK(clients[p], Busy(p, ref, pc), Using(p, ref), 0, users[p])
    /\ closing.delete => LET p == closing.pool IN
         LeakOK(clients[p], Busy(p, ref, pc), Using(p, ref), closing.left, users[p])

\* The inductive invariant.
Inv == PoolTypeOK /\ DialInv /\ OwnerInv /\ WorkerInv /\ MapInv /\ SizeInv /\ LeakInv

-----------------------------------------------------------------------------
(* Finite sets *)

LEMMA ClientsFinite ==
    ASSUME NEW S \in SUBSET Client
    PROVE  IsFiniteSet(S) /\ Cardinality(S) \in Nat
<1>1. IsFiniteSet(Client)
  BY FS_Interval, PoolAssumption DEF Client
<1> QED
  BY <1>1, FS_Subset, FS_CardinalityType

LEMMA WorkersFinite ==
    ASSUME NEW S \in SUBSET Worker
    PROVE  IsFiniteSet(S) /\ Cardinality(S) \in Nat
BY FS_Subset, FS_CardinalityType, PoolAssumption

LEMMA BusyUsing ==
    ASSUME NEW p, NEW rf, NEW at
    PROVE  /\ Using(p, rf) \in SUBSET Worker /\ Busy(p, rf, at) \in SUBSET Worker
           /\ Busy(p, rf, at) \in SUBSET Using(p, rf)
           /\ Cardinality(Using(p, rf)) \in Nat /\ Cardinality(Busy(p, rf, at)) \in Nat
           /\ Cardinality(Busy(p, rf, at)) <= Cardinality(Using(p, rf))
<1>1. /\ Using(p, rf) \in SUBSET Worker /\ Busy(p, rf, at) \in SUBSET Worker
      /\ Busy(p, rf, at) \in SUBSET Using(p, rf)
  BY DEF Using, Busy
<1> QED
  BY <1>1, WorkersFinite, FS_Subset

\* The number of the next connection to be dialled
LEMMA DialFacts ==
    ASSUME PoolTypeOK, DialInv
    PROVE  /\ Dialled \in 0 .. MaxDials
           /\ \A c \in Client : conn[c] # "none" <=> c <= Dialled
<1>1. PICK n \in 0 .. MaxDials : \A c \in Client : conn[c] # "none" <=> c <= n
  BY DEF DialInv
<1>2. {c \in Client : conn[c] # "none"} = 1 .. n
  BY <1>1, PoolAssumption DEF Client
<1>3. Cardinality(1 .. n) = n
  BY FS_Interval, PoolAssumption
<1> QED
  BY <1>1, <1>2, <1>3 DEF Dialled

\* n more connections are dialled and are, for now, in the state st.
LEMMA DialStep ==
    ASSUME PoolTypeOK, DialInv, NEW n \in Nat, CanDial(n), NEW st \in {"open", "closed"},
           conn' = [c \in Client |-> IF c \in Dial(n) THEN st ELSE conn[c]]
    PROVE  /\ Dial(n) \in SUBSET Client /\ Cardinality(Dial(n)) = n
           /\ \A c \in Dial(n) : conn[c] = "none"
           /\ conn' \in [Client -> {"none", "open", "closed"}] /\ DialInv'
<1>1. /\ Dialled \in 0 .. MaxDials /\ Dialled + n <= MaxDials
      /\ \A c \in Client : conn[c] # "none" <=> c <= Dialled
  BY DialFacts DEF CanDial
<1>2. Dial(n) \in SUBSET Client /\ \A c \in Client : c \in Dial(n) <=> Dialled < c /\ c <= Dialled + n
  BY <1>1, PoolAssumption DEF Dial, Client
<1>3. Cardinality(Dial(n)) = n
  <2> DEFINE a == Dialled + 1
             b == Dialled + n
  <2>1. a \in Int /\ b \in Int /\ (IF a > b THEN 0 ELSE b - a + 1) = n
    BY <1>1, PoolAssumption
  <2> HIDE DEF a, b
  <2>2. Cardinality(a .. b) = n
    BY <2>1, FS_Interval
  <2> QED
    BY <2>2 DEF a, b, Dial
<1>4. \A c \in Dial(n) : conn[c] = "none"
  BY <1>1, <1>2, PoolAssumption DEF Client
<1>5. conn' \in [Client -> {"none", "open", "closed"}]
  BY DEF PoolTypeOK
<1>6. \A c \in Client : conn'[c] # "none" <=> c <= Dialled + n
  <2> TAKE c \in Client
  <2>1. c \in Nat
    BY PoolAssumption DEF Client
  <2>2. conn'[c] = IF c \in Dial(n) THEN st ELSE conn[c]
    OBVIOUS
  <2> QED
    BY <1>1, <1>2, <2>1, <2>2, PoolAssumption
<1>7. DialInv'
  <2> DEFINE m == Dialled + n
  <2>1. m \in 0 .. MaxDials
    BY <1>1, PoolAssumption
  <2>2. \A c \in Client : conn'[c] # "none" <=> c <= m
    BY <1>6
  <2> HIDE DEF m
  <2> QED
    BY <2>1, <2>2 DEF DialInv, Client
<1> QED
  BY <1>2, <1>3, <1>4, <1>5, <1>7

-----------------------------------------------------------------------------
(* The account of a removal *)

\* It is kept of pools only.
LEMMA ClosingPool ==
    ASSUME PoolTypeOK, MapInv, Locked
    PROVE  closing.pool \in Pool /\ closing.pool = device /\ device \notin removed
BY DEF PoolTypeOK, MapInv

LEMMA DeleteLocked == ASSUME closing.delete = TRUE PROVE Locked
BY DEF Locked, NotClosing

\* A step that lets no pool's account grow keeps them all.
LEMMA LeakStep ==
    ASSUME Inv, UNCHANGED <<removed, users, closing>>,
           ASSUME NEW p \in Pool, NEW left \in Nat, NEW n \in Nat,
                  LeakOK(clients[p], Busy(p, ref, pc), Using(p, ref), left, n),
                  p \in removed \/ Locked
           PROVE  LeakOK(clients'[p], Busy(p, ref', pc'), Using(p, ref'), left, n)
    PROVE  LeakInv'
<1>1. /\ removed \in SUBSET Pool /\ users \in [Pool -> Nat] /\ closing.left \in Nat
      /\ closing.delete \in BOOLEAN
  BY DEF Inv, PoolTypeOK
<1>2. ASSUME NEW p \in removed'
      PROVE  LeakOK(clients'[p], Busy(p, ref', pc'), Using(p, ref'), 0, users'[p])
  <2>1. p \in Pool /\ users[p] \in Nat /\ p \in removed /\ users'[p] = users[p]
    BY <1>1
  <2>2. LeakOK(clients[p], Busy(p, ref, pc), Using(p, ref), 0, users[p])
    BY <2>1 DEF Inv, LeakInv
  <2> QED
    BY <2>1, <2>2
<1>3. ASSUME closing'.delete, NEW p, p = closing.pool
      PROVE  LeakOK(clients'[p], Busy(p, ref', pc'), Using(p, ref'), closing.left, users'[p])
  <2>1. Locked
    BY <1>1, <1>3, DeleteLocked
  <2>2. p \in Pool
    BY <1>3, <2>1, ClosingPool DEF Inv
  <2>3. LeakOK(clients[p], Busy(p, ref, pc), Using(p, ref), closing.left, users[p])
    BY <1>3 DEF Inv, LeakInv
  <2> QED
    BY <1>1, <2>1, <2>2, <2>3
<1> QED
  BY <1>2, <1>3 DEF LeakInv

-----------------------------------------------------------------------------
(* The manager's actions *)

LEMMA AddDeviceInv ==
    ASSUME Inv, NEW p \in Pool, AddDevice(p)
    PROVE  Inv'
<1> USE DEF AddDevice
<1> DEFINE new == Dial(PoolSize)
<1>1. /\ new \in SUBSET Client /\ Cardinality(new) = PoolSize
      /\ \A c \in new : conn[c] = "none"
      /\ conn' \in [Client -> {"none", "open", "closed"}] /\ DialInv'
  BY DialStep, PoolAssumption DEF Inv
<1>2. /\ clients' = [clients EXCEPT ![p] = new] /\ clients \in [Pool -> SUBSET Client]
      /\ clients[p] = {}
  BY DEF Inv, PoolTypeOK, MapInv
<1>3. \A c \in Client : conn'[c] = IF c \in new THEN "open" ELSE conn[c]
  OBVIOUS
<1>4. held \in [Worker -> Client \cup {None}] /\ None \notin Client
  BY PoolAssumption DEF Inv, PoolTypeOK, Client
<1> HIDE DEF new
<1>5. PoolTypeOK'
  BY <1>1, <1>2 DEF Inv, PoolTypeOK
<1>6. OwnerInv'
  <2>1. ASSUME NEW q \in Pool, NEW c \in clients'[q]
        PROVE  /\ conn'[c] = "open"
               /\ \A s \in Pool : c \in clients'[s] => s = q
               /\ \A w \in Worker : held'[w] # c
    <3>1. CASE q = p
      BY <3>1, <1>1, <1>2, <1>3, <1>4 DEF Inv, OwnerInv
    <3>2. CASE q # p
      <4>1. c \in clients[q] /\ conn[c] = "open" /\ c \notin new
        BY <3>2, <1>1, <1>2 DEF Inv, OwnerInv
      <4> QED
        BY <4>1, <3>2, <1>2, <1>3, <1>4 DEF Inv, OwnerInv
    <3> QED
      BY <3>1, <3>2
  <2>2. ASSUME NEW w \in Worker, held'[w] # None
        PROVE  conn'[held'[w]] = "open" /\ \A v \in Worker : held'[v] = held'[w] => v = w
    BY <2>2, <1>1, <1>3, <1>4 DEF Inv, OwnerInv
  <2>3. ASSUME NEW c \in Client, conn'[c] = "open"
        PROVE  (\E q \in Pool : c \in clients'[q]) \/ (\E w \in Worker : held'[w] = c)
    <3>1. CASE c \in new
      BY <3>1, <1>2
    <3>2. CASE c \notin new
      BY <3>2, <2>3, <1>2, <1>3 DEF Inv, OwnerInv
    <3> QED
      BY <3>1, <3>2
  <2> QED
    BY <2>1, <2>2, <2>3 DEF OwnerInv
<1>7. WorkerInv'
  BY DEF Inv, WorkerInv
<1>8. MapInv'
  <2>1. Locked' <=> Locked
    BY DEF Locked
  <2>2. p \in created' \ removed'
    BY DEF Inv, PoolTypeOK
  <2>3. \A q \in Pool \ created' : clients'[q] = {}
    BY <1>2 DEF Inv, MapInv
  <2>4. \A w \in Worker : ref'[w] # None => ref'[w] \in created'
    BY DEF Inv, MapInv
  <2> QED
    BY <2>1, <2>2, <2>3, <2>4 DEF MapInv
<1>9. SizeInv'
  BY <1>1, <1>2, PoolAssumption DEF Inv, SizeInv
<1>10. LeakInv'
  <2>1. ASSUME NEW q \in Pool, q \in removed \/ Locked PROVE clients'[q] = clients[q]
    BY <2>1, <1>2 DEF Inv, PoolTypeOK
  <2> QED
    BY <2>1, LeakStep
<1> QED
  BY <1>1, <1>5, <1>6, <1>7, <1>8, <1>9, <1>10 DEF Inv

LEMMA AddDeviceFailsInv ==
    ASSUME Inv, AddDeviceFails
    PROVE  Inv'
<1>1. PICK n \in 1 .. PoolSize - 1 :
        CanDial(n) /\ conn' = [c \in Client |-> IF c \in Dial(n) THEN "closed" ELSE conn[c]]
  BY DEF AddDeviceFails
<1>2. n \in Nat
  BY PoolAssumption
<1> DEFINE new == Dial(n)
<1>3. /\ new \in SUBSET Client /\ \A c \in new : conn[c] = "none"
      /\ conn' \in [Client -> {"none", "open", "closed"}] /\ DialInv'
  BY <1>1, <1>2, DialStep DEF Inv
<1>4. \A c \in Client : conn'[c] = IF c \in new THEN "closed" ELSE conn[c]
  BY <1>1
<1> HIDE DEF new
<1>5. UNCHANGED <<device, created, removed, users, clients, pc, ref, held, closing>>
  BY DEF AddDeviceFails
<1>6. \A c \in Client : conn'[c] = "open" <=> conn[c] = "open"
  BY <1>3, <1>4
<1>7. PoolTypeOK'
  BY <1>3, <1>5 DEF Inv, PoolTypeOK
<1>8. OwnerInv'
  BY <1>5, <1>6 DEF Inv, OwnerInv, PoolTypeOK
<1>9. WorkerInv' /\ MapInv' /\ SizeInv' /\ LeakInv'
  BY <1>5 DEF Inv, WorkerInv, MapInv, SizeInv, LeakInv, Locked
<1> QED
  BY <1>3, <1>7, <1>8, <1>9 DEF Inv

\* RemoveDevice and Close take the lock.
LEMMA CloseBeginsInv ==
    ASSUME Inv, RemoveDevice \/ CloseManager
    PROVE  Inv'
<1>0. /\ UNCHANGED <<device, created, removed, conn, clients, pc, ref, held>>
      /\ device # None
  BY DEF RemoveDevice, CloseManager
<1>1. /\ UNCHANGED <<device, created, removed, conn, clients, pc, ref, held>>
      /\ device \in Pool /\ device \notin removed /\ device # None
      /\ closing'.pool = device /\ closing'.left = PoolSize
      /\ closing' \in [pool : Pool \cup {None}, left : 0 .. PoolSize, delete : BOOLEAN]
  <2>1. device \in Pool /\ device \notin removed
    BY <1>0 DEF Inv, MapInv, PoolTypeOK
  <2>2. \E b \in BOOLEAN : closing' = [pool |-> device, left |-> PoolSize, delete |-> b]
    BY DEF RemoveDevice, CloseManager
  <2>3. PoolSize \in 0 .. PoolSize
    BY PoolAssumption
  <2> QED
    BY <1>0, <2>1, <2>2, <2>3
<1>2. /\ users' \in [Pool -> Nat]
      /\ \A p \in removed : users'[p] = users[p]
  <2>1. Cardinality({w \in Worker : ref[w] = device}) \in Nat
    BY BusyUsing DEF Using
  <2>2. \/ users' = users
        \/ users' = [users EXCEPT ![device] = Cardinality({w \in Worker : ref[w] = device})]
    BY DEF RemoveDevice, CloseManager
  <2> QED
    BY <1>1, <2>1, <2>2 DEF Inv, PoolTypeOK
<1>3. PoolTypeOK'
  BY <1>1, <1>2 DEF Inv, PoolTypeOK
<1>4. DialInv' /\ OwnerInv' /\ WorkerInv' /\ SizeInv'
  BY <1>1 DEF Inv, DialInv, OwnerInv, WorkerInv, SizeInv
<1>5. MapInv'
  BY <1>1 DEF Inv, MapInv, PoolTypeOK
<1>6. \A p \in removed' : LeakOK(clients'[p], Busy(p, ref', pc'), Using(p, ref'), 0, users'[p])
  BY <1>1, <1>2 DEF Inv, LeakInv
<1>7. ASSUME closing'.delete, NEW p, p = closing'.pool
      PROVE  LeakOK(clients'[p], Busy(p, ref', pc'), Using(p, ref'), closing'.left, users'[p])
  <2>1. RemoveDevice
    BY <1>7 DEF CloseManager
  <2>2. p = device /\ users'[p] = Cardinality(Using(p, ref))
    BY <1>1, <1>7, <2>1 DEF RemoveDevice, Inv, PoolTypeOK, Using
  <2>3. Cardinality(clients[p]) \in Nat /\ Cardinality(clients[p]) <= PoolSize
    BY <1>1, <2>2, ClientsFinite DEF Inv, PoolTypeOK, SizeInv
  <2>4. /\ Cardinality(Busy(p, ref, pc)) \in Nat /\ Cardinality(Using(p, ref)) \in Nat
        /\ Cardinality(Busy(p, ref, pc)) <= Cardinality(Using(p, ref))
    BY BusyUsing
  <2> QED
    BY <1>1, <2>2, <2>3, <2>4, PoolAssumption DEF LeakOK
<1>8. LeakInv'
  BY <1>6, <1>7 DEF LeakInv
<1> QED
  BY <1>3, <1>4, <1>5, <1>8 DEF Inv

LEMMA CloseOneInv ==
    ASSUME Inv, CloseOne
    PROVE  Inv'
<1> DEFINE p == closing.pool
<1>1. Locked /\ closing.left \in 1 .. PoolSize
  BY PoolAssumption DEF CloseOne, Locked, NotClosing, Inv, PoolTypeOK
<1>2. p \in Pool /\ p = device /\ device \notin removed
  BY <1>1, ClosingPool DEF Inv
<1>3. PICK c \in clients[p] : /\ clients' = [clients EXCEPT ![p] = clients[p] \ {c}]
                              /\ conn' = [conn EXCEPT ![c] = "closed"]
  BY DEF CloseOne
<1>4. /\ UNCHANGED <<device, created, removed, users, pc, ref, held>>
      /\ closing' = [closing EXCEPT !.left = closing.left - 1]
  BY DEF CloseOne
<1>5. /\ clients \in [Pool -> SUBSET Client] /\ c \in Client /\ conn[c] = "open"
      /\ conn \in [Client -> {"none", "open", "closed"}]
      /\ held \in [Worker -> Client \cup {None}] /\ None \notin Client
  BY <1>2, <1>3, PoolAssumption DEF Inv, PoolTypeOK, OwnerInv, Client
<1>6. /\ closing'.pool = p /\ closing'.left = closing.left - 1
      /\ closing'.delete = closing.delete
      /\ closing' \in [pool : Pool \cup {None}, left : 0 .. PoolSize, delete : BOOLEAN]
  BY <1>1, <1>4, PoolAssumption DEF Inv, PoolTypeOK
<1> HIDE DEF p
<1>7. PoolTypeOK'
  BY <1>2, <1>3, <1>4, <1>5, <1>6 DEF Inv, PoolTypeOK
<1>8. DialInv'
  BY <1>3, <1>5 DEF Inv, DialInv
<1>9. OwnerInv'
  <2>1. ASSUME NEW q \in Pool, NEW d \in clients'[q]
        PROVE  /\ conn'[d] = "open"
               /\ \A s \in Pool : d \in clients'[s] => s = q
               /\ \A w \in Worker : held'[w] # d
    <3>1. d \in clients[q] /\ d # c
      BY <1>2, <1>3, <1>5 DEF Inv, OwnerInv
    <3>2. \A s \in Pool : d \in clients'[s] => d \in clients[s]
      BY <1>2, <1>3, <1>5
    <3> QED
      BY <3>1, <3>2, <1>3, <1>4, <1>5 DEF Inv, OwnerInv
  <2>2. ASSUME NEW w \in Worker, held'[w] # None
        PROVE  conn'[held'[w]] = "open" /\ \A v \in Worker : held'[v] = held'[w] => v = w
    <3>1. held[w] # c
      BY <1>2, <1>3 DEF Inv, OwnerInv
    <3> QED
      BY <2>2, <3>1, <1>3, <1>4, <1>5 DEF Inv, OwnerInv
  <2>3. ASSUME NEW d \in Client, conn'[d] = "open"
        PROVE  (\E q \in Pool : d \in clients'[q]) \/ (\E w \in Worker : held'[w] = d)
    <3>1. d # c /\ conn[d] = "open"
      BY <2>3, <1>3, <1>5
    <3>2. \A q \in Pool : d \in clients[q] => d \in clients'[q]
      BY <3>1, <1>2, <1>3, <1>5
    <3> QED
      BY <3>1, <3>2, <1>4 DEF Inv, OwnerInv
  <2> QED
    BY <2>1, <2>2, <2>3 DEF OwnerInv
<1>10. WorkerInv'
  BY <1>4 DEF Inv, WorkerInv
<1>11. MapInv'
  BY <1>1, <1>2, <1>3, <1>4, <1>5, <1>6 DEF Inv, MapInv
<1>12. /\ IsFiniteSet(clients[p]) /\ Cardinality(clients[p]) \in Nat
       /\ Cardinality(clients'[p]) = Cardinality(clients[p]) - 1
       /\ \A q \in Pool : q # p => clients'[q] = clients[q]
  BY <1>2, <1>3, <1>5, ClientsFinite, FS_RemoveElement
<1>13. SizeInv'
  BY <1>12, <1>2, PoolAssumption DEF Inv, SizeInv
<1>14. LeakInv'
  <2>1. \A q \in removed' : LeakOK(clients'[q], Busy(q, ref', pc'), Using(q, ref'), 0, users'[q])
    BY <1>2, <1>4, <1>12 DEF Inv, LeakInv, PoolTypeOK
  <2>2. ASSUME closing'.delete
        PROVE  LeakOK(clients'[p], Busy(p, ref', pc'), Using(p, ref'), closing'.left, users'[p])
    <3>1. LeakOK(clients[p], Busy(p, ref, pc), Using(p, ref), closing.left, users[p])
      BY <2>2, <1>6 DEF Inv, LeakInv, p
    <3>2. Cardinality(Busy(p, ref, pc)) \in Nat /\ users[p] \in Nat
      BY <1>2, BusyUsing DEF Inv, PoolTypeOK
    <3> QED
      BY <1>1, <1>4, <1>6, <1>12, <3>1, <3>2, PoolAssumption DEF LeakOK
  <2> QED
    BY <1>6, <2>1, <2>2 DEF LeakInv
<1> QED
  BY <1>7, <1>8, <1>9, <1>10, <1>11, <1>13, <1>14 DEF Inv

LEMMA CloseEndsInv ==
    ASSUME Inv, CloseEnds
    PROVE  Inv'
<1> DEFINE p == closing.pool
<1>1. p \in Pool /\ p = device /\ device \in created /\ p \notin removed /\ device # None
  BY ClosingPool DEF CloseEnds, Inv, MapInv
<1>2. UNCHANGED <<created, users, conn, clients, pc, ref, held>> /\ closing' = NotClosing
  BY DEF CloseEnds
<1>3. IF closing.delete THEN device' = None /\ removed' = removed \cup {p}
                        ELSE device' = device /\ removed' = removed
  BY DEF CloseEnds
<1>4. closing' \in [pool : Pool \cup {None}, left : 0 .. PoolSize, delete : BOOLEAN]
  BY <1>2, PoolAssumption DEF NotClosing
<1>5. closing.left = 0 \/ clients[p] = {}
  BY DEF CloseEnds
<1>6. closing.delete => LeakOK(clients[p], Busy(p, ref, pc), Using(p, ref), closing.left, users[p])
  BY DEF Inv, LeakInv
<1> HIDE DEF p
<1>7. PoolTypeOK'
  BY <1>1, <1>2, <1>3, <1>4 DEF Inv, PoolTypeOK
<1>8. DialInv' /\ OwnerInv' /\ WorkerInv' /\ SizeInv'
  BY <1>2 DEF Inv, DialInv, OwnerInv, WorkerInv, SizeInv
<1>9. MapInv'
  <2>1. ~Locked'
    BY <1>2 DEF Locked
  <2>2. device' \in (created' \ removed') \cup {None}
    BY <1>1, <1>2, <1>3 DEF Inv, MapInv
  <2> QED
    BY <2>1, <2>2, <1>2 DEF Inv, MapInv
<1>10. LeakInv'
  <2>1. ASSUME NEW q \in removed'
        PROVE  LeakOK(clients'[q], Busy(q, ref', pc'), Using(q, ref'), 0, users'[q])
    <3>1. CASE q \in removed
      BY <3>1, <1>2 DEF Inv, LeakInv
    <3>2. CASE q \notin removed
      <4>1. q = p /\ LeakOK(clients[p], Busy(p, ref, pc), Using(p, ref), closing.left, users[p])
        BY <3>2, <1>3, <1>6
      <4>2. /\ Cardinality(Busy(p, ref, pc)) \in Nat /\ Cardinality(Using(p, ref)) \in Nat
            /\ Cardinality(Busy(p, ref, pc)) <= Cardinality(Using(p, ref))
            /\ users[p] \in Nat
        BY <1>1, BusyUsing DEF Inv, PoolTypeOK
      <4>3. clients[p] = {} => Cardinality(clients[p]) = 0
        BY FS_EmptySet
      <4> QED
        BY <1>2, <1>5, <4>1, <4>2, <4>3 DEF LeakOK
    <3> QED
      BY <3>1, <3>2
  <2>2. ~closing'.delete
    BY <1>2 DEF NotClosing
  <2> QED
    BY <2>1, <2>2 DEF LeakInv
<1> QED
  BY <1>7, <1>8, <1>9, <1>10 DEF Inv

-----------------------------------------------------------------------------
(* The workers' actions *)

\* A worker's step does not touch the account of a pool it does not work with.
LEMMA OtherPool ==
    ASSUME NEW w \in Worker, NEW p, ref[w] # p, ref'[w] # p,
           \A v \in Worker : v # w => ref'[v] = ref[v] /\ pc'[v] = pc[v]
    PROVE  Using(p, ref') = Using(p, ref) /\ Busy(p, ref', pc') = Busy(p, ref, pc)
BY DEF Using, Busy

LEMMA WorkerTypes ==
    ASSUME Inv, NEW w \in Worker
    PROVE  /\ pc \in [Worker -> {"idle", "ready", "get", "dial", "run"}]
           /\ ref \in [Worker -> Pool \cup {None}]
           /\ held \in [Worker -> Client \cup {None}]
           /\ clients \in [Pool -> SUBSET Client]
           /\ conn \in [Client -> {"none", "open", "closed"}]
           /\ None \notin Client /\ None \notin Pool
           /\ pc[w] # "idle" => ref[w] \in Pool
           /\ pc[w] = "run" => held[w] \in Client
           /\ pc[w] # "run" => held[w] = None
           /\ \A p \in Pool : IsFiniteSet(clients[p]) /\ Cardinality(clients[p]) \in Nat
<1>1. /\ pc \in [Worker -> {"idle", "ready", "get", "dial", "run"}]
      /\ ref \in [Worker -> Pool \cup {None}]
      /\ held \in [Worker -> Client \cup {None}]
      /\ clients \in [Pool -> SUBSET Client]
      /\ conn \in [Client -> {"none", "open", "closed"}]
  BY DEF Inv, PoolTypeOK
<1>2. None \notin Client /\ None \notin Pool
  BY PoolAssumption DEF Client
<1>3. \A p \in Pool : IsFiniteSet(clients[p]) /\ Cardinality(clients[p]) \in Nat
  BY <1>1, ClientsFinite
<1> QED
  BY <1>1, <1>2, <1>3 DEF Inv, WorkerInv

\* Steps that leave the clients where they are
LEMMA MoveInv ==
    ASSUME Inv, NEW w \in Worker, StartExecute(w) \/ WaitEnds(w) \/ DialFails(w)
    PROVE  Inv'
<1>1. UNCHANGED <<device, created, removed, users, conn, clients, ref, held, closing>>
  BY DEF StartExecute, WaitEnds, DialFails
<1>2. PICK x \in {"ready", "get", "dial"} :
        /\ pc' = [pc EXCEPT ![w] = x] /\ pc[w] \in {"ready", "get", "dial"}
        /\ x = "dial" => clients[ref[w]] = {}
  BY DEF StartExecute, WaitEnds, DialFails
<1>3. PoolTypeOK' /\ WorkerInv'
  BY <1>1, <1>2 DEF Inv, PoolTypeOK, WorkerInv
<1>4. DialInv' /\ OwnerInv' /\ SizeInv' /\ MapInv'
  BY <1>1 DEF Inv, DialInv, OwnerInv, SizeInv, MapInv, Locked
<1>5. ASSUME NEW p \in Pool, NEW left \in Nat, NEW n \in Nat,
             LeakOK(clients[p], Busy(p, ref, pc), Using(p, ref), left, n)
      PROVE  LeakOK(clients'[p], Busy(p, ref', pc'), Using(p, ref'), left, n)
  <2>0. /\ Cardinality(Busy(p, ref, pc)) \in Nat /\ Cardinality(Using(p, ref)) \in Nat
        /\ Cardinality(Busy(p, ref', pc')) \in Nat
        /\ Cardinality(Busy(p, ref', pc')) <= Cardinality(Using(p, ref'))
        /\ IsFiniteSet(Busy(p, ref, pc)) /\ Cardinality(clients[p]) \in Nat
    BY BusyUsing, WorkersFinite, WorkerTypes
  <2>1. CASE ref[w] # p
    BY <2>1, <1>1, <1>2, <1>5, OtherPool DEF Inv, PoolTypeOK
  <2>2. CASE ref[w] = p /\ x = "dial"
    <3>1. Cardinality(clients[p]) = 0
      BY <2>2, <1>2, FS_EmptySet
    <3> QED
      BY <1>1, <1>5, <2>0, <3>1 DEF LeakOK
  <2>3. CASE x # "dial"
    <3>1. Busy(p, ref', pc') \in SUBSET Busy(p, ref, pc)
      BY <2>3, <1>1, <1>2 DEF Busy, Using, Inv, PoolTypeOK
    <3>2. Cardinality(Busy(p, ref', pc')) <= Cardinality(Busy(p, ref, pc))
      BY <3>1, <2>0, FS_Subset
    <3> QED
      BY <1>1, <1>5, <2>0, <3>2 DEF LeakOK
  <2> QED
    BY <2>1, <2>2, <2>3
<1>6. LeakInv'
  BY <1>1, <1>5, LeakStep
<1> QED
  BY <1>3, <1>4, <1>6 DEF Inv

LEMMA GetDeviceInv ==
    ASSUME Inv, NEW w \in Worker, GetDevice(w)
    PROVE  Inv'
<1>1. /\ UNCHANGED <<device, created, removed, users, conn, clients, held, closing>>
      /\ ref' = [ref EXCEPT ![w] = device] /\ pc' = [pc EXCEPT ![w] = "ready"]
      /\ pc[w] = "idle" /\ ~Locked /\ device # None
  BY DEF GetDevice
<1>2. device \in Pool /\ device \notin removed /\ ref[w] = None
  BY <1>1 DEF Inv, PoolTypeOK, MapInv, WorkerInv
<1>3. PoolTypeOK' /\ WorkerInv'
  BY <1>1, <1>2 DEF Inv, PoolTypeOK, WorkerInv
<1>4. DialInv' /\ OwnerInv' /\ SizeInv' /\ MapInv'
  BY <1>1 DEF Inv, DialInv, OwnerInv, SizeInv, MapInv, Locked
<1>5. ASSUME NEW p \in Pool, p \in removed \/ Locked
      PROVE  Using(p, ref') = Using(p, ref) /\ Busy(p, ref', pc') = Busy(p, ref, pc)
  <2>1. p # device /\ p # None
    BY <1>1, <1>2, <1>5, PoolAssumption
  <2> QED
    BY <2>1, <1>1, <1>2, OtherPool DEF Inv, PoolTypeOK
<1>6. LeakInv'
  BY <1>1, <1>5, LeakStep
<1> QED
  BY <1>3, <1>4, <1>6 DEF Inv

LEMMA DropPoolInv ==
    ASSUME Inv, NEW w \in Worker, DropPool(w)
    PROVE  Inv'
<1>1. /\ UNCHANGED <<device, created, removed, users, conn, clients, held, closing>>
      /\ ref' = [ref EXCEPT ![w] = None] /\ pc' = [pc EXCEPT ![w] = "idle"]
      /\ pc[w] = "ready"
  BY DEF DropPool
<1>2. PoolTypeOK' /\ WorkerInv'
  BY <1>1 DEF Inv, PoolTypeOK, WorkerInv
<1>3. DialInv' /\ OwnerInv' /\ SizeInv' /\ MapInv'
  BY <1>1 DEF Inv, DialInv, OwnerInv, SizeInv, MapInv, Locked
<1>4. ASSUME NEW p \in Pool, NEW left \in Nat, NEW n \in Nat,
             LeakOK(clients[p], Busy(p, ref, pc), Using(p, ref), left, n)
      PROVE  LeakOK(clients'[p], Busy(p, ref', pc'), Using(p, ref'), left, n)
  <2>1. Using(p, ref') \in SUBSET Using(p, ref) /\ Busy(p, ref', pc') \in SUBSET Busy(p, ref, pc)
    BY <1>1, PoolAssumption DEF Using, Busy, Inv, PoolTypeOK
  <2>2. IsFiniteSet(Using(p, ref)) /\ IsFiniteSet(Busy(p, ref, pc))
    BY BusyUsing, WorkersFinite
  <2>3. /\ Cardinality(Using(p, ref')) <= Cardinality(Using(p, ref))
        /\ Cardinality(Busy(p, ref', pc')) <= Cardinality(Busy(p, ref, pc))
    BY <2>1, <2>2, FS_Subset
  <2>4. /\ Cardinality(Using(p, ref')) \in Nat /\ Cardinality(Using(p, ref)) \in Nat
        /\ Cardinality(Busy(p, ref', pc')) \in Nat /\ Cardinality(Busy(p, ref, pc)) \in Nat
        /\ Cardinality(clients[p]) \in Nat
    BY BusyUsing, WorkerTypes
  <2> QED
    BY <1>1, <1>4, <2>3, <2>4 DEF LeakOK
<1>5. LeakInv'
  BY <1>1, <1>4, LeakStep
<1> QED
  BY <1>2, <1>3, <1>5 DEF Inv

LEMMA ReceiveClientInv ==
    ASSUME Inv, NEW w \in Worker, ReceiveClient(w)
    PROVE  Inv'
<1> DEFINE p == ref[w]
<1>1. /\ UNCHANGED <<device, created, removed, users, conn, ref, closing>>
      /\ pc' = [pc EXCEPT ![w] = "run"] /\ pc[w] = "get"
  BY DEF ReceiveClient
<1>2. PICK c \in clients[p] : /\ clients' = [clients EXCEPT ![p] = clients[p] \ {c}]
                              /\ held' = [held EXCEPT ![w] = c]
  BY DEF ReceiveClient
<1>3. /\ p \in Pool /\ held[w] = None /\ None \notin Client
      /\ pc \in [Worker -> {"idle", "ready", "get", "dial", "run"}]
      /\ ref \in [Worker -> Pool \cup {None}]
      /\ held \in [Worker -> Client \cup {None}] /\ clients \in [Pool -> SUBSET Client]
      /\ \A q \in Pool : IsFiniteSet(clients[q]) /\ Cardinality(clients[q]) \in Nat
  BY <1>1, WorkerTypes
<1> HIDE DEF p
<1>4. c \in Client /\ conn[c] = "open" /\ \A v \in Worker : held[v] # c
  BY <1>2, <1>3 DEF Inv, OwnerInv
<1>5. \A v \in Worker : held'[v] = IF v = w THEN c ELSE held[v]
  BY <1>2, <1>3
<1>6. \A q \in Pool : clients'[q] = IF q = p THEN clients[p] \ {c} ELSE clients[q]
  BY <1>2, <1>3
<1>7. PoolTypeOK'
  BY <1>1, <1>2, <1>3, <1>4 DEF Inv, PoolTypeOK
<1>8. WorkerInv'
  BY <1>1, <1>3, <1>4, <1>5 DEF Inv, WorkerInv
<1>9. OwnerInv'
  <2>1. ASSUME NEW q \in Pool, NEW d \in clients'[q]
        PROVE  /\ conn'[d] = "open"
               /\ \A s \in Pool : d \in clients'[s] => s = q
               /\ \A v \in Worker : held'[v] # d
    <3>1. d \in clients[q] /\ d # c
      BY <1>2, <1>3, <1>6 DEF Inv, OwnerInv
    <3>2. \A s \in Pool : d \in clients'[s] => d \in clients[s]
      BY <1>6
    <3> QED
      BY <3>1, <3>2, <1>1, <1>5 DEF Inv, OwnerInv
  <2>2. ASSUME NEW v \in Worker, held'[v] # None
        PROVE  conn'[held'[v]] = "open" /\ \A u \in Worker : held'[u] = held'[v] => u = v
    BY <2>2, <1>1, <1>4, <1>5 DEF Inv, OwnerInv
  <2>3. ASSUME NEW d \in Client, conn'[d] = "open"
        PROVE  (\E q \in Pool : d \in clients'[q]) \/ (\E v \in Worker : held'[v] = d)
    <3>1. CASE d = c
      BY <3>1, <1>5
    <3>2. CASE d # c
      <4>1. (\E q \in Pool : d \in clients[q]) \/ (\E v \in Worker : held[v] = d)
        BY <2>3, <1>1 DEF Inv, OwnerInv
      <4>2. \A v \in Worker : held[v] = d => held'[v] = d
        BY <1>3, <1>5
      <4>3. \A q \in Pool : d \in clients[q] => d \in clients'[q]
        BY <3>2, <1>6
      <4> QED
        BY <4>1, <4>2, <4>3
    <3> QED
      BY <3>1, <3>2
  <2> QED
    BY <2>1, <2>2, <2>3 DEF OwnerInv
<1>10. DialInv' /\ MapInv'
  BY <1>1, <1>3, <1>6 DEF Inv, DialInv, MapInv, Locked
<1>11. Cardinality(clients'[p]) = Cardinality(clients[p]) - 1
  BY <1>2, <1>3, <1>6, FS_RemoveElement
<1>12. SizeInv'
  BY <1>3, <1>6, <1>11, PoolAssumption DEF Inv, SizeInv
<1>13. ASSUME NEW q \in Pool, NEW left \in Nat, NEW n \in Nat,
              LeakOK(clients[q], Busy(q, ref, pc), Using(q, ref), left, n)
       PROVE  LeakOK(clients'[q], Busy(q, ref', pc'), Using(q, ref'), left, n)
  <2>1. CASE q # p
    BY <2>1, <1>1, <1>3, <1>6, <1>13, OtherPool DEF p
  <2>2. CASE q = p
    <3>1. Busy(p, ref', pc') = Busy(p, ref, pc) \cup {w}
      BY <1>1, <1>3 DEF Busy, Using, p
    <3>2. w \notin Busy(p, ref, pc) /\ IsFiniteSet(Busy(p, ref, pc))
      BY <1>1, BusyUsing, WorkersFinite DEF Busy
    <3>3. Cardinality(Busy(p, ref', pc')) = Cardinality(Busy(p, ref, pc)) + 1
      BY <3>1, <3>2, FS_AddElement
    <3>4. Cardinality(Busy(p, ref, pc)) \in Nat
      BY BusyUsing
    <3> QED
      BY <2>2, <1>1, <1>3, <1>11, <1>13, <3>3, <3>4 DEF LeakOK
  <2> QED
    BY <2>1, <2>2
<1>14. LeakInv'
  BY <1>1, <1>13, LeakStep
<1> QED
  BY <1>7, <1>8, <1>9, <1>10, <1>12, <1>14 DEF Inv

LEMMA DialClientInv ==
    ASSUME Inv, NEW w \in Worker, DialClient(w)
    PROVE  Inv'
<1>1. /\ UNCHANGED <<device, created, removed, users, clients, ref, closing>>
      /\ pc' = [pc EXCEPT ![w] = "run"] /\ pc[w] = "dial" /\ CanDial(1)
  BY DEF DialClient
<1>2. PICK c \in Dial(1) : conn' = [conn EXCEPT ![c] = "open"] /\ held' = [held EXCEPT ![w] = c]
  BY DEF DialClient
<1>3. /\ held[w] = None /\ None \notin Client
      /\ pc \in [Worker -> {"idle", "ready", "get", "dial", "run"}]
      /\ ref \in [Worker -> Pool \cup {None}]
      /\ held \in [Worker -> Client \cup {None}] /\ clients \in [Pool -> SUBSET Client]
      /\ conn \in [Client -> {"none", "open", "closed"}]
  BY <1>1, WorkerTypes
<1>4. Dial(1) = {c}
  BY <1>2, DialFacts, PoolAssumption DEF Dial, Inv
<1>5. c \in Client /\ conn[c] = "none" /\ DialInv'
  <2>1. c = Dialled + 1 /\ Dialled \in 0 .. MaxDials /\ Dialled + 1 <= MaxDials
    BY <1>1, <1>2, DialFacts, PoolAssumption DEF Dial, CanDial, Inv
  <2>2. c \in Client
    BY <2>1, PoolAssumption DEF Client
  <2>3. conn' = [d \in Client |-> IF d \in Dial(1) THEN "open" ELSE conn[d]]
    BY <1>2, <1>3, <1>4
  <2> QED
    BY <1>1, <1>4, <2>2, <2>3, DialStep DEF Inv
<1>6. \A v \in Worker : held'[v] = IF v = w THEN c ELSE held[v]
  BY <1>2, <1>3
<1>7. \A d \in Client : conn'[d] = IF d = c THEN "open" ELSE conn[d]
  BY <1>2, <1>3
<1>8. PoolTypeOK'
  BY <1>1, <1>2, <1>3, <1>5 DEF Inv, PoolTypeOK
<1>9. WorkerInv'
  BY <1>1, <1>3, <1>5, <1>6 DEF Inv, WorkerInv
<1>10. OwnerInv'
  <2>1. ASSUME NEW q \in Pool, NEW d \in clients'[q]
        PROVE  /\ conn'[d] = "open"
               /\ \A s \in Pool : d \in clients'[s] => s = q
               /\ \A v \in Worker : held'[v] # d
    <3>1. d \in Client /\ d # c /\ conn[d] = "open"
      BY <1>1, <1>3, <1>5 DEF Inv, OwnerInv
    <3> QED
      BY <3>1, <1>1, <1>6, <1>7 DEF Inv, OwnerInv
  <2>2. ASSUME NEW v \in Worker, held'[v] # None
        PROVE  conn'[held'[v]] = "open" /\ \A u \in Worker : held'[u] = held'[v] => u = v
    <3>1. \A u \in Worker : held[u] # c
      BY <1>3, <1>5 DEF Inv, OwnerInv
    <3>2. CASE v = w
      BY <3>1, <3>2, <1>5, <1>6, <1>7
    <3>3. CASE v # w
      BY <2>2, <3>1, <3>3, <1>3, <1>6, <1>7 DEF Inv, OwnerInv
    <3> QED
      BY <3>2, <3>3
  <2>3. ASSUME NEW d \in Client, conn'[d] = "open"
        PROVE  (\E q \in Pool : d \in clients'[q]) \/ (\E v \in Worker : held'[v] = d)
    <3>1. CASE d = c
      BY <3>1, <1>6
    <3>2. CASE d # c
      <4>1. (\E q \in Pool : d \in clients[q]) \/ (\E v \in Worker : held[v] = d)
        BY <2>3, <3>2, <1>7 DEF Inv, OwnerInv
      <4>2. \A v \in Worker : held[v] = d => held'[v] = d
        BY <1>3, <1>6
      <4> QED
        BY <4>1, <4>2, <1>1
    <3> QED
      BY <3>1, <3>2
  <2> QED
    BY <2>1, <2>2, <2>3 DEF OwnerInv
<1>11. MapInv' /\ SizeInv'
  BY <1>1 DEF Inv, MapInv, SizeInv, Locked
<1>12. ASSUME NEW q PROVE Busy(q, ref', pc') = Busy(q, ref, pc) /\ Using(q, ref') = Using(q, ref)
  BY <1>1, <1>3 DEF Busy, Using
<1>13. LeakInv'
  BY <1>1, <1>12, LeakStep
<1> QED
  BY <1>5, <1>8, <1>9, <1>10, <1>11, <1>13 DEF Inv

LEMMA ReturnClientInv ==
    ASSUME Inv, NEW w \in Worker, ReturnClient(w)
    PROVE  Inv'
<1> DEFINE p == ref[w]
           c == held[w]
<1>1. /\ UNCHANGED <<device, created, removed, users, ref, closing>>
      /\ pc' = [pc EXCEPT ![w] = "ready"] /\ pc[w] = "run"
      /\ held' = [held EXCEPT ![w] = None]
  BY DEF ReturnClient
<1>2. \/ /\ Cardinality(clients[p]) < PoolSize
         /\ clients' = [clients EXCEPT ![p] = clients[p] \cup {c}] /\ conn' = conn
      \/ conn' = [conn EXCEPT ![c] = "closed"] /\ clients' = clients
  BY DEF ReturnClient
<1>3. /\ p \in Pool /\ c \in Client /\ None \notin Client
      /\ pc \in [Worker -> {"idle", "ready", "get", "dial", "run"}]
      /\ ref \in [Worker -> Pool \cup {None}]
      /\ held \in [Worker -> Client \cup {None}] /\ clients \in [Pool -> SUBSET Client]
      /\ conn \in [Client -> {"none", "open", "closed"}]
      /\ \A q \in Pool : IsFiniteSet(clients[q]) /\ Cardinality(clients[q]) \in Nat
  BY <1>1, WorkerTypes
<1>4. /\ conn[c] = "open" /\ \A q \in Pool : c \notin clients[q]
      /\ \A v \in Worker : held[v] = c => v = w
  BY <1>3 DEF Inv, OwnerInv
<1> HIDE DEF p, c
<1>5. \A v \in Worker : held'[v] = IF v = w THEN None ELSE held[v]
  BY <1>1, <1>3
<1>6. PoolTypeOK'
  BY <1>1, <1>2, <1>3 DEF Inv, PoolTypeOK
<1>7. WorkerInv'
  BY <1>1, <1>3, <1>5 DEF Inv, WorkerInv, p
<1>8. DialInv'
  BY <1>2, <1>3, <1>4 DEF Inv, DialInv
<1>9. /\ Cardinality(Busy(p, ref', pc')) = Cardinality(Busy(p, ref, pc)) - 1
       /\ Cardinality(Busy(p, ref, pc)) \in Nat
  <2>1. Busy(p, ref', pc') = Busy(p, ref, pc) \ {w}
    BY <1>1, <1>3 DEF Busy, Using
  <2>2. w \in Busy(p, ref, pc) /\ IsFiniteSet(Busy(p, ref, pc))
    BY <1>1, BusyUsing, WorkersFinite DEF Busy, Using, p
  <2>3. Cardinality(Busy(p, ref, pc)) \in Nat
    BY BusyUsing
  <2> QED
    BY <2>1, <2>2, <2>3, FS_RemoveElement
<1>10. CASE clients' = [clients EXCEPT ![p] = clients[p] \cup {c}] /\ conn' = conn
           /\ Cardinality(clients[p]) < PoolSize
  <2>0. \A q \in Pool : clients'[q] = IF q = p THEN clients[p] \cup {c} ELSE clients[q]
    BY <1>3, <1>10
  <2>1. OwnerInv'
    <3>1. ASSUME NEW q \in Pool, NEW d \in clients'[q]
          PROVE  /\ conn'[d] = "open"
                 /\ \A s \in Pool : d \in clients'[s] => s = q
                 /\ \A v \in Worker : held'[v] # d
      <4>1. CASE d = c
        <5>1. q = p
          BY <4>1, <2>0, <1>4
        <5>2. \A v \in Worker : held'[v] # c
          BY <1>3, <1>4, <1>5
        <5> QED
          BY <4>1, <5>1, <5>2, <2>0, <1>4, <1>10
      <4>2. CASE d # c
        <5>1. d \in clients[q] /\ d \in Client
          BY <4>2, <2>0, <1>3
        <5>2. \A s \in Pool : d \in clients'[s] => d \in clients[s]
          BY <4>2, <2>0
        <5> QED
          BY <5>1, <5>2, <1>3, <1>5, <1>10 DEF Inv, OwnerInv
      <4> QED
        BY <4>1, <4>2
    <3>2. ASSUME NEW v \in Worker, held'[v] # None
          PROVE  conn'[held'[v]] = "open" /\ \A u \in Worker : held'[u] = held'[v] => u = v
      BY <3>2, <1>5, <1>10 DEF Inv, OwnerInv
    <3>3. ASSUME NEW d \in Client, conn'[d] = "open"
          PROVE  (\E q \in Pool : d \in clients'[q]) \/ (\E v \in Worker : held'[v] = d)
      <4>1. CASE d = c
        BY <4>1, <2>0, <1>3
      <4>2. CASE d # c
        <5>1. (\E q \in Pool : d \in clients[q]) \/ (\E v \in Worker : held[v] = d)
          BY <3>3, <1>10 DEF Inv, OwnerInv
        <5>2. \A v \in Worker : held[v] = d => held'[v] = d
          BY <4>2, <1>5 DEF c
        <5> QED
          BY <5>1, <5>2, <2>0
      <4> QED
        BY <4>1, <4>2
    <3> QED
      BY <3>1, <3>2, <3>3 DEF OwnerInv
  <2>2. MapInv'
    <3>1. p \in created
      BY <1>3, PoolAssumption DEF Inv, MapInv, p
    <3> QED
      BY <3>1, <2>0, <1>1 DEF Inv, MapInv, Locked
  <2>3. Cardinality(clients'[p]) = Cardinality(clients[p]) + 1
    BY <2>0, <1>3, <1>4, FS_AddElement
  <2>4. SizeInv'
    BY <2>0, <2>3, <1>3, <1>10, PoolAssumption DEF Inv, SizeInv
  <2>5. ASSUME NEW q \in Pool, NEW left \in Nat, NEW n \in Nat,
               LeakOK(clients[q], Busy(q, ref, pc), Using(q, ref), left, n)
        PROVE  LeakOK(clients'[q], Busy(q, ref', pc'), Using(q, ref'), left, n)
    <3>1. CASE q # p
      BY <3>1, <1>1, <1>3, <2>0, <2>5, OtherPool DEF p
    <3>2. CASE q = p
      BY <3>2, <1>1, <1>3, <1>9, <2>3, <2>5 DEF LeakOK
    <3> QED
      BY <3>1, <3>2
  <2>6. LeakInv'
    BY <1>1, <2>5, LeakStep
  <2> QED
    BY <1>6, <1>7, <1>8, <2>1, <2>2, <2>4, <2>6 DEF Inv
<1>11. CASE conn' = [conn EXCEPT ![c] = "closed"] /\ clients' = clients
  <2>0. \A d \in Client : conn'[d] = IF d = c THEN "closed" ELSE conn[d]
    BY <1>3, <1>11
  <2>1. OwnerInv'
    <3>1. ASSUME NEW q \in Pool, NEW d \in clients'[q]
          PROVE  /\ conn'[d] = "open"
                 /\ \A s \in Pool : d \in clients'[s] => s = q
                 /\ \A v \in Worker : held'[v] # d
      <4>1. d \in Client /\ d # c
        BY <1>3, <1>4, <1>11
      <4> QED
        BY <4>1, <2>0, <1>3, <1>5, <1>11 DEF Inv, OwnerInv
    <3>2. ASSUME NEW v \in Worker, held'[v] # None
          PROVE  conn'[held'[v]] = "open" /\ \A u \in Worker : held'[u] = held'[v] => u = v
      <4>1. v # w /\ held'[v] = held[v] /\ held[v] # c /\ held[v] \in Client
        BY <3>2, <1>3, <1>4, <1>5
      <4> QED
        BY <3>2, <4>1, <2>0, <1>5 DEF Inv, OwnerInv
    <3>3. ASSUME NEW d \in Client, conn'[d] = "open"
          PROVE  (\E q \in Pool : d \in clients'[q]) \/ (\E v \in Worker : held'[v] = d)
      <4>1. d # c /\ conn[d] = "open"
        BY <3>3, <2>0
      <4>2. \A v \in Worker : held[v] = d => held'[v] = d
        BY <4>1, <1>5 DEF c
      <4> QED
        BY <4>1, <4>2, <1>11 DEF Inv, OwnerInv
    <3> QED
      BY <3>1, <3>2, <3>3 DEF OwnerInv
  <2>2. MapInv' /\ SizeInv'
    BY <1>1, <1>11 DEF Inv, MapInv, SizeInv, Locked
  <2>3. ASSUME NEW q \in Pool, NEW left \in Nat, NEW n \in Nat,
               LeakOK(clients[q], Busy(q, ref, pc), Using(q, ref), left, n)
        PROVE  LeakOK(clients'[q], Busy(q, ref', pc'), Using(q, ref'), left, n)
    <3>1. CASE q # p
      BY <3>1, <1>1, <1>3, <1>11, <2>3, OtherPool DEF p
    <3>2. CASE q = p
      BY <3>2, <1>1, <1>3, <1>9, <1>11, <2>3 DEF LeakOK
    <3> QED
      BY <3>1, <3>2
  <2>4. LeakInv'
    BY <1>1, <2>3, LeakStep
  <2> QED
    BY <1>6, <1>7, <1>8, <2>1, <2>2, <2>4 DEF Inv
<1> QED
  BY <1>2, <1>10, <1>11

-----------------------------------------------------------------------------
LEMMA InitInv == PoolInit => Inv
<1> SUFFICES ASSUME PoolInit PROVE Inv
  OBVIOUS
<1> USE DEF PoolInit
<1>1. closing = NotClosing /\ NotClosing \in [pool : Pool \cup {None}, left : 0 .. PoolSize, delete : BOOLEAN]
  BY PoolAssumption DEF NotClosing
<1>2. PoolTypeOK
  BY <1>1 DEF PoolTypeOK
<1>3. DialInv
  <2>1. 0 \in 0 .. MaxDials /\ \A c \in Client : ~(c <= 0)
    BY PoolAssumption DEF Client
  <2> QED
    BY <2>1 DEF DialInv
<1>4. OwnerInv /\ WorkerInv
  BY DEF OwnerInv, WorkerInv
<1>5. MapInv
  BY DEF MapInv, Locked
<1>6. SizeInv
  BY FS_EmptySet, PoolAssumption DEF SizeInv
<1>7. LeakInv
  BY DEF LeakInv, NotClosing
<1> QED
  BY <1>2, <1>3, <1>4, <1>5, <1>6, <1>7 DEF Inv

LEMMA NextInv == Inv /\ [PoolNext]_poolVars => Inv'
<1> SUFFICES ASSUME Inv, [PoolNext]_poolVars PROVE Inv'
  OBVIOUS
<1>1. CASE UNCHANGED poolVars
  BY <1>1 DEF poolVars, Inv, PoolTypeOK, DialInv, OwnerInv, WorkerInv, MapInv, SizeInv,
              LeakInv, Locked
<1>2. CASE PoolNext
  BY <1>2, AddDeviceInv, AddDeviceFailsInv, CloseBeginsInv, CloseOneInv, CloseEndsInv,
     GetDeviceInv, DropPoolInv, MoveInv, ReceiveClientInv, DialClientInv, ReturnClientInv
     DEF PoolNext, ClosePool, Execute, GetClient
<1> QED
  BY <1>1, <1>2

\* The inductive invariant holds of every reachable state.
LEMMA InvHolds == PoolSpec => []Inv
BY InitInv, NextInv, PTL DEF PoolSpec

-----------------------------------------------------------------------------
(* The results *)

\* The state has its types.
THEOREM PoolTypeCorrect == PoolSpec => []PoolTypeOK
<1>1. Inv => PoolTypeOK
  BY DEF Inv
<1> QED
  BY <1>1, InvHolds, PTL

\* No two commands run on one connection at a time, and none runs on a connection
\* that ReturnClient, RemoveDevice or Close has closed.
THEOREM OneOwnerHolds == PoolSpec => []OneOwner
<1>1. ASSUME Inv, NEW c \in Client
      PROVE  Cardinality(Places(c)) = IF conn[c] = "open" THEN 1 ELSE 0
  <2>0. None \notin Client
    BY PoolAssumption DEF Client
  <2>1. CASE conn[c] # "open"
    <3>1. Places(c) = {}
      BY <1>1, <2>0, <2>1 DEF Places, Inv, OwnerInv
    <3> QED
      BY <2>1, <3>1, FS_EmptySet
  <2>2. CASE \E p \in Pool : c \in clients[p]
    <3>1. PICK p \in Pool : c \in clients[p]
      BY <2>2
    <3>2. Places(c) = {p} /\ conn[c] = "open"
      BY <1>1, <3>1 DEF Places, Inv, OwnerInv
    <3> QED
      BY <3>2, FS_Singleton
  <2>3. CASE (\A p \in Pool : c \notin clients[p]) /\ \E w \in Worker : held[w] = c
    <3>1. PICK w \in Worker : held[w] = c
      BY <2>3
    <3>2. Places(c) = {w} /\ conn[c] = "open"
      BY <1>1, <2>0, <2>3, <3>1 DEF Places, Inv, OwnerInv
    <3> QED
      BY <3>2, FS_Singleton
  <2> QED
    BY <1>1, <2>1, <2>2, <2>3 DEF Inv, OwnerInv
<1>2. Inv => OneOwner
  BY <1>1 DEF OneOwner
<1> QED
  BY <1>2, InvHolds, PTL

\* A pool's clients are those in its channel and at most one for each busy worker.
LEMMA ClientsCount ==
    ASSUME Inv, NEW p \in Pool
    PROVE  /\ Cardinality(Clients(p)) \in Nat
           /\ Cardinality(Clients(p)) <= Cardinality(clients[p]) + Cardinality(Busy(p, ref, pc))
<1> DEFINE W == {v \in Worker : ref[v] = p /\ held[v] # None}
           H == {held[w] : w \in W}
<1>1. IsFiniteSet(clients[p]) /\ Cardinality(clients[p]) \in Nat
  BY ClientsFinite DEF Inv, PoolTypeOK
<1>2. IsFiniteSet(W) /\ Cardinality(W) \in Nat
  BY WorkersFinite
<1>3. Cardinality(W) <= Cardinality(Busy(p, ref, pc)) /\ Cardinality(Busy(p, ref, pc)) \in Nat
  <2>1. W \in SUBSET Busy(p, ref, pc)
    BY DEF Busy, Using, Inv, WorkerInv
  <2> QED
    BY <2>1, BusyUsing, WorkersFinite, FS_Subset
<1>4. IsFiniteSet(H) /\ Cardinality(H) <= Cardinality(W) /\ Cardinality(H) \in Nat
  <2> DEFINE f == [w \in W |-> held[w]]
  <2>1. f \in Surjection(W, H)
    BY DEF Surjection
  <2> QED
    BY <2>1, <1>2, FS_Surjection, FS_CardinalityType
<1>5. /\ IsFiniteSet(clients[p] \cup H) /\ Cardinality(clients[p] \cap H) \in Nat
      /\ Cardinality(clients[p] \cup H)
           = Cardinality(clients[p]) + Cardinality(H) - Cardinality(clients[p] \cap H)
  <2>1. IsFiniteSet(clients[p] \cap H)
    BY <1>1, FS_Intersection
  <2> HIDE DEF H
  <2> QED
    BY <2>1, <1>1, <1>4, FS_Union, FS_CardinalityType
<1>6. Clients(p) = clients[p] \cup H
  BY DEF Clients
<1> HIDE DEF H, W
<1>7. Cardinality(Clients(p)) \in Nat
  BY <1>5, <1>6, FS_CardinalityType
<1> QED
  BY <1>1, <1>2, <1>3, <1>4, <1>5, <1>6, <1>7

\* What RemoveDevice leaves open is bounded by the number of workers that had the
\* pool when it began: a pool nobody works with is closed to the last connection.
THEOREM LeakIsBounded == PoolSpec => []LeakBounded
<1>1. ASSUME Inv, NEW p \in removed
      PROVE  Cardinality(Clients(p)) <= users[p]
  <2>1. p \in Pool /\ users[p] \in Nat
    BY <1>1 DEF Inv, PoolTypeOK
  <2>2. LeakOK(clients[p], Busy(p, ref, pc), Using(p, ref), 0, users[p])
    BY <1>1 DEF Inv, LeakInv
  <2>3. Cardinality(clients[p]) \in Nat /\ Cardinality(Busy(p, ref, pc)) \in Nat
    BY <1>1, <2>1, ClientsFinite, BusyUsing DEF Inv, PoolTypeOK
  <2> QED
    BY <1>1, <2>1, <2>2, <2>3, ClientsCount DEF LeakOK
<1>2. Inv => LeakBounded
  BY <1>1 DEF LeakBounded
<1> QED
  BY <1>2, InvHolds, PTL

=============================================================================
