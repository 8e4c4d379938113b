----------------------------- MODULE WsHubProofs -----------------------------
(***************************************************************************)
(* Safety of the WebSocket hub, for any number of addresses, connections   *)
(* and callers of SendToIP.                                                *)
(***************************************************************************)
EXTENDS WsHub, FiniteSetTheorems, TLAPS

\* Whoever writes holds the mutex.
LockInv ==
    /\ run[1] = "broadcast" => mu = "run"
    /\ \A s \in Sender : call[s] = "writing" => mu = s

\* An address is mapped to a connection of its own.
MapInv == \A ip \in IP : clients[ip] # None => IpOf[clients[ip]] = ip

\* Whoever writes does so to what the map holds.
WriteInv ==
    /\ run[1] = "broadcast" => \A c \in run[2] : clients[IpOf[c]] = c
    /\ \A s \in Sender : call[s] = "writing" =>
           writing[s] # None /\ writing[s] = clients[target[s]]

\* A connection is given up only when it is lost, and Run is told so.
LossInv ==
    /\ \A c \in Conn : reader[c] \in {"leaving", "done"} => sock[c] # "open"
    /\ run[1] = "unregister" => \E d \in Conn : IpOf[d] = run[2] /\ reader[d] = "done"

\* The inductive invariant.
Inv == HubTypeOK /\ LockInv /\ MapInv /\ WriteInv /\ LossInv

\* What Run is doing tells what came with it.
LEMMA EventFields ==
    ASSUME NEW e \in Event
    PROVE  /\ e[1] = "register" => e[2] \in Conn
           /\ e[1] = "unregister" => e[2] \in IP
           /\ e[1] = "broadcast" => e[2] \in SUBSET Conn /\ e = <<"broadcast", e[2]>>
BY DEF Event, Select, Message

LEMMA EventKinds ==
    /\ Select \in Event /\ Message \in Event
    /\ Select[1] = "select" /\ Message[1] = "message"
    /\ \A c \in Conn : <<"register", c>> \in Event
    /\ \A ip \in IP : <<"unregister", ip>> \in Event
    /\ \A S \in SUBSET Conn : <<"broadcast", S>> \in Event
BY DEF Event, Select, Message

-----------------------------------------------------------------------------
(* Connections and peers *)

LEMMA ConnectionStep ==
    ASSUME Inv, NEW c \in Conn,
           HandleWebSocket(c) \/ ReadFails(c) \/ PeerLeaves(c) \/ PeerStalls(c) \/ PeerReads(c)
    PROVE  Inv'
<1> USE DEF HandleWebSocket, ReadFails, PeerLeaves, PeerStalls, PeerReads
<1>1. HubTypeOK'
  BY DEF Inv, HubTypeOK
<1>2. LockInv' /\ MapInv' /\ WriteInv'
  BY DEF Inv, LockInv, MapInv, WriteInv
<1>3. LossInv'
  BY DEF Inv, HubTypeOK, LossInv
<1> QED
  BY <1>1, <1>2, <1>3 DEF Inv

-----------------------------------------------------------------------------
(* Run *)

LEMMA ReceiveStep ==
    ASSUME Inv, \/ \E c \in Conn : ReceiveRegister(c) \/ ReceiveUnregister(c)
                \/ ReceiveBroadcast
    PROVE  Inv'
<1>1. ASSUME NEW c \in Conn, ReceiveRegister(c) PROVE Inv'
  <2>1. HubTypeOK'
    BY <1>1, EventKinds DEF Inv, HubTypeOK, ReceiveRegister
  <2>2. LockInv' /\ MapInv' /\ WriteInv'
    BY <1>1 DEF Inv, LockInv, MapInv, WriteInv, ReceiveRegister
  <2>3. LossInv'
    BY <1>1 DEF Inv, HubTypeOK, LossInv, ReceiveRegister
  <2> QED
    BY <2>1, <2>2, <2>3 DEF Inv
<1>2. ASSUME NEW c \in Conn, ReceiveUnregister(c) PROVE Inv'
  <2>1. HubTypeOK'
    BY <1>2, EventKinds, HubAssumption DEF Inv, HubTypeOK, ReceiveUnregister
  <2>2. LockInv' /\ MapInv' /\ WriteInv'
    BY <1>2 DEF Inv, LockInv, MapInv, WriteInv, ReceiveUnregister
  <2>3. LossInv'
    BY <1>2 DEF Inv, HubTypeOK, LossInv, ReceiveUnregister
  <2> QED
    BY <2>1, <2>2, <2>3 DEF Inv
<1>3. ASSUME ReceiveBroadcast PROVE Inv'
  <2>1. HubTypeOK'
    BY <1>3, EventKinds DEF Inv, HubTypeOK, ReceiveBroadcast
  <2>2. LockInv' /\ MapInv' /\ WriteInv' /\ LossInv'
    BY <1>3, EventKinds DEF Inv, LockInv, MapInv, WriteInv, LossInv, ReceiveBroadcast
  <2> QED
    BY <2>1, <2>2 DEF Inv
<1> QED
  BY <1>1, <1>2, <1>3

LEMMA RegisterStep == ASSUME Inv, Register PROVE Inv'
<1>1. run[2] \in Conn /\ IpOf[run[2]] \in IP
  BY EventFields, HubAssumption DEF Inv, HubTypeOK, Register
<1>2. HubTypeOK'
  BY <1>1, EventKinds DEF Inv, HubTypeOK, Register
<1>3. LockInv' /\ LossInv'
  BY EventKinds DEF Inv, LockInv, LossInv, Register
<1>4. MapInv'
  BY <1>1 DEF Inv, HubTypeOK, MapInv, Register
<1>5. \A s \in Sender : call[s] # "writing"
  BY HubAssumption DEF Inv, LockInv, Register
<1>6. WriteInv'
  BY <1>5, EventKinds DEF WriteInv, Register
<1> QED
  BY <1>2, <1>3, <1>4, <1>6 DEF Inv

LEMMA UnregisterStep == ASSUME Inv, Unregister PROVE Inv'
<1>1. run[2] \in IP
  BY EventFields DEF Inv, HubTypeOK, Unregister
<1>2. HubTypeOK'
  BY <1>1, EventKinds DEF Inv, HubTypeOK, Unregister
<1>3. LockInv'
  BY EventKinds DEF Inv, LockInv, Unregister
<1>4. MapInv'
  BY <1>1 DEF Inv, HubTypeOK, MapInv, Unregister
<1>5. \A s \in Sender : call[s] # "writing"
  BY HubAssumption DEF Inv, LockInv, Unregister
<1>6. WriteInv'
  BY <1>5, EventKinds DEF WriteInv, Unregister
<1>7. LossInv'
  BY EventKinds DEF Inv, LossInv, Unregister
<1> QED
  BY <1>2, <1>3, <1>4, <1>6, <1>7 DEF Inv

LEMMA BroadcastStep ==
    ASSUME Inv, Send \/ BeginBroadcast \/ WriteBroadcast \/ EndBroadcast
    PROVE  Inv'
<1>1. ASSUME Send PROVE Inv'
  BY <1>1 DEF Inv, HubTypeOK, LockInv, MapInv, WriteInv, LossInv, Send
<1>2. ASSUME BeginBroadcast PROVE Inv'
  <2> DEFINE S == {clients[ip] : ip \in IP} \ {None}
  <2>1. S \in SUBSET Conn /\ \A c \in S : clients[IpOf[c]] = c
    BY DEF Inv, HubTypeOK, MapInv
  <2> HIDE DEF S
  <2>2. run' = <<"broadcast", S>>
    BY <1>2 DEF BeginBroadcast, S
  <2>3. HubTypeOK'
    BY <1>2, <2>1, <2>2, EventKinds DEF Inv, HubTypeOK, BeginBroadcast
  <2>4. \A s \in Sender : call[s] # "writing"
    BY <1>2, HubAssumption DEF Inv, LockInv, BeginBroadcast
  <2>5. LockInv' /\ WriteInv'
    BY <1>2, <2>1, <2>2, <2>4 DEF LockInv, WriteInv, BeginBroadcast
  <2>6. MapInv' /\ LossInv'
    BY <1>2, <2>2 DEF Inv, MapInv, LossInv, BeginBroadcast
  <2> QED
    BY <2>3, <2>5, <2>6 DEF Inv
<1>3. ASSUME WriteBroadcast PROVE Inv'
  <2> PICK c \in run[2] : run' = <<"broadcast", run[2] \ {c}>>
    BY <1>3 DEF WriteBroadcast
  <2>1. run[2] \in SUBSET Conn /\ run[1] = "broadcast"
    BY <1>3, EventFields DEF Inv, HubTypeOK, WriteBroadcast
  <2>2. HubTypeOK'
    BY <1>3, <2>1, EventKinds DEF Inv, HubTypeOK, WriteBroadcast
  <2>3. LockInv' /\ MapInv' /\ WriteInv' /\ LossInv'
    BY <1>3, <2>1 DEF Inv, LockInv, MapInv, WriteInv, LossInv, WriteBroadcast
  <2> QED
    BY <2>2, <2>3 DEF Inv
<1>4. ASSUME EndBroadcast PROVE Inv'
  <2>1. HubTypeOK'
    BY <1>4, EventKinds DEF Inv, HubTypeOK, EndBroadcast
  <2>2. \A s \in Sender : call[s] # "writing"
    <3>1. mu = "run"
      BY <1>4 DEF Inv, LockInv, EndBroadcast
    <3> QED
      BY <3>1, HubAssumption DEF Inv, LockInv
  <2>3. LockInv' /\ WriteInv'
    BY <1>4, <2>2, EventKinds DEF LockInv, WriteInv, EndBroadcast
  <2>4. MapInv' /\ LossInv'
    BY <1>4, EventKinds DEF Inv, MapInv, LossInv, EndBroadcast
  <2> QED
    BY <2>1, <2>3, <2>4 DEF Inv
<1> QED
  BY <1>1, <1>2, <1>3, <1>4

-----------------------------------------------------------------------------
(* SendToIP *)

LEMMA SendToIPStep ==
    ASSUME Inv, NEW s \in Sender, CallSendToIP(s) \/ SendToIP(s)
    PROVE  Inv'
<1>1. ASSUME CallSendToIP(s) \/ DropMessage(s) PROVE Inv'
  <2>1. HubTypeOK'
    BY <1>1 DEF Inv, HubTypeOK, CallSendToIP, DropMessage
  <2>2. LockInv' /\ WriteInv'
    BY <1>1 DEF Inv, HubTypeOK, LockInv, WriteInv, CallSendToIP, DropMessage
  <2>3. MapInv' /\ LossInv'
    BY <1>1 DEF Inv, MapInv, LossInv, CallSendToIP, DropMessage
  <2> QED
    BY <2>1, <2>2, <2>3 DEF Inv
<1>2. ASSUME BeginWrite(s) PROVE Inv'
  <2>1. HubTypeOK'
    BY <1>2 DEF Inv, HubTypeOK, BeginWrite
  <2>2. run[1] # "broadcast" /\ \A t \in Sender : call[t] # "writing"
    BY <1>2, HubAssumption DEF Inv, LockInv, BeginWrite
  <2>3. LockInv' /\ WriteInv'
    BY <1>2, <2>2 DEF Inv, HubTypeOK, LockInv, WriteInv, BeginWrite
  <2>4. MapInv' /\ LossInv'
    BY <1>2 DEF Inv, MapInv, LossInv, BeginWrite
  <2> QED
    BY <2>1, <2>3, <2>4 DEF Inv
<1>3. ASSUME EndWrite(s) PROVE Inv'
  <2>1. HubTypeOK'
    BY <1>3 DEF Inv, HubTypeOK, EndWrite
  <2>2. run[1] # "broadcast" /\ \A t \in Sender : call[t] = "writing" => t = s
    BY <1>3, HubAssumption DEF Inv, LockInv, EndWrite
  <2>3. LockInv' /\ WriteInv'
    BY <1>3, <2>2 DEF Inv, HubTypeOK, LockInv, WriteInv, EndWrite
  <2>4. MapInv' /\ LossInv'
    BY <1>3 DEF Inv, MapInv, LossInv, EndWrite
  <2> QED
    BY <2>1, <2>3, <2>4 DEF Inv
<1> QED
  BY <1>1, <1>2, <1>3 DEF SendToIP

-----------------------------------------------------------------------------
LEMMA InvHolds == HubSpec => []Inv
<1>1. HubInit => Inv
  BY EventKinds DEF HubInit, Inv, HubTypeOK, LockInv, MapInv, WriteInv, LossInv
<1>2. Inv /\ [HubNext]_hubVars => Inv'
  <2> SUFFICES ASSUME Inv, [HubNext]_hubVars PROVE Inv'
    OBVIOUS
  <2>1. CASE HubNext
    BY <2>1, ConnectionStep, ReceiveStep, RegisterStep, UnregisterStep, BroadcastStep, SendToIPStep
       DEF HubNext, Run
  <2>2. CASE UNCHANGED hubVars
    BY <2>2 DEF hubVars, Inv, HubTypeOK, LockInv, MapInv, WriteInv, LossInv
  <2> QED
    BY <2>1, <2>2
<1> QED
  BY <1>1, <1>2, PTL DEF HubSpec

\* Run, HandleWebSocket, Send and SendToIP keep the hub's state well-formed.
THEOREM HubTypeCorrect == HubSpec => []HubTypeOK
<1>1. Inv => HubTypeOK
  BY DEF Inv
<1> QED
  BY <1>1, InvHolds, PTL

\* The mutex of the hub gives every connection one writer at a time, and the map
\* is not changed while somebody writes to what it held.
THEOREM OneWriterHolds == HubSpec => []OneWriter
<1>1. Inv => OneWriter
  <2> SUFFICES ASSUME Inv, NEW c \in Conn
               PROVE  Cardinality(Writers(c)) <= 1 /\ (Writers(c) # {} => clients[IpOf[c]] = c)
    BY DEF OneWriter
  <2>1. Writers(c) \in SUBSET {mu}
    BY DEF Inv, LockInv, Writers
  <2>2. IsFiniteSet({mu}) /\ Cardinality({mu}) = 1
    BY FS_Singleton
  <2>3. Cardinality(Writers(c)) <= 1
    BY <2>1, <2>2, FS_Subset
  <2>4. ASSUME NEW s \in Sender, call[s] = "writing", writing[s] = c
        PROVE  clients[IpOf[c]] = c
    <3>1. c = clients[target[s]] /\ target[s] \in IP /\ c # None
      BY <2>4 DEF Inv, WriteInv, HubTypeOK
    <3> QED
      BY <3>1 DEF Inv, MapInv
  <2>5. Writers(c) # {} => clients[IpOf[c]] = c
    BY <2>4 DEF Writers, Inv, WriteInv
  <2> QED
    BY <2>3, <2>5
<1> QED
  BY <1>1, InvHolds, PTL

\* SendToIP writes to a connection of the IP it was called with.
THEOREM RecipientIsRight == HubSpec => []RightRecipient
<1>1. Inv => RightRecipient
  BY DEF Inv, HubTypeOK, MapInv, WriteInv, RightRecipient
<1> QED
  BY <1>1, InvHolds, PTL

\* Run closes a connection in its unregister case only, and only when a
\* connection of the same IP was lost.
THEOREM ClosedAfterLoss == HubSpec => ClosedOnlyAfterLoss
<1> DEFINE A == \A c \in Conn : sock[c] = "open" /\ sock'[c] = "closed" =>
                  \E d \in Conn : IpOf[d] = IpOf[c] /\ reader[d] = "done" /\ sock[d] # "open"
<1>1. Inv /\ [HubNext]_hubVars => [A]_hubVars
  <2> SUFFICES ASSUME Inv, HubNext, NEW c \in Conn, sock[c] = "open", sock'[c] = "closed"
               PROVE  \E d \in Conn : IpOf[d] = IpOf[c] /\ reader[d] = "done" /\ sock[d] # "open"
    OBVIOUS
  <2>1. Unregister
    BY DEF Inv, HubTypeOK, HubNext, Run, HandleWebSocket, ReadFails, PeerLeaves, PeerStalls, PeerReads,
           ReceiveRegister, ReceiveUnregister, ReceiveBroadcast, Register, BeginBroadcast,
           WriteBroadcast, EndBroadcast, Send, CallSendToIP, SendToIP, DropMessage, BeginWrite, EndWrite
  <2>2. run[2] \in IP /\ c = clients[run[2]]
    BY <2>1, EventFields DEF Inv, HubTypeOK, Unregister
  <2>3. IpOf[c] = run[2]
    BY <2>2, HubAssumption DEF Inv, MapInv
  <2>4. PICK d \in Conn : IpOf[d] = run[2] /\ reader[d] = "done"
    BY <2>1 DEF Inv, LossInv, Unregister
  <2>5. sock[d] # "open"
    BY <2>4 DEF Inv, LossInv
  <2> QED
    BY <2>3, <2>4, <2>5
<1> QED
  BY <1>1, InvHolds, PTL DEF HubSpec, ClosedOnlyAfterLoss
=============================================================================
