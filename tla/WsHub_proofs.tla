---------------------------- MODULE WsHub_proofs ----------------------------
(* Theorems about WsHub, for any number of connections and changes and any   *)
(* of them stalling.                                                         *)
EXTENDS WsHub, TLAPS

Inv == TypeOK /\ TargetsKnown /\ OpenWhileServed /\ NoneAhead
       /\ RegisteredServed /\ OnTheWay

-----------------------------------------------------------------------------
(* What the parts several actions share do.                                  *)

LEMMA GoToType ==
    ASSUME TypeOK, NEW c \in Conns, NEW label \in HandlerPc, GoTo(c, label)
    PROVE  /\ handler' \in [Conns -> HandlerPc]
           /\ handler'[c] = label
           /\ \A d \in Conns \ {c} : handler'[d] = handler[d]
BY DEF TypeOK, GoTo

LEMMA LockType ==
    ASSUME TypeOK, NEW c \in Conns, NEW owner \in {"handler", "poller"},
           Lock(c, owner)
    PROVE  connLock' \in [Conns -> {Nobody, "handler", "poller"}]
BY DEF TypeOK, Lock

LEMMA UnlockType ==
    ASSUME TypeOK, NEW c \in Conns
    PROVE  Unlock(c) \in [Conns -> {Nobody, "handler", "poller"}]
BY DEF TypeOK, Unlock

(* A write that has returned has brought the peer up to its version if the   *)
(* peer still listens, and never takes anything back.                        *)
LEMMA ReceivedBrings ==
    ASSUME TypeOK, NEW c \in Conns, NEW v \in 0..MaxVersion, Received(c, v)
    PROVE  /\ newest' \in [Conns -> 0..MaxVersion]
           /\ \A d \in Conns : newest'[d] = newest[d] \/ (d = c /\ newest'[d] = v)
           /\ \A d \in Conns : newest'[d] >= newest[d]
           /\ peer[c] = "reading" /\ c \in open => newest'[c] >= v
<1>1. newest \in [Conns -> 0..MaxVersion] /\ MaxVersion \in Nat
  BY HubAssumption DEF TypeOK
<1>2. CASE peer[c] = "reading" /\ c \in open /\ v > newest[c]
  <2>1. newest' = [newest EXCEPT ![c] = v]
    BY <1>2 DEF Received
  <2>2. QED
    BY <1>1, <1>2, <2>1
<1>3. CASE ~(peer[c] = "reading" /\ c \in open /\ v > newest[c])
  <2>1. newest' = newest
    BY <1>3 DEF Received
  <2>2. QED
    BY <1>1, <1>3, <2>1
<1>4. QED
  BY <1>2, <1>3

-----------------------------------------------------------------------------
(* The invariant.                                                            *)

LEMMA InitInv == Init => Inv
BY HubAssumption DEF Init, Inv, TypeOK, HandlerPc, Registered, TargetsKnown,
   OpenWhileServed, NoneAhead, RegisteredServed, OnTheWay

LEMMA BrowserInv ==
    ASSUME Inv, NEW c \in Conns, Connect(c) \/ Stall(c) \/ Leave(c)
    PROVE  Inv'
<1>1. CASE Connect(c)
  <2>1. TypeOK'
    BY <1>1, GoToType DEF Inv, TypeOK, Connect, HandlerPc, Registered, broadcast
  <2>2. c \notin clients
    BY <1>1 DEF Inv, RegisteredServed, Connect, Registered
  <2>3. handler'[c] = "register" /\ \A d \in Conns \ {c} : handler'[d] = handler[d]
    BY <1>1, GoToType DEF Inv, Connect, HandlerPc
  <2>4. QED
    BY <1>1, <2>1, <2>2, <2>3 DEF Inv, TypeOK, Connect, broadcast, Registered,
       TargetsKnown, OpenWhileServed, NoneAhead, RegisteredServed, OnTheWay
<1>2. CASE Stall(c)
  BY <1>2 DEF Inv, TypeOK, Stall, broadcast, TargetsKnown, OpenWhileServed,
     NoneAhead, RegisteredServed, OnTheWay
<1>3. CASE Leave(c)
  BY <1>3 DEF Inv, TypeOK, Leave, broadcast, TargetsKnown, OpenWhileServed,
     NoneAhead, RegisteredServed, OnTheWay
<1>4. QED
  BY <1>1, <1>2, <1>3

LEMMA ServeInv ==
    ASSUME Inv, NEW c \in Conns, Serve(c) \/ ReadFails(c)
    PROVE  Inv'
<1> USE DEF HandlerPc, Registered
<1>1. CASE Register(c)
  <2>1. /\ handler' \in [Conns -> HandlerPc] /\ handler'[c] = "query"
        /\ \A d \in Conns \ {c} : handler'[d] = handler[d]
    BY <1>1, GoToType DEF Inv, Register
  <2>2. /\ clients' = clients \cup {c} /\ handler[c] = "register"
        /\ UNCHANGED <<hubLock, connLock, newest, open, peer, snapshot, broadcast>>
    BY <1>1 DEF Register
  <2>3. TypeOK'
    BY <2>1, <2>2 DEF Inv, TypeOK, broadcast
  <2>4. TargetsKnown' /\ OpenWhileServed' /\ NoneAhead' /\ RegisteredServed'
    BY <2>1, <2>2 DEF Inv, TypeOK, broadcast, TargetsKnown, OpenWhileServed,
       NoneAhead, RegisteredServed
  <2>5. OnTheWay'
    BY <2>1, <2>2 DEF Inv, TypeOK, broadcast, OnTheWay
  <2>6. QED
    BY <2>3, <2>4, <2>5 DEF Inv
<1>2. CASE QuerySnapshot(c)
  <2>1. /\ handler' \in [Conns -> HandlerPc] /\ handler'[c] = "write"
        /\ \A d \in Conns \ {c} : handler'[d] = handler[d]
    BY <1>2, GoToType DEF Inv, QuerySnapshot
  <2>2. /\ snapshot' = [snapshot EXCEPT ![c] = version] /\ handler[c] = "query"
        /\ UNCHANGED <<clients, hubLock, connLock, newest, open, peer, broadcast>>
    BY <1>2 DEF QuerySnapshot
  <2>3. TypeOK'
    BY <2>1, <2>2 DEF Inv, TypeOK, broadcast
  <2>4. TargetsKnown' /\ OpenWhileServed' /\ RegisteredServed'
    BY <2>1, <2>2 DEF Inv, TypeOK, broadcast, TargetsKnown, OpenWhileServed,
       RegisteredServed
  <2>5. NoneAhead'
    BY <2>2, HubAssumption DEF Inv, TypeOK, broadcast, NoneAhead
  <2>6. OnTheWay'
    BY <2>1, <2>2 DEF Inv, TypeOK, broadcast, OnTheWay
  <2>7. QED
    BY <2>3, <2>4, <2>5, <2>6 DEF Inv
<1>3. CASE BeginSnapshot(c)
  <2>1. /\ handler' \in [Conns -> HandlerPc] /\ handler'[c] = "writing"
        /\ \A d \in Conns \ {c} : handler'[d] = handler[d]
    BY <1>3, GoToType DEF Inv, BeginSnapshot
  <2>2. connLock' \in [Conns -> {Nobody, "handler", "poller"}]
    BY <1>3, LockType DEF Inv, BeginSnapshot
  <2>3. QED
    BY <1>3, <2>1, <2>2 DEF Inv, TypeOK, BeginSnapshot, broadcast, TargetsKnown,
       OpenWhileServed, NoneAhead, RegisteredServed, OnTheWay
<1>4. CASE EndSnapshot(c)
  <2>1. /\ handler[c] = "writing"
        /\ handler' \in [Conns -> HandlerPc] /\ handler'[c] = "read"
        /\ \A d \in Conns \ {c} : handler'[d] = handler[d]
    BY <1>4, GoToType DEF Inv, EndSnapshot
  <2>2. connLock' \in [Conns -> {Nobody, "handler", "poller"}]
    BY <1>4, UnlockType DEF Inv, EndSnapshot
  <2>3. /\ newest' \in [Conns -> 0..MaxVersion]
        /\ \A d \in Conns :
              newest'[d] = newest[d] \/ (d = c /\ newest'[d] = snapshot[c])
        /\ peer[c] = "reading" /\ c \in open => newest'[c] >= snapshot[c]
        /\ \A d \in Conns : newest'[d] >= newest[d]
    BY <1>4, ReceivedBrings DEF Inv, EndSnapshot, TypeOK
  <2>4. UNCHANGED <<clients, hubLock, open, peer, snapshot, version, pollerPc,
                    targets, current, failed>>
    BY <1>4 DEF EndSnapshot, broadcast
  <2>5. TypeOK' /\ TargetsKnown' /\ OpenWhileServed' /\ RegisteredServed'
    BY <2>1, <2>2, <2>3, <2>4 DEF Inv, TypeOK, TargetsKnown, OpenWhileServed,
       RegisteredServed
  <2>6. NoneAhead'
    BY <2>3, <2>4 DEF Inv, NoneAhead
  <2>7. OnTheWay'
    <3> SUFFICES ASSUME NEW d \in clients, handler'[d] \in {"write", "writing", "read"},
                        peer[d] = "reading", pollerPc # "copy", d \notin targets,
                        ~(handler'[d] # "read" /\ snapshot[d] = version)
                 PROVE  newest'[d] = version
      BY <2>4 DEF OnTheWay
    <3>1. /\ d \in Conns /\ newest[d] \in Nat /\ newest'[d] \in Nat
          /\ version \in Nat /\ newest'[d] <= version
      BY <2>3, <2>4, <2>6, HubAssumption DEF Inv, TypeOK, NoneAhead
    <3>2. CASE newest[d] = version
      BY <2>3, <3>1, <3>2
    <3>3. CASE newest[d] # version
      <4>1. d = c /\ snapshot[c] = version
        BY <2>1, <3>1, <3>3 DEF Inv, OnTheWay
      <4>2. c \in open
        BY <2>1 DEF Inv, OpenWhileServed
      <4>3. QED
        BY <2>3, <3>1, <4>1, <4>2
    <3>4. QED
      BY <3>2, <3>3
  <2>8. QED
    BY <2>5, <2>6, <2>7 DEF Inv
<1>5. CASE ReadFails(c)
  <2>1. /\ handler' \in [Conns -> HandlerPc] /\ handler'[c] = "unregister"
        /\ handler[c] = "read"
        /\ \A d \in Conns \ {c} : handler'[d] = handler[d]
    BY <1>5, GoToType DEF Inv, ReadFails
  <2>2. QED
    BY <1>5, <2>1 DEF Inv, TypeOK, ReadFails, broadcast, TargetsKnown,
       OpenWhileServed, NoneAhead, RegisteredServed, OnTheWay
<1>6. CASE Unregister(c)
  <2>1. /\ handler' \in [Conns -> HandlerPc] /\ handler'[c] \in {"close", "done"}
        /\ \A d \in Conns \ {c} : handler'[d] = handler[d]
    BY <1>6, GoToType DEF Inv, Unregister
  <2>2. clients' = clients \ {c} /\ hubLock' \in Conns \cup {Nobody}
    BY <1>6 DEF Unregister, Without
  <2>3. QED
    BY <1>6, <2>1, <2>2 DEF Inv, TypeOK, Unregister, broadcast, TargetsKnown,
       OpenWhileServed, NoneAhead, RegisteredServed, OnTheWay
<1>7. CASE Close(c)
  <2>1. /\ handler' \in [Conns -> HandlerPc] /\ handler'[c] = "done"
        /\ handler[c] = "close"
        /\ \A d \in Conns \ {c} : handler'[d] = handler[d]
    BY <1>7, GoToType DEF Inv, Close
  <2>2. QED
    BY <1>7, <2>1 DEF Inv, TypeOK, Close, broadcast, TargetsKnown,
       OpenWhileServed, NoneAhead, RegisteredServed, OnTheWay
<1>8. QED
  BY <1>1, <1>2, <1>3, <1>4, <1>5, <1>6, <1>7 DEF Serve

LEMMA BroadcastInv ==
    ASSUME Inv, Change \/ Broadcast
    PROVE  Inv'
<1> USE DEF HandlerPc, Registered
<1>1. CASE Change
  BY <1>1, HubAssumption DEF Inv, TypeOK, Change, connections, TargetsKnown,
     OpenWhileServed, NoneAhead, RegisteredServed, OnTheWay
<1>2. CASE CopyClients
  BY <1>2 DEF Inv, TypeOK, CopyClients, Addressed, connections, TargetsKnown,
     OpenWhileServed, NoneAhead, RegisteredServed, OnTheWay
<1>3. ASSUME NEW c \in Conns, BeginSend(c)
      PROVE  Inv'
  <2>1. connLock' \in [Conns -> {Nobody, "handler", "poller"}]
    BY <1>3, LockType DEF Inv, BeginSend
  <2>2. QED
    BY <1>3, <2>1 DEF Inv, TypeOK, BeginSend, connections, TargetsKnown,
       OpenWhileServed, NoneAhead, RegisteredServed, OnTheWay
<1>4. CASE EndSend
  <2>1. current \in Conns /\ current \in targets /\ version \in 0..MaxVersion
    BY <1>4 DEF Inv, TypeOK, TargetsKnown, EndSend
  <2>2. connLock' \in [Conns -> {Nobody, "handler", "poller"}]
    BY <1>4, <2>1, UnlockType DEF Inv, EndSend
  <2>3. /\ newest' \in [Conns -> 0..MaxVersion]
        /\ \A d \in Conns :
              newest'[d] = newest[d] \/ (d = current /\ newest'[d] = version)
        /\ peer[current] = "reading" /\ current \in open => newest'[current] >= version
    BY <1>4, <2>1, ReceivedBrings DEF Inv, EndSend
  <2>4. /\ UNCHANGED <<clients, hubLock, open, peer, handler, snapshot, version>>
        /\ targets' = targets \ {current} /\ pollerPc' = "send"
        /\ current' = Nobody /\ failed' \in {failed, failed \cup {current}}
        /\ pollerPc = "sending"
    BY <1>4 DEF EndSend, Remaining, connections
  <2>5. TypeOK'
    BY <2>1, <2>2, <2>3, <2>4 DEF Inv, TypeOK
  <2>6. TargetsKnown' /\ OpenWhileServed' /\ RegisteredServed'
    BY <2>4 DEF Inv, TargetsKnown, OpenWhileServed, RegisteredServed
  <2>7. NoneAhead'
    BY <2>1, <2>3, <2>4, HubAssumption DEF Inv, NoneAhead
  <2>8. OnTheWay'
    <3> SUFFICES ASSUME NEW d \in clients, handler[d] \in {"write", "writing", "read"},
                        peer[d] = "reading", d \notin targets \ {current},
                        ~(handler[d] # "read" /\ snapshot[d] = version)
                 PROVE  newest'[d] = version
      BY <2>4 DEF OnTheWay
    <3>1. /\ d \in Conns /\ newest'[d] \in Nat
          /\ version \in Nat /\ newest'[d] <= version
      BY <2>1, <2>3, <2>4, <2>7, HubAssumption DEF Inv, TypeOK, NoneAhead
    <3>2. CASE d = current
      <4>1. current \in open
        BY <2>1, <3>2 DEF Inv, OpenWhileServed
      <4>2. QED
        BY <2>3, <3>1, <3>2, <4>1
    <3>3. CASE d # current
      BY <2>3, <2>4, <3>1, <3>3 DEF Inv, OnTheWay
    <3>4. QED
      BY <3>2, <3>3
  <2>9. QED
    BY <2>5, <2>6, <2>7, <2>8 DEF Inv
<1>5. CASE EndBroadcast
  BY <1>5 DEF Inv, TypeOK, EndBroadcast, connections, TargetsKnown,
     OpenWhileServed, NoneAhead, RegisteredServed, OnTheWay
<1>6. CASE RemoveFailed
  BY <1>6 DEF Inv, TypeOK, RemoveFailed, connections, TargetsKnown,
     OpenWhileServed, NoneAhead, RegisteredServed, OnTheWay
<1>7. QED
  BY <1>1, <1>2, <1>3, <1>4, <1>5, <1>6 DEF Broadcast

LEMMA StutterInv ==
    ASSUME Inv, UNCHANGED vars
    PROVE  Inv'
BY DEF Inv, vars, connections, broadcast, TypeOK, TargetsKnown, OpenWhileServed,
   NoneAhead, RegisteredServed, OnTheWay

LEMMA NextInv == Inv /\ [Next]_vars => Inv'
BY BrowserInv, ServeInv, BroadcastInv, StutterInv DEF Next

LEMMA InvMeans == Inv => TypeOK /\ RegisteredServed /\ NothingMissed
<1> SUFFICES ASSUME Inv, NEW c \in clients, handler[c] = "read",
                    peer[c] = "reading", pollerPc = "idle"
             PROVE  newest[c] = version
  BY DEF Inv, NothingMissed
<1> QED
  BY DEF Inv, OnTheWay, TargetsKnown

-----------------------------------------------------------------------------
(* The map only holds connections whose handler has still to unregister them *)
(* (hub.go, Register and Unregister), however many there are.                *)
THEOREM MapServed == Spec => []RegisteredServed
<1>1. Spec => []Inv
  BY InitInv, NextInv, PTL DEF Spec
<1>2. QED
  BY <1>1, InvMeans, PTL

(* Type correctness of the hub, the handlers and the peers, for any number   *)
(* of connections and changes.                                               *)
THEOREM HubTyped == Spec => []TypeOK
<1>1. Spec => []Inv
  BY InitInv, NextInv, PTL DEF Spec
<1>2. QED
  BY <1>1, InvMeans, PTL

(* No listening client whose snapshot has been written misses a change,      *)
(* however registrations, snapshots and broadcasts interleave (api/ws.go).   *)
THEOREM ChangesArrive == Spec => []NothingMissed
<1>1. Spec => []Inv
  BY InitInv, NextInv, PTL DEF Spec
<1>2. QED
  BY <1>1, InvMeans, PTL

-----------------------------------------------------------------------------
(* The mutexes.                                                              *)

(* Who holds a mutex is where the holder stands.                             *)
LocksHeld ==
    \A c \in Conns :
        /\ connLock[c] = "handler" <=> handler[c] = "writing"
        /\ connLock[c] = "poller" <=> pollerPc = "sending" /\ current = c
        /\ hubLock = c <=> handler[c] = "close"

(* A write to the connection is under way, by its handler or by Broadcast.   *)
Writing(c) == handler[c] = "writing" \/ (pollerPc = "sending" /\ current = c)

(* What a mutex that somebody waits for hangs on: a connection's on a write  *)
(* to it, which waits for no other mutex, and the hub's on nothing or on the *)
(* connection's that its holder closes, and that on Broadcast's write to it. *)
WaitsEndInWrites ==
    \A c \in Conns :
        /\ connLock[c] # Nobody => Writing(c)
        /\ hubLock = c =>
              /\ handler[c] = "close"
              /\ connLock[c] # Nobody => pollerPc = "sending" /\ current = c

LEMMA LocksInit == Init => LocksHeld
BY HubAssumption DEF Init, LocksHeld, Nobody

LEMMA LocksBrowser ==
    ASSUME TypeOK, LocksHeld, NEW c \in Conns,
           Connect(c) \/ Stall(c) \/ Leave(c)
    PROVE  LocksHeld'
<1>1. CASE Connect(c)
  <2>1. handler[c] = "none" /\ handler'[c] = "register"
        /\ \A d \in Conns \ {c} : handler'[d] = handler[d]
    BY <1>1, GoToType DEF Connect, HandlerPc
  <2> QED
    BY <1>1, <2>1 DEF Connect, LocksHeld, broadcast
<1>2. CASE Stall(c) \/ Leave(c)
  BY <1>2 DEF Stall, Leave, LocksHeld, broadcast
<1> QED
  BY <1>1, <1>2

LEMMA LocksServe ==
    ASSUME TypeOK, LocksHeld, NEW c \in Conns, Serve(c) \/ ReadFails(c)
    PROVE  LocksHeld'
<1> USE DEF HandlerPc, Registered
<1>1. CASE Register(c) \/ QuerySnapshot(c) \/ ReadFails(c)
  <2>1. /\ handler[c] \in {"register", "query", "read"}
        /\ handler'[c] \in {"query", "write", "unregister"}
        /\ \A d \in Conns \ {c} : handler'[d] = handler[d]
    BY <1>1, GoToType DEF Register, QuerySnapshot, ReadFails
  <2> QED
    BY <1>1, <2>1 DEF Register, QuerySnapshot, ReadFails, LocksHeld, broadcast
<1>2. CASE BeginSnapshot(c)
  <2>1. /\ handler[c] = "write" /\ handler'[c] = "writing"
        /\ \A d \in Conns \ {c} : handler'[d] = handler[d]
    BY <1>2, GoToType DEF BeginSnapshot
  <2>2. connLock[c] = Nobody /\ connLock' = [connLock EXCEPT ![c] = "handler"]
    BY <1>2 DEF BeginSnapshot, Lock
  <2> QED
    BY <1>2, <2>1, <2>2 DEF BeginSnapshot, TypeOK, LocksHeld, Nobody, broadcast
<1>3. CASE EndSnapshot(c)
  <2>1. /\ handler[c] = "writing" /\ handler'[c] = "read"
        /\ \A d \in Conns \ {c} : handler'[d] = handler[d]
    BY <1>3, GoToType DEF EndSnapshot
  <2>2. connLock' = [connLock EXCEPT ![c] = Nobody]
    BY <1>3 DEF EndSnapshot, Unlock
  <2> QED
    BY <1>3, <2>1, <2>2 DEF EndSnapshot, TypeOK, LocksHeld, Nobody, broadcast
<1>4. CASE Unregister(c)
  <2>1. /\ handler[c] = "unregister" /\ hubLock = Nobody
        /\ \/ hubLock' = c /\ handler'[c] = "close"
           \/ hubLock' = Nobody /\ handler'[c] = "done"
        /\ \A d \in Conns \ {c} : handler'[d] = handler[d]
    BY <1>4, GoToType DEF Unregister
  <2> QED
    BY <1>4, <2>1, HubAssumption DEF Unregister, LocksHeld, broadcast
<1>5. CASE Close(c)
  <2>1. /\ handler[c] = "close" /\ hubLock' = Nobody /\ handler'[c] = "done"
        /\ \A d \in Conns \ {c} : handler'[d] = handler[d]
    BY <1>5, GoToType DEF Close
  <2> QED
    BY <1>5, <2>1, HubAssumption DEF Close, LocksHeld, broadcast
<1> QED
  BY <1>1, <1>2, <1>3, <1>4, <1>5 DEF Serve

LEMMA LocksBroadcast ==
    ASSUME TypeOK, LocksHeld, Change \/ Broadcast
    PROVE  LocksHeld'
<1>1. CASE Change \/ CopyClients \/ EndBroadcast \/ RemoveFailed
  BY <1>1 DEF Change, CopyClients, EndBroadcast, RemoveFailed, LocksHeld,
              connections
<1>2. ASSUME NEW c \in Conns, BeginSend(c)
      PROVE  LocksHeld'
  BY <1>2 DEF BeginSend, Lock, TypeOK, LocksHeld, Nobody, connections
<1>3. CASE EndSend
  <2>1. pollerPc = "sending" /\ pollerPc' = "send"
        /\ connLock' = [connLock EXCEPT ![current] = Nobody]
        /\ UNCHANGED <<hubLock, handler>>
    BY <1>3 DEF EndSend, Unlock, connections
  <2> QED
    BY <2>1 DEF TypeOK, LocksHeld, Nobody
<1> QED
  BY <1>1, <1>2, <1>3 DEF Broadcast

LEMMA LocksStep == TypeOK /\ LocksHeld /\ [Next]_vars => LocksHeld'
<1>1. TypeOK /\ LocksHeld /\ UNCHANGED vars => LocksHeld'
  BY DEF vars, connections, broadcast, LocksHeld
<1> QED
  BY <1>1, LocksBrowser, LocksServe, LocksBroadcast DEF Next

LEMMA LocksInvariant == Spec => [](TypeOK /\ LocksHeld)
<1> QED
  BY HubTyped, LocksInit, LocksStep, PTL DEF Spec

(* A connection has one writer at a time, which gorilla/websocket demands,   *)
(* and is not closed under a write, though the poller's goroutine and its    *)
(* handler both use it (safeConn.go: the mutex guards WriteMessage and       *)
(* Close).                                                                   *)
THEOREM OneWriter ==
    Spec => [][\A c \in Conns : pollerPc = "sending" /\ current = c =>
                  /\ handler[c] # "writing" /\ handler'[c] # "writing"
                  /\ c \in open => c \in open']_vars
<1>1. ASSUME TypeOK, LocksHeld, [Next]_vars, NEW c \in Conns,
             pollerPc = "sending", current = c
      PROVE  /\ handler[c] # "writing" /\ handler'[c] # "writing"
             /\ c \in open => c \in open'
  <2>1. connLock[c] = "poller" /\ handler[c] # "writing"
    BY <1>1 DEF LocksHeld, Nobody
  <2>2. ASSUME NEW d \in Conns,
               Connect(d) \/ Stall(d) \/ Leave(d) \/ Serve(d) \/ ReadFails(d)
        PROVE  handler'[c] # "writing" /\ (c \in open => c \in open')
    <3>1. CASE d = c
      BY <1>1, <2>1, <2>2, <3>1 DEF Connect, Stall, Leave, Serve, Register,
         QuerySnapshot, BeginSnapshot, EndSnapshot, ReadFails, Unregister, Close,
         Lock, GoTo, TypeOK, LocksHeld, Nobody
    <3>2. CASE d # c
      BY <1>1, <2>1, <2>2, <3>2 DEF Connect, Stall, Leave, Serve, Register,
         QuerySnapshot, BeginSnapshot, EndSnapshot, ReadFails, Unregister, Close,
         GoTo, TypeOK
    <3> QED
      BY <3>1, <3>2
  <2>3. CASE Change \/ Broadcast \/ UNCHANGED vars
    BY <2>1, <2>3 DEF Change, Broadcast, CopyClients, BeginSend, EndSend,
       EndBroadcast, RemoveFailed, connections, vars
  <2> QED
    BY <1>1, <2>1, <2>2, <2>3 DEF Next
<1>2. TypeOK /\ LocksHeld /\ [Next]_vars
         => [\A c \in Conns : pollerPc = "sending" /\ current = c =>
                /\ handler[c] # "writing" /\ handler'[c] # "writing"
                /\ c \in open => c \in open']_vars
  BY <1>1
<1> QED
  BY <1>2, LocksInvariant, PTL DEF Spec

(* The mutexes never wait for each other in a circle, although Unregister    *)
(* takes a connection's while it holds the hub's: every chain of waiting     *)
(* ends at a write, and so at a peer that does not read (hub.go, safeConn.go).*)
THEOREM NoLockCycle == Spec => []WaitsEndInWrites
<1>1. TypeOK /\ LocksHeld => WaitsEndInWrites
  BY HubAssumption DEF TypeOK, LocksHeld, WaitsEndInWrites, Writing, Nobody
<1> QED
  BY <1>1, LocksInvariant, PTL
=============================================================================
