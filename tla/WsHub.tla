-------------------------------- MODULE WsHub --------------------------------
(* The WebSocket hub (ws/hub.go, ws/safeConn.go), the handlers that serve    *)
(* its connections (api/ws.go) and the poller's goroutine, the only one that *)
(* calls Broadcast (statemachine.go and poller.go).  Two kinds of mutex are  *)
(* involved, and one is taken while the other is held:                       *)
(*   hub.mu   Register, Unregister and the removal of failed connections     *)
(*            exclude each other and Broadcast's copy of the map;            *)
(*            Unregister holds it while it closes the connection;            *)
(*   conn.mu  a write holds it until it returns, and Close takes it.         *)
(* A write has no deadline: on a connection whose peer has stopped reading   *)
(* it blocks once the buffers are full, and that is what "stalled" means.    *)
EXTENDS Naturals, FiniteSets

CONSTANTS
    Conns,          \* connections; one that has ended is never used again
    Stalling,       \* those whose peer may stop reading without closing
    MaxVersion      \* bound: how many changes the poller broadcasts

Nobody == "nobody"

ASSUME HubAssumption ==
    Nobody \notin Conns /\ Stalling \subseteq Conns /\ MaxVersion \in Nat

VARIABLES
    clients,        \* Hub.clients
    hubLock,        \* the connection whose handler holds hub.mu, or Nobody
    connLock,       \* who holds conn.mu: Nobody, "handler" or "poller"
    open,           \* sockets the server has not closed
    peer,           \* "absent", "reading", "stalled" or "gone"
    handler,        \* where WSHandler stands
    snapshot,       \* the version sendSnapshot has read
    newest,         \* the newest version the peer has received
    version,        \* version of the hosts' states in the database
    pollerPc,       \* where Broadcast stands in the poller's goroutine
    targets,        \* Broadcast's copy of the map, as far as not yet served
    current,        \* the connection it writes to
    failed          \* its list failed

connections == <<open, peer, handler, snapshot>>
broadcast   == <<version, pollerPc, targets, current, failed>>
vars == <<clients, hubLock, connLock, newest, connections, broadcast>>

Registered == {"query", "write", "writing", "read", "unregister"}
HandlerPc  == {"none", "register", "close", "done"} \cup Registered

(* Types, and Broadcast never goes back to a connection that has failed.     *)
TypeOK ==
    /\ clients \in SUBSET Conns /\ open \in SUBSET Conns
    /\ hubLock \in Conns \cup {Nobody}
    /\ connLock \in [Conns -> {Nobody, "handler", "poller"}]
    /\ peer \in [Conns -> {"absent", "reading", "stalled", "gone"}]
    /\ handler \in [Conns -> HandlerPc]
    /\ snapshot \in [Conns -> 0..MaxVersion]
    /\ newest \in [Conns -> 0..MaxVersion]
    /\ version \in 0..MaxVersion
    /\ pollerPc \in {"idle", "copy", "send", "sending", "remove"}
    /\ targets \in SUBSET Conns /\ failed \in SUBSET Conns
    /\ current \in Conns \cup {Nobody}
    /\ targets \cap failed = {}

Init ==
    /\ clients = {} /\ open = {} /\ hubLock = Nobody
    /\ connLock = [c \in Conns |-> Nobody]
    /\ peer = [c \in Conns |-> "absent"] /\ handler = [c \in Conns |-> "none"]
    /\ snapshot = [c \in Conns |-> 0] /\ newest = [c \in Conns |-> 0]
    /\ version = 0 /\ pollerPc = "idle"
    /\ targets = {} /\ current = Nobody /\ failed = {}

GoTo(c, label) == handler' = [handler EXCEPT ![c] = label]
Lock(c, owner) == connLock[c] = Nobody /\ connLock' = [connLock EXCEPT ![c] = owner]

(* Mutated form: the mutex is released only when the write has succeeded.    *)
UnlockOnSuccess(c) ==
    IF peer[c] = "gone" THEN connLock ELSE [connLock EXCEPT ![c] = Nobody]

Unlock(c) == [connLock EXCEPT ![c] = Nobody]

(* What a write of version v to c has done when it returns: the peer has it, *)
(* or it is lost.  It does not return while the peer is stalled.             *)
Received(c, v) ==
    /\ peer[c] # "stalled" \/ c \notin open
    /\ newest' = IF peer[c] = "reading" /\ c \in open /\ v > newest[c]
                    THEN [newest EXCEPT ![c] = v] ELSE newest

-----------------------------------------------------------------------------
(* The browser at the other end.                                             *)

Connect(c) ==
    /\ handler[c] = "none"
    /\ peer' = [peer EXCEPT ![c] = "reading"]
    /\ open' = open \cup {c}
    /\ GoTo(c, "register")
    /\ UNCHANGED <<clients, hubLock, connLock, newest, snapshot, broadcast>>

Stall(c) ==
    /\ c \in Stalling /\ peer[c] = "reading"
    /\ peer' = [peer EXCEPT ![c] = "stalled"]
    /\ UNCHANGED <<clients, hubLock, connLock, newest, open, handler, snapshot,
                   broadcast>>

Leave(c) ==
    /\ peer[c] \in {"reading", "stalled"}
    /\ peer' = [peer EXCEPT ![c] = "gone"]
    /\ UNCHANGED <<clients, hubLock, connLock, newest, open, handler, snapshot,
                   broadcast>>

-----------------------------------------------------------------------------
(* WSHandler.                                                                *)

Register(c) ==
    /\ handler[c] = "register" /\ hubLock = Nobody
    /\ clients' = clients \cup {c}
    /\ GoTo(c, "query")
    /\ UNCHANGED <<hubLock, connLock, newest, open, peer, snapshot, broadcast>>

(* sendSnapshot reads the database, then writes what it has read, whatever   *)
(* has been broadcast in the meantime; an error of the write is ignored.     *)
QuerySnapshot(c) ==
    /\ handler[c] = "query"
    /\ snapshot' = [snapshot EXCEPT ![c] = version]
    /\ GoTo(c, "write")
    /\ UNCHANGED <<clients, hubLock, connLock, newest, open, peer, broadcast>>

BeginSnapshot(c) ==
    /\ handler[c] = "write" /\ Lock(c, "handler")
    /\ GoTo(c, "writing")
    /\ UNCHANGED <<clients, hubLock, newest, open, peer, snapshot, broadcast>>

EndSnapshot(c) ==
    /\ handler[c] = "writing"
    /\ Received(c, snapshot[c])
    /\ connLock' = Unlock(c)
    /\ GoTo(c, "read")
    /\ UNCHANGED <<clients, hubLock, open, peer, snapshot, broadcast>>

(* The read loop ends with the connection, or 60 seconds after the peer last *)
(* sent anything; a browser that only listens sends nothing.                 *)
ReadFails(c) ==
    /\ handler[c] = "read"
    /\ GoTo(c, "unregister")
    /\ UNCHANGED <<clients, hubLock, connLock, newest, open, peer, snapshot,
                   broadcast>>

(* Mutated form: Unregister forgets the map.                                 *)
WithoutKept(S) == clients

Without(S) == clients \ S

(* Unregister does nothing to a connection that Broadcast has removed.       *)
Unregister(c) ==
    /\ handler[c] = "unregister" /\ hubLock = Nobody
    /\ clients' = Without({c})
    /\ \/ c \in clients /\ hubLock' = c /\ GoTo(c, "close")
       \/ c \notin clients /\ hubLock' = Nobody /\ GoTo(c, "done")
    /\ UNCHANGED <<connLock, newest, open, peer, snapshot, broadcast>>

(* SafeConn.Close, called with hub.mu held.                                  *)
Close(c) ==
    /\ handler[c] = "close" /\ connLock[c] = Nobody
    /\ open' = open \ {c}
    /\ hubLock' = Nobody
    /\ GoTo(c, "done")
    /\ UNCHANGED <<clients, connLock, newest, peer, snapshot, broadcast>>

-----------------------------------------------------------------------------
(* Broadcast, in the poller's goroutine.                                     *)

(* A transition or a poll's summary: the database changes, then Broadcast is *)
(* called.  What handlers change (UpdateHost, ForceSet) is announced to      *)
(* nobody and is not a change here: a page learns of it from the summary of  *)
(* the next poll.                                                            *)
Change ==
    /\ pollerPc = "idle" /\ version < MaxVersion
    /\ version' = version + 1
    /\ pollerPc' = "copy"
    /\ UNCHANGED <<clients, hubLock, connLock, newest, connections, targets,
                   current, failed>>

(* Mutated form: connections still without their snapshot are passed over.   *)
AddressedServed == {c \in clients : handler[c] = "read"}

Addressed == clients

CopyClients ==
    /\ pollerPc = "copy" /\ hubLock = Nobody
    /\ targets' = Addressed
    /\ failed' = {}
    /\ pollerPc' = "send"
    /\ UNCHANGED <<clients, hubLock, connLock, newest, connections, version,
                   current>>

BeginSend(c) ==
    /\ pollerPc = "send" /\ c \in targets /\ Lock(c, "poller")
    /\ current' = c
    /\ pollerPc' = "sending"
    /\ UNCHANGED <<clients, hubLock, newest, connections, version, targets, failed>>

(* Mutated form: a connection on which the write failed is tried again.      *)
RemainingFailed(c) == IF c \in open THEN targets ELSE targets \ {c}

Remaining(c) == targets \ {c}

(* A write to a peer that is gone may fail or end in a buffer.               *)
EndSend ==
    /\ pollerPc = "sending"
    /\ Received(current, version)
    /\ \/ current \in open /\ failed' = failed
       \/ /\ current \notin open \/ peer[current] = "gone"
          /\ failed' = failed \cup {current}
    /\ connLock' = Unlock(current)
    /\ targets' = Remaining(current)
    /\ current' = Nobody
    /\ pollerPc' = "send"
    /\ UNCHANGED <<clients, hubLock, connections, version>>

EndBroadcast ==
    /\ pollerPc = "send" /\ targets = {}
    /\ pollerPc' = IF failed = {} THEN "idle" ELSE "remove"
    /\ UNCHANGED <<clients, hubLock, connLock, newest, connections, version,
                   targets, current, failed>>

(* The failed connections leave the map; nobody closes them.                 *)
RemoveFailed ==
    /\ pollerPc = "remove" /\ hubLock = Nobody
    /\ clients' = clients \ failed
    /\ failed' = {}
    /\ pollerPc' = "idle"
    /\ UNCHANGED <<hubLock, connLock, newest, connections, version, targets,
                   current>>

-----------------------------------------------------------------------------
Serve(c) ==
    \/ Register(c) \/ QuerySnapshot(c) \/ BeginSnapshot(c) \/ EndSnapshot(c)
    \/ Unregister(c) \/ Close(c)

Broadcast ==
    \/ CopyClients \/ (\E c \in Conns : BeginSend(c)) \/ EndSend
    \/ EndBroadcast \/ RemoveFailed

Next ==
    \/ \E c \in Conns :
          Connect(c) \/ Stall(c) \/ Leave(c) \/ Serve(c) \/ ReadFails(c)
    \/ Change \/ Broadcast

Spec == Init /\ [][Next]_vars

(* Every goroutine that can take a step takes one, and a mutex is granted in *)
(* turn (sync.Mutex and sync.RWMutex do not starve).  The read loop is bound *)
(* to end only when the peer sends nothing any more.                         *)
Fairness ==
    /\ SF_vars(Broadcast)
    /\ \A c \in Conns :
          /\ SF_vars(Serve(c))
          /\ WF_vars(peer[c] # "reading" /\ ReadFails(c))

FairSpec == Spec /\ Fairness

-----------------------------------------------------------------------------
(* What makes the invariants inductive.                                      *)

(* Broadcast writes to one of its targets; between two broadcasts there are  *)
(* none.                                                                     *)
TargetsKnown ==
    /\ pollerPc = "sending" => current \in targets
    /\ pollerPc \in {"idle", "remove"} => targets = {}

(* Only a handler that has unregistered its connection closes it.            *)
OpenWhileServed ==
    \A c \in Conns : handler[c] \in Registered \cup {"register"} => c \in open

(* Nobody has seen a version from the future.                                *)
NoneAhead == \A c \in Conns : newest[c] <= version /\ snapshot[c] <= version

(* The latest change has reached a registered client that still listens and  *)
(* whose snapshot has been read, or is on its way: by a broadcast that has   *)
(* not come to it yet, or by its snapshot.                                   *)
OnTheWay ==
    \A c \in clients :
        handler[c] \in {"write", "writing", "read"} /\ peer[c] = "reading" =>
            \/ newest[c] = version
            \/ pollerPc = "copy" \/ c \in targets
            \/ handler[c] # "read" /\ snapshot[c] = version

-----------------------------------------------------------------------------
(* Every connection in the map has a handler that has still to unregister    *)
(* it: the map never grows for good (hub.go, Register and Unregister).       *)
RegisteredServed == \A c \in clients : handler[c] \in Registered

(* A listening client whose snapshot has been written and that is in the map *)
(* has received the latest change once no broadcast is under way:            *)
(* registration before the snapshot's query leaves no gap between the two    *)
(* (requirements 11.2 and 11.4).                                             *)
NothingMissed ==
    \A c \in clients :
        handler[c] = "read" /\ peer[c] = "reading" /\ pollerPc = "idle"
            => newest[c] = version

(* Broadcast comes to an end, and with it the transition or the summary of   *)
(* the poll that called it (requirement 11.5: a lost connection does not     *)
(* affect the rest of the system; hub.go:36: clients that fail to receive    *)
(* are silently removed).                                                    *)
BroadcastReturns == pollerPc = "copy" ~> pollerPc = "idle"

NoStallForever == \A c \in Conns : []<>(peer[c] # "stalled")

(* What holds of it: Broadcast comes to an end if every peer that stops      *)
(* reading goes away in the end.                                             *)
BroadcastOutlivesStalls == NoStallForever => BroadcastReturns

(* A connection whose peer is gone leaves the map (requirement 11.5), by the *)
(* read loop of its handler or by a write that fails, under the same         *)
(* condition on all the others.                                              *)
GoneLeaves ==
    NoStallForever => \A c \in Conns : peer[c] = "gone" ~> c \notin clients
=============================================================================
