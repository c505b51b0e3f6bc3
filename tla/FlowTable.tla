------------------------------ MODULE FlowTable ------------------------------
(***************************************************************************)
(* The server side of one tcpConn (tcp_linux.go): the table of TCP flows   *)
(* and the goroutines that share it.                                       *)
(*                                                                         *)
(*   captureFlow  one per raw IP handle: reads a packet, finds or creates  *)
(*                its flow (lockflow), updates it, queues its payload      *)
(*   accept loop  takes the kernel's accepted sockets and binds each one   *)
(*                to the flow of its remote address                        *)
(*   cleaner      removes the flows that have been idle for `expire`       *)
(*   Close        runs once, in its caller's goroutine                     *)
(*   application  ReadFrom, then WriteTo the address it has read from      *)
(*                                                                         *)
(* Each critical section of the code (a shard's flowsLocks, a flow's own   *)
(* mutex, a channel operation) is one action.  lockflow releases the shard *)
(* before it calls its argument, so the flow it has found is used in a     *)
(* LATER action: that gap is what the module is about.  A flow's seq and   *)
(* ack are the subject of SeqAck and are left out here.                    *)
(***************************************************************************)
EXTENDS Naturals, Sequences, FiniteSets

CONSTANTS
  Keys,         \* addrKey: remote address and port
  Flows,        \* tcpFlow objects that new(tcpFlow) may return (a bound)
  Socks,        \* the *net.TCPConn AcceptTCP returns (a bound)
  Handles,      \* conn.handles, the raw IP sockets
  IPv6Handles,  \* those bound to an IPv6 address
  Apps,         \* application goroutines
  Sharding,     \* conn.sharding
  ShardOf,      \* key.HashNumber() & (sharding - 1)
  ChanCap,      \* capacity of chMessage (2048 in the code)
  Batch,        \* captureFlow reads with ReadBatch (pc # nil, BatchSize >= 2)
  Prompt,       \* no goroutine stalls for a minute between two steps
  None

ASSUME FlowTableAssumption ==
  /\ Sharding \in Nat \ {0}
  /\ ShardOf \in [Keys -> 0 .. Sharding - 1]
  /\ ChanCap \in Nat
  /\ IPv6Handles \subseteq Handles
  /\ Batch \in BOOLEAN /\ Prompt \in BOOLEAN
  /\ None \notin Keys \cup Flows \cup Socks \cup Handles

VARIABLES
  table,      \* flowTables of all the shards: key -> flow, None: no entry
  fkey,       \* the key a flow was created for, None: not allocated
  conn,       \* tcpFlow.conn
  handle,     \* tcpFlow.handle
  idle,       \* the flows whose ts is more than `expire` ago
  sock,       \* state of the accepted sockets
  listener,   \* conn.listener
  hopen,      \* the handles that are open
  die,        \* conn.die is closed
  chMessage,  \* captured payloads, oldest first
  cap,        \* captureFlow: program counter and locals, per handle
  acc,        \* accept loop
  cln,        \* cleaner
  cls,        \* Close
  app,        \* application
  panic       \* "no", or why the process has crashed

flowVars == <<fkey, conn, handle, idle>>
vars == <<table, flowVars, sock, listener, hopen, die, chMessage,
          cap, acc, cln, cls, app, panic>>

CapState == [pc : {"read", "flow", "push", "done"}, key : Keys \cup {None},
             flow : Flows \cup {None}, orphan : BOOLEAN]
AccState == [pc : {"accept", "lock", "bind", "done"}, sock : Socks \cup {None},
             key : Keys \cup {None}, flow : Flows \cup {None}]
AppState == [pc : {"idle", "got", "flow"}, key : Keys \cup {None},
             flow : Flows \cup {None}, via : Handles \cup {None}]
Message == [key : Keys, flow : Flows]
CapIdle == [pc |-> "read", key |-> None, flow |-> None, orphan |-> FALSE]
AccIdle == [pc |-> "accept", sock |-> None, key |-> None, flow |-> None]
AppIdle == [pc |-> "idle", key |-> None, flow |-> None, via |-> None]

(* The shape of the state; the queue of payloads never exceeds the        *)
(* capacity that make(chan message, 2048) gives it.                        *)
TypeOK ==
  /\ table \in [Keys -> Flows \cup {None}]
  /\ fkey \in [Flows -> Keys \cup {None}]
  /\ conn \in [Flows -> Socks \cup {None}]
  /\ handle \in [Flows -> Handles \cup {None}]
  /\ idle \in SUBSET Flows
  /\ sock \in [Socks -> {"none", "open", "closed"}]
  /\ listener \in {"nil", "failed", "open", "closed"}
  /\ hopen \in SUBSET Handles
  /\ die \in BOOLEAN
  /\ chMessage \in Seq(Message) /\ Len(chMessage) <= ChanCap
  /\ cap \in [Handles -> CapState]
  /\ acc \in AccState
  /\ cln \in [pc : {"wait", "sweep", "done"}, shard : Nat]
  /\ cls \in [pc : {"open", "listener", "sweep", "handles", "done"}, shard : Nat]
  /\ app \in [Apps -> AppState]
  /\ panic \in {"no", "listener", "ipv6", "batch"}

(* Listen has opened the handles and started a captureFlow on each; the    *)
(* TCP listener does not exist yet.                                        *)
Init ==
  /\ table = [k \in Keys |-> None]
  /\ fkey = [f \in Flows |-> None]
  /\ conn = [f \in Flows |-> None]
  /\ handle = [f \in Flows |-> None]
  /\ idle = {}
  /\ sock = [s \in Socks |-> "none"]
  /\ listener = "nil"
  /\ hopen = Handles
  /\ die = FALSE
  /\ chMessage = <<>>
  /\ cap = [h \in Handles |-> CapIdle]
  /\ acc = AccIdle
  /\ cln = [pc |-> "wait", shard |-> 0]
  /\ cls = [pc |-> "open", shard |-> 0]
  /\ app = [a \in Apps |-> AppIdle]
  /\ panic = "no"

-----------------------------------------------------------------------------
(* A panic in any goroutine ends the process.                              *)
Running == panic = "no"

(* Listen, from ListenTCP on: it fails and Listen returns the error, or    *)
(* conn.listener is set and the accept loop and the cleaner start.         *)
Listen ==
  /\ Running
  /\ listener = "nil"
  /\ listener' \in {"failed", "open"}
  /\ UNCHANGED <<table, flowVars, sock, hopen, die, chMessage, cap, acc, cln, cls, app, panic>>

(* lockflow, the part under the shard's lock: f is the flow of k, created  *)
(* when there is none.  Creating it logs conn.listener.Addr(), which only  *)
(* a listener that is set survives.                                        *)
lockflow(k, f) ==
  \/ /\ table[k] = f
     /\ UNCHANGED <<table, fkey>>
  \/ /\ table[k] = None
     /\ listener \in {"open", "closed"}
     /\ fkey[f] = None
     /\ fkey' = [fkey EXCEPT ![f] = k]
     /\ table' = [table EXCEPT ![k] = f]

-----------------------------------------------------------------------------
(* captureFlow and decodeTCPPacket on handle h                             *)

(* A bound: the flow objects are finite, and the one an accepted socket is *)
(* about to need is kept for it.                                           *)
SpareFlow ==
  \/ acc.pc # "lock"
  \/ \E f, g \in Flows : f # g /\ fkey[f] = None /\ fkey[g] = None

(* A packet of k has passed the port filter; its flow is looked up.        *)
captureFlow(h, k) ==
  /\ Running
  /\ cap[h].pc = "read"
  /\ h \in hopen \ IPv6Handles
  /\ table[k] = None => SpareFlow
  /\ \E f \in Flows :
       /\ lockflow(k, f)
       /\ cap' = [cap EXCEPT ![h] = [pc |-> "flow", key |-> k, flow |-> f,
                                     orphan |-> FALSE]]
  /\ UNCHANGED <<conn, handle, idle, sock, listener, hopen, die, chMessage, acc, cln, cls, app, panic>>

(* The same packet ends the process: its source is an IPv6 address         *)
(* (Uint32(src.IP.To4()) of a nil slice; ReadBatch's loop skips it), or    *)
(* its flow has to be created while conn.listener is nil.                  *)
capturePanics(h, k) ==
  /\ Running
  /\ cap[h].pc = "read"
  /\ h \in hopen
  /\ \/ /\ h \in IPv6Handles /\ ~Batch
        /\ panic' = "ipv6"
     \/ /\ h \notin IPv6Handles
        /\ table[k] = None
        /\ listener \in {"nil", "failed"}
        /\ panic' = "listener"
  /\ UNCHANGED <<table, flowVars, sock, listener, hopen, die, chMessage, cap, acc, cln, cls, app>>

UpdateStoringBack(h) ==  \* faulty: the entry is stored again after its update
  LET f == cap[h].flow IN
  /\ Running
  /\ cap[h].pc = "flow"
  /\ table' = [table EXCEPT ![cap[h].key] = f]
  /\ cap' = [cap EXCEPT ![h].pc = "push", ![h].orphan = (conn[f] = None)]
  /\ idle' = idle \ {f}
  /\ handle' = [handle EXCEPT ![f] = h]
  /\ UNCHANGED <<fkey, conn, sock, listener, hopen, die, chMessage, acc, cln, cls, app, panic>>

(* lockflow's argument, under the flow's own mutex.                        *)
updateFlow(h) ==
  LET f == cap[h].flow IN
  /\ Running
  /\ cap[h].pc = "flow"
  /\ cap' = [cap EXCEPT ![h].pc = "push", ![h].orphan = (conn[f] = None)]
  /\ idle' = idle \ {f}
  /\ handle' = [handle EXCEPT ![f] = h]
  /\ UNCHANGED <<table, fkey, conn, sock, listener, hopen, die, chMessage, acc, cln, cls, app, panic>>

PushOrphans(h, psh) ==  \* faulty: orphans are queued too
  /\ Running
  /\ cap[h].pc = "push"
  /\ chMessage' = IF psh /\ Len(chMessage) < ChanCap
                  THEN Append(chMessage, [key |-> cap[h].key, flow |-> cap[h].flow])
                  ELSE chMessage
  /\ cap' = [cap EXCEPT ![h] = CapIdle]
  /\ UNCHANGED <<table, flowVars, sock, listener, hopen, die, acc, cln, cls, app, panic>>

PushBeyondCapacity(h, psh) ==  \* faulty: the queue has no capacity
  /\ Running
  /\ cap[h].pc = "push"
  /\ chMessage' = IF psh /\ ~cap[h].orphan
                  THEN Append(chMessage, [key |-> cap[h].key, flow |-> cap[h].flow])
                  ELSE chMessage
  /\ cap' = [cap EXCEPT ![h] = CapIdle]
  /\ UNCHANGED <<table, flowVars, sock, listener, hopen, die, acc, cln, cls, app, panic>>

(* The payload of a PSH packet is queued unless its flow was an orphan,    *)
(* the queue is full or, by the select's choice, conn.die is closed.  psh  *)
(* is the packet's flag: nothing before this step depends on it.           *)
pushMessage(h, psh) ==
  /\ Running
  /\ cap[h].pc = "push"
  /\ \/ /\ psh /\ ~cap[h].orphan
        /\ Len(chMessage) < ChanCap
        /\ chMessage' = Append(chMessage, [key |-> cap[h].key, flow |-> cap[h].flow])
     \/ /\ ~psh \/ cap[h].orphan \/ Len(chMessage) = ChanCap \/ die
        /\ UNCHANGED chMessage
  /\ cap' = [cap EXCEPT ![h] = CapIdle]
  /\ UNCHANGED <<table, flowVars, sock, listener, hopen, die, acc, cln, cls, app, panic>>

(* Reading from the closed handle fails: ReadFromIP's error ends the       *)
(* goroutine, ReadBatch's panics.                                          *)
captureEnds(h) ==
  /\ Running
  /\ cap[h].pc = "read"
  /\ h \notin hopen
  /\ IF Batch
     THEN panic' = "batch" /\ UNCHANGED cap
     ELSE cap' = [cap EXCEPT ![h].pc = "done"] /\ UNCHANGED panic
  /\ UNCHANGED <<table, flowVars, sock, listener, hopen, die, chMessage, acc, cln, cls, app>>

-----------------------------------------------------------------------------
(* The accept loop of Listen                                               *)

(* AcceptTCP returns the socket of a completed handshake with k, whose     *)
(* TTL is set to 1.                                                        *)
AcceptTCP(s, k) ==
  /\ Running
  /\ acc.pc = "accept"
  /\ listener = "open"
  /\ sock[s] = "none"
  /\ \E f \in Flows : fkey[f] = None   \* a bound, see SpareFlow
  /\ sock' = [sock EXCEPT ![s] = "open"]
  /\ acc' = [pc |-> "lock", sock |-> s, key |-> k, flow |-> None]
  /\ UNCHANGED <<table, flowVars, listener, hopen, die, chMessage, cap, cln, cls, app, panic>>

AcceptLockflow ==
  /\ Running
  /\ acc.pc = "lock"
  /\ \E f \in Flows :
       /\ lockflow(acc.key, f)
       /\ acc' = [acc EXCEPT !.pc = "bind", !.flow = f]
  /\ UNCHANGED <<conn, handle, idle, sock, listener, hopen, die, chMessage, cap, cln, cls, app, panic>>

(* e.conn = tcpconn, under no lock; then the socket is filtered.           *)
AcceptBind ==
  /\ Running
  /\ acc.pc = "bind"
  /\ conn' = [conn EXCEPT ![acc.flow] = acc.sock]
  /\ acc' = AccIdle
  /\ UNCHANGED <<table, fkey, handle, idle, sock, listener, hopen, die, chMessage, cap, cln, cls, app, panic>>

AcceptEnds ==
  /\ Running
  /\ acc.pc = "accept"
  /\ listener = "closed"
  /\ acc' = [acc EXCEPT !.pc = "done"]
  /\ UNCHANGED <<table, flowVars, sock, listener, hopen, die, chMessage, cap, cln, cls, app, panic>>

-----------------------------------------------------------------------------
SweepWithoutDelete(K) ==  \* faulty: the entries stay in the table
  /\ sock' = [s \in Socks |-> IF \E k \in K : table[k] # None /\ conn[table[k]] = s
                              THEN "closed" ELSE sock[s]]
  /\ UNCHANGED table

(* The entries of K, all of one shard, are removed under its lock and the  *)
(* sockets bound to them closed.                                           *)
Sweep(K) ==
  /\ sock' = [s \in Socks |-> IF \E k \in K : table[k] # None /\ conn[table[k]] = s
                              THEN "closed" ELSE sock[s]]
  /\ table' = [k \in Keys |-> IF k \in K THEN None ELSE table[k]]

(* A minute passes since the last packet of a flow in the table.  Unless   *)
(* Prompt, goroutines that have or will look it up may sleep through it.   *)
Held(f) ==
  \/ acc.flow = f
  \/ acc.pc = "lock" /\ table[acc.key] = f
  \/ \E h \in Handles : cap[h].flow = f

FlowIdles(k) ==
  /\ Running
  /\ table[k] # None
  /\ table[k] \notin idle
  /\ Prompt => ~Held(table[k])
  /\ idle' = idle \cup {table[k]}
  /\ UNCHANGED <<table, fkey, conn, handle, sock, listener, hopen, die, chMessage, cap, acc, cln, cls, app, panic>>

(* cleaner: the ticker fires (or, by the select's choice, conn.die).       *)
cleanerTick ==
  /\ Running
  /\ cln.pc = "wait"
  /\ listener \in {"open", "closed"}
  /\ cln' = [pc |-> "sweep", shard |-> 0]
  /\ UNCHANGED <<table, flowVars, sock, listener, hopen, die, chMessage, cap, acc, cls, app, panic>>

cleanerShard ==
  /\ Running
  /\ cln.pc = "sweep"
  /\ Sweep({k \in Keys : ShardOf[k] = cln.shard /\ table[k] \in idle})
  /\ cln' = IF cln.shard + 1 = Sharding THEN [pc |-> "wait", shard |-> 0]
                                        ELSE [cln EXCEPT !.shard = @ + 1]
  /\ UNCHANGED <<flowVars, listener, hopen, die, chMessage, cap, acc, cls, app, panic>>

cleanerEnds ==
  /\ Running
  /\ cln.pc = "wait"
  /\ die
  /\ cln' = [cln EXCEPT !.pc = "done"]
  /\ UNCHANGED <<table, flowVars, sock, listener, hopen, die, chMessage, cap, acc, cls, app, panic>>

-----------------------------------------------------------------------------
(* Close, the body of dieOnce.  Only the caller of a Listen that succeeded *)
(* has a connection to close.                                              *)
CloseDie ==
  /\ Running
  /\ cls.pc = "open"
  /\ listener = "open"
  /\ die' = TRUE
  /\ cls' = [pc |-> "listener", shard |-> 0]
  /\ UNCHANGED <<table, flowVars, sock, listener, hopen, chMessage, cap, acc, cln, app, panic>>

CloseKeepsListening ==  \* faulty: the listener is left open
  /\ Running
  /\ cls.pc = "listener"
  /\ cls' = [pc |-> "sweep", shard |-> 0]
  /\ UNCHANGED <<table, flowVars, sock, listener, hopen, die, chMessage, cap, acc, cln, app, panic>>

CloseListener ==
  /\ Running
  /\ cls.pc = "listener"
  /\ listener' = "closed"
  /\ cls' = [pc |-> "sweep", shard |-> 0]
  /\ UNCHANGED <<table, flowVars, sock, hopen, die, chMessage, cap, acc, cln, app, panic>>

CloseShard ==
  /\ Running
  /\ cls.pc = "sweep"
  /\ Sweep({k \in Keys : ShardOf[k] = cls.shard})
  /\ cls' = IF cls.shard + 1 = Sharding THEN [pc |-> "handles", shard |-> 0]
                                        ELSE [cls EXCEPT !.shard = @ + 1]
  /\ UNCHANGED <<flowVars, listener, hopen, die, chMessage, cap, acc, cln, app, panic>>

CloseForgetsHandles ==  \* faulty: the handles stay open
  /\ Running
  /\ cls.pc = "handles"
  /\ cls' = [cls EXCEPT !.pc = "done"]
  /\ UNCHANGED <<table, flowVars, sock, listener, hopen, die, chMessage, cap, acc, cln, app, panic>>

(* The handles are closed one after the other; the last steps of Close     *)
(* (iptables, connList) touch nothing of this module.                      *)
CloseHandles ==
  /\ Running
  /\ cls.pc = "handles"
  /\ \/ /\ \E h \in hopen : hopen' = hopen \ {h}
        /\ UNCHANGED cls
     \/ /\ hopen = {}
        /\ cls' = [cls EXCEPT !.pc = "done"]
        /\ UNCHANGED hopen
  /\ UNCHANGED <<table, flowVars, sock, listener, die, chMessage, cap, acc, cln, app, panic>>

-----------------------------------------------------------------------------
(* The application: ReadFrom, then WriteTo the address it was given.       *)
ReadFrom(a) ==
  /\ Running
  /\ app[a].pc = "idle"
  /\ chMessage # <<>>
  /\ chMessage' = Tail(chMessage)
  /\ app' = [app EXCEPT ![a] = [pc |-> "got", key |-> Head(chMessage).key,
                                flow |-> None, via |-> None]]
  /\ UNCHANGED <<table, flowVars, sock, listener, hopen, die, cap, acc, cln, cls, panic>>

(* WriteTo up to getflow: io.EOF once die is closed, ErrFlowNotFound when  *)
(* the flow is gone.                                                       *)
getflow(a) ==
  /\ Running
  /\ app[a].pc = "got"
  /\ app' = [app EXCEPT ![a] = IF die \/ table[app[a].key] = None
                               THEN AppIdle
                               ELSE [@ EXCEPT !.pc = "flow", !.flow = table[app[a].key]]]
  /\ UNCHANGED <<table, flowVars, sock, listener, hopen, die, chMessage, cap, acc, cln, cls, panic>>

(* The rest of WriteTo, under the flow's mutex: nothing is sent without a  *)
(* handle, or through a closed one.                                        *)
WriteTo(a) ==
  /\ Running
  /\ app[a].pc = "flow"
  /\ app' = [app EXCEPT ![a].pc = "idle",
                        ![a].via = IF handle[app[a].flow] \in hopen
                                   THEN handle[app[a].flow] ELSE None]
  /\ UNCHANGED <<table, flowVars, sock, listener, hopen, die, chMessage, cap, acc, cln, cls, panic>>

-----------------------------------------------------------------------------
Next ==
  \/ Listen
  \/ \E h \in Handles, k \in Keys : captureFlow(h, k) \/ capturePanics(h, k)
  \/ \E h \in Handles : updateFlow(h) \/ captureEnds(h)
  \/ \E h \in Handles, psh \in BOOLEAN : pushMessage(h, psh)
  \/ \E s \in Socks, k \in Keys : AcceptTCP(s, k)
  \/ AcceptLockflow \/ AcceptBind \/ AcceptEnds
  \/ \E k \in Keys : FlowIdles(k)
  \/ cleanerTick \/ cleanerShard \/ cleanerEnds
  \/ CloseDie \/ CloseListener \/ CloseShard \/ CloseHandles
  \/ \E a \in Apps : ReadFrom(a) \/ getflow(a) \/ WriteTo(a)

Spec == Init /\ [][Next]_vars

(* The Go scheduler runs every runnable goroutine; a select whose two      *)
(* cases stay ready picks each of them in the end (cleanerEnds).  Nothing  *)
(* is assumed of the network, the kernel or the application.               *)
Fairness ==
  /\ \A h \in Handles : WF_vars(\/ updateFlow(h)
                                \/ \E psh \in BOOLEAN : pushMessage(h, psh)
                                \/ captureEnds(h))
  /\ WF_vars(AcceptLockflow \/ AcceptBind \/ AcceptEnds)
  /\ WF_vars(cleanerShard)
  /\ SF_vars(cleanerEnds)
  /\ WF_vars(CloseListener \/ CloseShard \/ CloseHandles)

FairSpec == Spec /\ Fairness

-----------------------------------------------------------------------------
(* What the code keeps                                                     *)

InTable(f) == \E k \in Keys : table[k] = f
Bound(k) == table[k] # None /\ conn[table[k]] # None
CloseHasSwept == cls.pc \in {"handles", "done"}

(* "The data the upper layer reads is never an orphan's" (pushMessage's    *)
(* comment): every queued payload was captured on a flow that an accepted  *)
(* socket was bound to, whatever the cleaner, the accept loop and other    *)
(* handles did between the lookup, the update and the push.                *)
DeliveredNotOrphan ==
  \A i \in 1 .. Len(chMessage) : conn[chMessage[i].flow] # None

(* A flow in the table never refers to a socket that cleaner or Close has  *)
(* closed: closing a socket and forgetting its flow are one critical       *)
(* section, and no late lockflow argument brings the flow back.            *)
TableHoldsOpenSockets ==
  \A k \in Keys : Bound(k) => sock[conn[table[k]]] = "open"

(* When Close has swept the shards, at most one bound flow is left or      *)
(* appears later: that of the single socket the accept loop had in hand    *)
(* when the listener was closed.                                           *)
CloseMissesAtMostOne ==
  CloseHasSwept => \A k1, k2 \in Keys : Bound(k1) /\ Bound(k2) => k1 = k2

(* A flow that has left the table never returns to it: goroutines that     *)
(* still hold it update an object nobody else will find.                   *)
FlowsStayRemoved ==
  [][\A f \in Flows : fkey[f] # None /\ ~InTable(f) => ~InTable(f)']_vars

(* Close ends every goroutine of the connection, unless one of them ends   *)
(* the process first.                                                      *)
AllEnded ==
  /\ cls.pc = "done" /\ acc.pc = "done" /\ cln.pc = "done"
  /\ \A h \in Handles : cap[h].pc = "done"
CloseEndsGoroutines == cls.pc # "open" ~> (AllEnded \/ panic # "no")

-----------------------------------------------------------------------------
(* What the repository says and the code does not keep                     *)

(* faketcp/readme.md:13, the accept loop "records flow.conn = realtcpsocket *)
(* to show that the flow is not an orphan": the flow that later packets of  *)
(* an accepted, still open connection find is not an orphan, until Close.  *)
AcceptedIsNotOrphan ==
  \A f \in Flows :
    (~die /\ conn[f] # None /\ sock[conn[f]] = "open" /\ table[fkey[f]] # None)
      => Bound(fkey[f])
=============================================================================
