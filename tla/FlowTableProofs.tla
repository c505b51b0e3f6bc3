--------------------------- MODULE FlowTableProofs ---------------------------
(***************************************************************************)
(* FlowTable's safety properties for every number of keys, flows, sockets, *)
(* handles and shards.                                                     *)
(***************************************************************************)
EXTENDS FlowTable, TLAPS

-----------------------------------------------------------------------------
(* The inductive invariant.                                                *)

(* An entry is filed under the key its flow was created for, and only an   *)
(* allocated flow is ever bound.                                           *)
Filed ==
  /\ \A k \in Keys : table[k] # None => fkey[table[k]] = k
  /\ \A f \in Flows : fkey[f] = None => conn[f] = None

(* What a goroutine holds between two of its steps.                        *)
CaptureHolds ==
  \A h \in Handles :
    /\ cap[h].pc \in {"flow", "push"} =>
         cap[h].flow \in Flows /\ cap[h].key \in Keys /\ fkey[cap[h].flow] = cap[h].key
    /\ cap[h].pc = "push" /\ ~cap[h].orphan => conn[cap[h].flow] # None

AcceptHolds ==
  /\ acc.pc \in {"lock", "bind"} =>
       /\ acc.sock \in Socks /\ acc.key \in Keys
       /\ sock[acc.sock] = "open"
       /\ \A f \in Flows : conn[f] # acc.sock
  /\ acc.pc = "bind" => acc.flow \in Flows /\ fkey[acc.flow] = acc.key

AppHolds ==
  \A a \in Apps : app[a].pc = "got" => app[a].key \in Keys

(* A socket is bound to one flow, after it was accepted.                   *)
BoundOnce ==
  /\ \A f, g \in Flows : conn[f] # None /\ conn[f] = conn[g] => f = g
  /\ \A f \in Flows : conn[f] # None => sock[conn[f]] # "none"

(* The part of the table Close has swept: at most one of its entries is    *)
(* bound, and then the accept loop, which cannot accept any more, has no   *)
(* socket left to bind.                                                    *)
Swept(k) == CloseHasSwept \/ (cls.pc = "sweep" /\ ShardOf[k] < cls.shard)

SweptInv ==
  /\ cls.pc \in {"sweep", "handles", "done"} => listener = "closed"
  /\ \A k \in Keys : Swept(k) /\ Bound(k) => acc.pc \in {"accept", "done"}
  /\ \A k1, k2 \in Keys : Swept(k1) /\ Swept(k2) /\ Bound(k1) /\ Bound(k2) => k1 = k2

Inv ==
  /\ TypeOK
  /\ Filed
  /\ CaptureHolds
  /\ AcceptHolds
  /\ AppHolds
  /\ BoundOnce
  /\ SweptInv
  /\ DeliveredNotOrphan
  /\ TableHoldsOpenSockets

-----------------------------------------------------------------------------
(* Lemmas on the two operators that change the table.                      *)

(* lockflow returns the flow filed under k and binds nothing: the bound    *)
(* entries are those that were bound.                                      *)
LEMMA LockflowFacts ==
  ASSUME NEW k \in Keys, NEW f \in Flows, Inv, lockflow(k, f), UNCHANGED conn
  PROVE  /\ table' \in [Keys -> Flows \cup {None}]
         /\ fkey' \in [Flows -> Keys \cup {None}]
         /\ fkey'[f] = k
         /\ \A g \in Flows : fkey[g] # None => fkey'[g] = fkey[g]
         /\ Filed'
         /\ \A j \in Keys : Bound(j)' => Bound(j) /\ table'[j] = table[j]
<1>1. CASE table[k] = f /\ UNCHANGED <<table, fkey>>
  BY <1>1, FlowTableAssumption DEF Inv, TypeOK, Filed, Bound
<1>2. CASE /\ table[k] = None
           /\ fkey[f] = None
           /\ fkey' = [fkey EXCEPT ![f] = k]
           /\ table' = [table EXCEPT ![k] = f]
  <2>1. conn[f] = None
    BY <1>2 DEF Inv, Filed
  <2>2. Filed'
    BY <1>2, FlowTableAssumption DEF Inv, TypeOK, Filed
  <2> QED
    BY <1>2, <2>1, <2>2, FlowTableAssumption DEF Inv, TypeOK, Bound
<1> QED  BY <1>1, <1>2 DEF lockflow

(* A sweep unbinds entries and closes only sockets of the entries it       *)
(* removes: every entry that stays keeps its open socket, and the socket   *)
(* the accept loop has in hand stays open.                                 *)
LEMMA SweepFacts ==
  ASSUME NEW K \in SUBSET Keys, Inv, Sweep(K), UNCHANGED <<fkey, conn, acc>>
  PROVE  /\ table' \in [Keys -> Flows \cup {None}]
         /\ sock' \in [Socks -> {"none", "open", "closed"}]
         /\ \A k \in Keys : Bound(k)' => Bound(k) /\ k \notin K
         /\ Filed' /\ AcceptHolds' /\ BoundOnce' /\ TableHoldsOpenSockets'
<1>1. table' \in [Keys -> Flows \cup {None}] /\ sock' \in [Socks -> {"none", "open", "closed"}]
  BY DEF Inv, TypeOK, Sweep
<1>2. \A k \in Keys : Bound(k)' => Bound(k) /\ k \notin K /\ table'[k] = table[k]
  BY DEF Inv, TypeOK, Sweep, Bound
<1>3. Filed'
  BY DEF Inv, TypeOK, Filed, Sweep
<1>4. AcceptHolds'
  BY FlowTableAssumption DEF Inv, TypeOK, AcceptHolds, Sweep
<1>5. BoundOnce'
  BY DEF Inv, TypeOK, BoundOnce, Sweep
<1>6. TableHoldsOpenSockets'
  BY <1>2 DEF Inv, TypeOK, TableHoldsOpenSockets, Sweep, Bound, BoundOnce, Filed
<1> QED  BY <1>1, <1>2, <1>3, <1>4, <1>5, <1>6

-----------------------------------------------------------------------------
(* Each action keeps the invariant: one lemma per action, one step per     *)
(* conjunct that the action can disturb.                                   *)

(* Records of the goroutines stay records when a field is assigned.        *)
LEMMA CapStateExcept ==
  ASSUME NEW c \in CapState, NEW p \in {"read", "flow", "push", "done"}, NEW o \in BOOLEAN
  PROVE  [c EXCEPT !.pc = p] \in CapState /\ [c EXCEPT !.pc = p, !.orphan = o] \in CapState
BY Zenon DEF CapState

(* When Listen has started the captures nothing is filed, bound or queued. *)
LEMMA InitInv ==
  ASSUME Init
  PROVE  Inv
<1>1. TypeOK
  <2>1. CapIdle \in CapState
    BY DEF CapIdle, CapState
  <2>2. AccIdle \in AccState
    BY DEF AccIdle, AccState
  <2>3. AppIdle \in AppState
    BY DEF AppIdle, AppState
  <2>4. chMessage \in Seq(Message) /\ Len(chMessage) <= ChanCap
    BY FlowTableAssumption DEF Init
  <2> QED  BY Zenon, <2>1, <2>2, <2>3, <2>4 DEF TypeOK, Init
<1>2. Filed /\ BoundOnce /\ TableHoldsOpenSockets
  BY DEF Init, Filed, BoundOnce, TableHoldsOpenSockets, Bound
<1>3. CaptureHolds /\ AcceptHolds /\ AppHolds
  BY DEF Init, CapIdle, AccIdle, AppIdle, CaptureHolds, AcceptHolds, AppHolds
<1>4. SweptInv /\ DeliveredNotOrphan
  BY DEF Init, SweptInv, Swept, CloseHasSwept, DeliveredNotOrphan
<1> QED  BY <1>1, <1>2, <1>3, <1>4 DEF Inv

(* Listen sets conn.listener before Close can have started.                *)
LEMMA ListenKeeps ==
  ASSUME Inv, Listen
  PROVE  Inv'
<1>1. TypeOK'
  BY DEF Inv, TypeOK, Listen, flowVars
<1>2. SweptInv'
  BY DEF Inv, Listen, flowVars, SweptInv, Swept, CloseHasSwept, Bound
<1>3. /\ Filed' /\ CaptureHolds' /\ AcceptHolds' /\ AppHolds' /\ BoundOnce'
      /\ DeliveredNotOrphan' /\ TableHoldsOpenSockets'
  BY DEF Inv, Listen, flowVars, Filed, CaptureHolds, AcceptHolds, AppHolds, BoundOnce,
     DeliveredNotOrphan, TableHoldsOpenSockets, Bound
<1> QED  BY <1>1, <1>2, <1>3 DEF Inv

(* Looking up the flow of a packet binds nothing and frees nothing.        *)
LEMMA captureFlowKeeps ==
  ASSUME NEW h \in Handles, NEW k \in Keys, Inv, captureFlow(h, k)
  PROVE  Inv'
<1>1. PICK f \in Flows :
        /\ lockflow(k, f)
        /\ cap' = [cap EXCEPT ![h] = [pc |-> "flow", key |-> k, flow |-> f, orphan |-> FALSE]]
  BY Zenon DEF captureFlow
<1>2. UNCHANGED <<conn, handle, idle, sock, listener, hopen, die, chMessage, acc, cln, cls, app, panic>>
  BY DEF captureFlow
<1>3. /\ table' \in [Keys -> Flows \cup {None}] /\ fkey' \in [Flows -> Keys \cup {None}]
      /\ fkey'[f] = k /\ Filed'
      /\ \A g \in Flows : fkey[g] # None => fkey'[g] = fkey[g]
      /\ \A j \in Keys : Bound(j)' => Bound(j) /\ table'[j] = table[j]
  BY <1>1, <1>2, LockflowFacts
<1>4. TypeOK'
  <2>1. cap' \in [Handles -> CapState]
    BY <1>1 DEF Inv, TypeOK, CapState
  <2> QED  BY <1>2, <1>3, <2>1 DEF Inv, TypeOK
<1>5. CaptureHolds'
  BY <1>1, <1>2, <1>3, FlowTableAssumption DEF Inv, TypeOK, CaptureHolds
<1>6. AcceptHolds'
  BY <1>2, <1>3, FlowTableAssumption DEF Inv, AcceptHolds
<1>7. SweptInv' /\ TableHoldsOpenSockets'
  BY SMTT(60), <1>2, <1>3 DEF Inv, SweptInv, Swept, CloseHasSwept, TableHoldsOpenSockets
<1>8. AppHolds' /\ BoundOnce' /\ DeliveredNotOrphan'
  BY <1>2 DEF Inv, AppHolds, BoundOnce, DeliveredNotOrphan
<1> QED  BY <1>3, <1>4, <1>5, <1>6, <1>7, <1>8 DEF Inv

(* The update marks a packet an orphan's exactly when conn is nil.         *)
LEMMA updateFlowKeeps ==
  ASSUME NEW h \in Handles, Inv, updateFlow(h)
  PROVE  Inv'
<1> DEFINE f == cap[h].flow
<1>1. f \in Flows
  BY DEF Inv, CaptureHolds, updateFlow
<1>2. TypeOK'
  <2>1. [cap[h] EXCEPT !.pc = "push", !.orphan = (conn[f] = None)] \in CapState
    BY Zenon, CapStateExcept DEF Inv, TypeOK
  <2>2. cap' \in [Handles -> CapState]
    BY <2>1 DEF Inv, TypeOK, updateFlow
  <2>3. handle' \in [Flows -> Handles \cup {None}] /\ idle' \in SUBSET Flows
    BY <1>1 DEF Inv, TypeOK, updateFlow
  <2> QED  BY SMTT(60), <2>2, <2>3 DEF Inv, TypeOK, updateFlow
<1>3. CaptureHolds'
  BY DEF Inv, TypeOK, CapState, CaptureHolds, updateFlow
<1>4. /\ Filed' /\ AcceptHolds' /\ AppHolds' /\ BoundOnce' /\ SweptInv'
      /\ DeliveredNotOrphan' /\ TableHoldsOpenSockets'
  BY DEF Inv, updateFlow, Filed, AcceptHolds, AppHolds, BoundOnce, SweptInv, Swept,
     CloseHasSwept, DeliveredNotOrphan, TableHoldsOpenSockets, Bound
<1> QED  BY <1>2, <1>3, <1>4 DEF Inv

(* The push queues only payloads that were not marked, up to capacity.     *)
LEMMA pushMessageKeeps ==
  ASSUME NEW h \in Handles, NEW psh \in BOOLEAN, Inv, pushMessage(h, psh)
  PROVE  Inv'
<1> DEFINE m == [key |-> cap[h].key, flow |-> cap[h].flow]
<1>1. CapIdle \in CapState
  BY DEF CapIdle, CapState
<1>2. cap' \in [Handles -> CapState]
  BY <1>1 DEF Inv, TypeOK, pushMessage
<1>3. m \in Message
  BY DEF Inv, CaptureHolds, Message, pushMessage
<1>4. /\ chMessage' \in Seq(Message) /\ Len(chMessage') <= ChanCap
      /\ DeliveredNotOrphan'
  <2>1. CASE UNCHANGED chMessage
    BY <2>1 DEF Inv, TypeOK, pushMessage, flowVars, DeliveredNotOrphan
  <2>2. CASE /\ ~cap[h].orphan
             /\ Len(chMessage) < ChanCap
             /\ chMessage' = Append(chMessage, m)
    <3>1. conn'[m.flow] # None
      BY <2>2 DEF Inv, CaptureHolds, pushMessage, flowVars
    <3>2. chMessage' \in Seq(Message) /\ Len(chMessage') = Len(chMessage) + 1
      BY <1>3, <2>2 DEF Inv, TypeOK
    <3>3. Len(chMessage') <= ChanCap
      BY SMTT(60), <2>2, <3>2, FlowTableAssumption DEF Inv, TypeOK
    <3>4. DeliveredNotOrphan'
      BY <1>3, <2>2, <3>1, <3>2 DEF Inv, TypeOK, pushMessage, flowVars, DeliveredNotOrphan
    <3> QED  BY <3>2, <3>3, <3>4
  <2> QED  BY <2>1, <2>2 DEF pushMessage
<1>5. TypeOK'
  BY SMTT(60), <1>2, <1>4 DEF Inv, TypeOK, pushMessage, flowVars
<1>6. CaptureHolds'
  BY SMTT(60) DEF Inv, TypeOK, CapIdle, CaptureHolds, pushMessage, flowVars
<1>7. /\ Filed' /\ AcceptHolds' /\ AppHolds' /\ BoundOnce' /\ SweptInv'
      /\ TableHoldsOpenSockets'
  BY SMTT(60) DEF Inv, pushMessage, flowVars, Filed, AcceptHolds, AppHolds, BoundOnce, SweptInv, Swept,
     CloseHasSwept, TableHoldsOpenSockets, Bound
<1> QED  BY <1>4, <1>5, <1>6, <1>7 DEF Inv

(* A capture that ends holds no flow.                                      *)
LEMMA captureEndsKeeps ==
  ASSUME NEW h \in Handles, Inv, captureEnds(h)
  PROVE  Inv'
<1>1. [cap[h] EXCEPT !.pc = "done"] \in CapState
  BY Zenon, CapStateExcept DEF Inv, TypeOK
<1>2. cap' \in [Handles -> CapState] /\ panic' \in {"no", "listener", "ipv6", "batch"}
  BY <1>1 DEF Inv, TypeOK, captureEnds
<1>3. TypeOK'
  BY <1>2 DEF Inv, TypeOK, captureEnds, flowVars
<1>4. \A j \in Handles : cap'[j] = cap[j] \/ cap'[j].pc = "done"
  BY DEF Inv, TypeOK, CapState, captureEnds
<1>5. CaptureHolds'
  BY <1>4 DEF Inv, CaptureHolds, captureEnds, flowVars
<1>6. /\ Filed' /\ AcceptHolds' /\ AppHolds' /\ BoundOnce' /\ SweptInv'
      /\ DeliveredNotOrphan' /\ TableHoldsOpenSockets'
  BY DEF Inv, captureEnds, flowVars, Filed, AcceptHolds, AppHolds, BoundOnce, SweptInv, Swept,
     CloseHasSwept, DeliveredNotOrphan, TableHoldsOpenSockets, Bound
<1> QED  BY <1>3, <1>5, <1>6 DEF Inv

(* A crash changes nothing else.                                           *)
LEMMA capturePanicsKeeps ==
  ASSUME NEW h \in Handles, NEW k \in Keys, Inv, capturePanics(h, k)
  PROVE  Inv'
<1>1. TypeOK'
  BY SMTT(60) DEF Inv, TypeOK, capturePanics, flowVars
<1>2. /\ Filed' /\ CaptureHolds' /\ AcceptHolds' /\ AppHolds' /\ BoundOnce' /\ SweptInv'
      /\ DeliveredNotOrphan' /\ TableHoldsOpenSockets'
  BY DEF Inv, capturePanics, flowVars, Filed, CaptureHolds, AcceptHolds, AppHolds, BoundOnce,
     SweptInv, Swept, CloseHasSwept, DeliveredNotOrphan, TableHoldsOpenSockets, Bound
<1> QED  BY <1>1, <1>2 DEF Inv

(* A freshly accepted socket is open and bound to no flow; the listener is *)
(* open, so Close has not swept yet.                                       *)
LEMMA AcceptTCPKeeps ==
  ASSUME NEW s \in Socks, NEW k \in Keys, Inv, AcceptTCP(s, k)
  PROVE  Inv'
<1>1. TypeOK'
  <2>1. acc' \in AccState
    BY DEF AcceptTCP, AccState
  <2> QED  BY <2>1 DEF Inv, TypeOK, AcceptTCP, flowVars
<1>2. \A f \in Flows : conn[f] # s
  BY SMTT(60), FlowTableAssumption DEF Inv, BoundOnce, AcceptTCP
<1>3. AcceptHolds' /\ BoundOnce' /\ TableHoldsOpenSockets'
  BY SMTT(60), <1>2 DEF Inv, TypeOK, AcceptTCP, flowVars, AcceptHolds, BoundOnce, TableHoldsOpenSockets, Bound
<1>4. SweptInv'
  BY SMTT(60) DEF Inv, TypeOK, AcceptTCP, flowVars, SweptInv, Swept, CloseHasSwept, Bound
<1>5. Filed' /\ CaptureHolds' /\ AppHolds' /\ DeliveredNotOrphan'
  BY SMTT(60) DEF Inv, AcceptTCP, flowVars, Filed, CaptureHolds, AppHolds, DeliveredNotOrphan
<1> QED  BY <1>1, <1>3, <1>4, <1>5 DEF Inv

(* Looking up the flow of an accepted socket binds nothing yet.            *)
LEMMA AcceptLockflowKeeps ==
  ASSUME Inv, AcceptLockflow
  PROVE  Inv'
<1>1. PICK f \in Flows :
        /\ lockflow(acc.key, f)
        /\ acc' = [acc EXCEPT !.pc = "bind", !.flow = f]
  BY Zenon DEF AcceptLockflow
<1>2. UNCHANGED <<conn, handle, idle, sock, listener, hopen, die, chMessage, cap, cln, cls, app, panic>>
  BY DEF AcceptLockflow
<1>3. acc.pc = "lock" /\ acc.key \in Keys
  BY DEF Inv, AcceptHolds, AcceptLockflow
<1>4. /\ table' \in [Keys -> Flows \cup {None}] /\ fkey' \in [Flows -> Keys \cup {None}]
      /\ fkey'[f] = acc.key /\ Filed'
      /\ \A g \in Flows : fkey[g] # None => fkey'[g] = fkey[g]
      /\ \A j \in Keys : Bound(j)' => Bound(j) /\ table'[j] = table[j]
  BY <1>1, <1>2, <1>3, LockflowFacts
<1>5. TypeOK'
  <2>1. acc' \in AccState
    BY ZenonT(60), <1>1 DEF Inv, TypeOK, AccState
  <2> QED  BY <1>2, <1>4, <2>1 DEF Inv, TypeOK
<1>6. acc'.pc = "bind" /\ acc'.flow = f /\ acc'.sock = acc.sock /\ acc'.key = acc.key
  BY <1>1 DEF Inv, TypeOK, AccState
<1>7. AcceptHolds'
  BY <1>2, <1>3, <1>4, <1>6 DEF Inv, AcceptHolds
<1>8. CaptureHolds'
  BY <1>2, <1>4, FlowTableAssumption DEF Inv, CaptureHolds
<1>9. SweptInv' /\ TableHoldsOpenSockets'
  BY SMTT(60), <1>2, <1>3, <1>4 DEF Inv, SweptInv, Swept, CloseHasSwept, TableHoldsOpenSockets
<1>10. AppHolds' /\ BoundOnce' /\ DeliveredNotOrphan'
  BY <1>2 DEF Inv, AppHolds, BoundOnce, DeliveredNotOrphan
<1> QED  BY SMTT(60), <1>4, <1>5, <1>7, <1>8, <1>9, <1>10 DEF Inv

(* The only step that binds: an open socket, to an allocated flow.         *)
LEMMA AcceptBindKeeps ==
  ASSUME Inv, AcceptBind
  PROVE  Inv'
<1>1. /\ acc.flow \in Flows /\ acc.sock \in Socks /\ acc.sock # None
      /\ fkey[acc.flow] = acc.key /\ acc.key \in Keys
      /\ sock[acc.sock] = "open" /\ \A f \in Flows : conn[f] # acc.sock
  BY FlowTableAssumption DEF Inv, AcceptHolds, AcceptBind
<1>2. conn' = [conn EXCEPT ![acc.flow] = acc.sock] /\ conn \in [Flows -> Socks \cup {None}]
  BY DEF Inv, TypeOK, AcceptBind
<1>3. \A f \in Flows : conn[f] # None => conn'[f] # None
  BY SMTT(60), <1>1, <1>2
<1>4. TypeOK'
  <2>1. AccIdle \in AccState
    BY SMTT(60) DEF AccIdle, AccState
  <2> QED  BY <1>1, <1>2, <2>1 DEF Inv, TypeOK, AcceptBind
<1>5. Filed' /\ BoundOnce'
  BY SMTT(60), <1>1, <1>2, FlowTableAssumption DEF Inv, Filed, BoundOnce, AcceptBind
<1>6. CaptureHolds'
  BY <1>3 DEF Inv, CaptureHolds, AcceptBind
<1>7. AcceptHolds' /\ AppHolds'
  BY DEF Inv, AcceptHolds, AppHolds, AcceptBind, AccIdle
<1>8. DeliveredNotOrphan'
  <2>1. \A i \in 1 .. Len(chMessage) : chMessage[i] \in Message
    BY SMTT(60) DEF Inv, TypeOK
  <2>2. \A i \in 1 .. Len(chMessage) : chMessage[i].flow \in Flows
    BY SMTT(60), <2>1 DEF Message
  <2> QED  BY <1>3, <2>2 DEF Inv, DeliveredNotOrphan, AcceptBind
<1>9. \A k \in Keys : Bound(k)' => Bound(k) \/ k = acc.key
  BY SMTT(60), <1>1, <1>2 DEF Inv, TypeOK, Filed, Bound, AcceptBind
<1>10. TableHoldsOpenSockets'
  BY SMTT(60), <1>1, <1>2 DEF Inv, TypeOK, TableHoldsOpenSockets, Bound, AcceptBind
<1>11. SweptInv'
  BY <1>9 DEF Inv, SweptInv, Swept, CloseHasSwept, AcceptBind, AccIdle
<1> QED  BY <1>4, <1>5, <1>6, <1>7, <1>8, <1>10, <1>11 DEF Inv

(* The accept loop that ends holds no socket.                              *)
LEMMA AcceptEndsKeeps ==
  ASSUME Inv, AcceptEnds
  PROVE  Inv'
<1>1. TypeOK' /\ acc'.pc = "done"
  <2>1. acc' \in AccState /\ acc'.pc = "done"
    BY Zenon DEF Inv, TypeOK, AccState, AcceptEnds
  <2> QED  BY <2>1 DEF Inv, TypeOK, AcceptEnds, flowVars
<1>2. AcceptHolds' /\ SweptInv'
  BY <1>1 DEF Inv, AcceptEnds, flowVars, AcceptHolds, SweptInv, Swept, CloseHasSwept, Bound
<1>3. /\ Filed' /\ CaptureHolds' /\ AppHolds' /\ BoundOnce'
      /\ DeliveredNotOrphan' /\ TableHoldsOpenSockets'
  BY DEF Inv, AcceptEnds, flowVars, Filed, CaptureHolds, AppHolds, BoundOnce,
     DeliveredNotOrphan, TableHoldsOpenSockets, Bound
<1> QED  BY <1>1, <1>2, <1>3 DEF Inv

(* The passing of time changes only ts.                                    *)
LEMMA FlowIdlesKeeps ==
  ASSUME NEW k \in Keys, Inv, FlowIdles(k)
  PROVE  Inv'
<1>1. TypeOK'
  BY DEF Inv, TypeOK, FlowIdles
<1>2. /\ Filed' /\ CaptureHolds' /\ AcceptHolds' /\ AppHolds' /\ BoundOnce' /\ SweptInv'
      /\ DeliveredNotOrphan' /\ TableHoldsOpenSockets'
  BY ZenonT(60) DEF Inv, FlowIdles, Filed, CaptureHolds, AcceptHolds, AppHolds, BoundOnce, SweptInv, Swept,
     CloseHasSwept, DeliveredNotOrphan, TableHoldsOpenSockets, Bound
<1> QED  BY <1>1, <1>2 DEF Inv

(* The cleaner's select touches no flow.                                   *)
LEMMA cleanerTickKeeps ==
  ASSUME Inv, cleanerTick \/ cleanerEnds
  PROVE  Inv'
<1>1. TypeOK'
  BY DEF Inv, TypeOK, cleanerTick, cleanerEnds, flowVars
<1>2. /\ Filed' /\ CaptureHolds' /\ AcceptHolds' /\ AppHolds' /\ BoundOnce' /\ SweptInv'
      /\ DeliveredNotOrphan' /\ TableHoldsOpenSockets'
  BY DEF Inv, cleanerTick, cleanerEnds, flowVars, Filed, CaptureHolds, AcceptHolds, AppHolds,
     BoundOnce, SweptInv, Swept, CloseHasSwept, DeliveredNotOrphan, TableHoldsOpenSockets, Bound
<1> QED  BY <1>1, <1>2 DEF Inv

(* The cleaner removes entries together with their sockets.                *)
LEMMA cleanerShardKeeps ==
  ASSUME Inv, cleanerShard
  PROVE  Inv'
<1> DEFINE K == {k \in Keys : ShardOf[k] = cln.shard /\ table[k] \in idle}
<1>1. Sweep(K) /\ UNCHANGED <<fkey, conn, acc>>
  BY DEF cleanerShard, flowVars
<1>2. /\ table' \in [Keys -> Flows \cup {None}]
      /\ sock' \in [Socks -> {"none", "open", "closed"}]
      /\ \A k \in Keys : Bound(k)' => Bound(k)
      /\ Filed' /\ AcceptHolds' /\ BoundOnce' /\ TableHoldsOpenSockets'
  BY <1>1, SweepFacts
<1>3. cln' \in [pc : {"wait", "sweep", "done"}, shard : Nat]
  BY DEF Inv, TypeOK, cleanerShard
<1>4. TypeOK'
  BY <1>2, <1>3 DEF Inv, TypeOK, cleanerShard, flowVars
<1>5. SweptInv'
  BY <1>2 DEF Inv, SweptInv, Swept, CloseHasSwept, cleanerShard
<1>6. CaptureHolds' /\ AppHolds' /\ DeliveredNotOrphan'
  BY DEF Inv, CaptureHolds, AppHolds, DeliveredNotOrphan, cleanerShard, flowVars
<1> QED  BY <1>2, <1>4, <1>5, <1>6 DEF Inv

(* Close has swept nothing before the listener is closed.                  *)
LEMMA CloseDieKeeps ==
  ASSUME Inv, CloseDie \/ CloseListener
  PROVE  Inv'
<1>1. TypeOK'
  <2>1. CASE CloseDie
    BY SMTT(60), <2>1 DEF Inv, TypeOK, CloseDie, flowVars
  <2>2. CASE CloseListener
    BY SMTT(60), <2>2 DEF Inv, TypeOK, CloseListener, flowVars
  <2> QED  BY SMTT(60), <2>1, <2>2
<1>2. SweptInv'
  BY SMTT(60), FlowTableAssumption
  DEF Inv, CloseDie, CloseListener, flowVars, SweptInv, Swept, CloseHasSwept, Bound
<1>3. /\ Filed' /\ CaptureHolds' /\ AcceptHolds' /\ AppHolds' /\ BoundOnce'
      /\ DeliveredNotOrphan' /\ TableHoldsOpenSockets'
  BY SMTT(60) DEF Inv, CloseDie, CloseListener, flowVars, Filed, CaptureHolds, AcceptHolds, AppHolds,
     BoundOnce, DeliveredNotOrphan, TableHoldsOpenSockets, Bound
<1> QED  BY <1>1, <1>2, <1>3 DEF Inv

(* Sweeping one more shard leaves none of its entries bound.               *)
LEMMA CloseShardKeeps ==
  ASSUME Inv, CloseShard
  PROVE  Inv'
<1> DEFINE K == {k \in Keys : ShardOf[k] = cls.shard}
<1>1. Sweep(K) /\ UNCHANGED <<fkey, conn, acc>>
  BY SMTT(60) DEF CloseShard, flowVars
<1>2. /\ table' \in [Keys -> Flows \cup {None}]
      /\ sock' \in [Socks -> {"none", "open", "closed"}]
      /\ \A k \in Keys : Bound(k)' => Bound(k) /\ k \notin K
      /\ Filed' /\ AcceptHolds' /\ BoundOnce' /\ TableHoldsOpenSockets'
  BY <1>1, SweepFacts
<1>3. cls' \in [pc : {"open", "listener", "sweep", "handles", "done"}, shard : Nat]
  BY DEF Inv, TypeOK, CloseShard
<1>4. TypeOK'
  BY <1>2, <1>3 DEF Inv, TypeOK, CloseShard, flowVars
<1>5. \A k \in Keys : Swept(k)' /\ Bound(k)' => Swept(k) /\ Bound(k)
  <2>1. cls.pc = "sweep" /\ cls.shard \in Nat
    BY DEF Inv, TypeOK, CloseShard
  <2>2. CASE cls.shard + 1 = Sharding
    <3>1. \A k \in Keys \ K : Swept(k)
      BY <2>1, <2>2, FlowTableAssumption DEF Swept
    <3> QED  BY <1>2, <3>1
  <2>3. CASE cls.shard + 1 # Sharding
    <3>1. cls'.pc = "sweep" /\ cls'.shard = cls.shard + 1
      BY <2>1, <2>3 DEF Inv, TypeOK, CloseShard
    <3>2. \A k \in Keys \ K : Swept(k)' => Swept(k)
      BY <2>1, <3>1, FlowTableAssumption DEF Swept, CloseHasSwept
    <3> QED  BY <1>2, <3>2
  <2> QED  BY <2>2, <2>3
<1>6. SweptInv'
  BY <1>5 DEF Inv, SweptInv, CloseShard
<1>7. CaptureHolds' /\ AppHolds' /\ DeliveredNotOrphan'
  BY DEF Inv, CaptureHolds, AppHolds, DeliveredNotOrphan, CloseShard, flowVars
<1> QED  BY <1>2, <1>4, <1>6, <1>7 DEF Inv

(* Closing the handles touches no flow.                                    *)
LEMMA CloseHandlesKeeps ==
  ASSUME Inv, CloseHandles
  PROVE  Inv'
<1>1. TypeOK'
  BY DEF Inv, TypeOK, CloseHandles, flowVars
<1>2. SweptInv'
  BY DEF Inv, TypeOK, CloseHandles, flowVars, SweptInv, Swept, CloseHasSwept, Bound
<1>3. /\ Filed' /\ CaptureHolds' /\ AcceptHolds' /\ AppHolds' /\ BoundOnce'
      /\ DeliveredNotOrphan' /\ TableHoldsOpenSockets'
  BY DEF Inv, CloseHandles, flowVars, Filed, CaptureHolds, AcceptHolds, AppHolds, BoundOnce,
     DeliveredNotOrphan, TableHoldsOpenSockets, Bound
<1> QED  BY <1>1, <1>2, <1>3 DEF Inv

(* Taking the oldest payload leaves the others as they were.               *)
LEMMA ReadFromKeeps ==
  ASSUME NEW a \in Apps, Inv, ReadFrom(a)
  PROVE  Inv'
<1>1. /\ Head(chMessage) \in Message
      /\ chMessage' \in Seq(Message) /\ Len(chMessage') = Len(chMessage) - 1
      /\ \A i \in 1 .. Len(chMessage') : chMessage'[i] = chMessage[i + 1]
  BY DEF Inv, TypeOK, ReadFrom
<1>2. Len(chMessage') <= ChanCap
  BY <1>1, FlowTableAssumption DEF Inv, TypeOK
<1>3. Head(chMessage).key \in Keys
  BY SMTT(60), <1>1 DEF Message
<1>4. app' \in [Apps -> AppState]
  BY SMTT(60), <1>3 DEF Inv, TypeOK, AppState, ReadFrom
<1>5. TypeOK'
  BY SMTT(60), <1>1, <1>2, <1>4 DEF Inv, TypeOK, ReadFrom, flowVars
<1>6. AppHolds'
  BY SMTT(60), <1>3 DEF Inv, TypeOK, AppHolds, ReadFrom
<1>7. DeliveredNotOrphan'
  <2>1. \A i \in 1 .. Len(chMessage') : i + 1 \in 1 .. Len(chMessage)
    <3>1. Len(chMessage) \in Nat
      BY DEF Inv, TypeOK
    <3>2. Len(chMessage') = Len(chMessage) - 1
      BY SMTT(60), <1>1
    <3> QED  BY ONLY <3>1, <3>2
  <2> QED  BY Zenon, <1>1, <2>1 DEF Inv, DeliveredNotOrphan, ReadFrom, flowVars
<1>8. Filed' /\ CaptureHolds' /\ AcceptHolds' /\ BoundOnce' /\ SweptInv' /\ TableHoldsOpenSockets'
  BY ZenonT(60) DEF Inv, ReadFrom, flowVars, Filed, CaptureHolds, AcceptHolds, BoundOnce, SweptInv, Swept,
     CloseHasSwept, TableHoldsOpenSockets, Bound
<1> QED  BY SMTT(60), <1>5, <1>6, <1>7, <1>8 DEF Inv

(* Writing reads the table and a flow, and changes neither.                *)
LEMMA WriteToKeeps ==
  ASSUME NEW a \in Apps, Inv, getflow(a) \/ WriteTo(a)
  PROVE  Inv'
<1>1. /\ app' \in [Apps -> AppState]
      /\ \A b \in Apps : app'[b] = app[b] \/ app'[b].pc # "got"
  <2>1. CASE getflow(a)
    <3>1. AppIdle \in AppState /\ AppIdle.pc = "idle"
      BY DEF AppIdle, AppState
    <3>2. table[app[a].key] # None => table[app[a].key] \in Flows
      BY <2>1 DEF Inv, TypeOK, AppHolds, getflow
    <3>3. ASSUME NEW f \in Flows
          PROVE  /\ [app[a] EXCEPT !.pc = "flow", !.flow = f] \in AppState
                 /\ [app[a] EXCEPT !.pc = "flow", !.flow = f].pc = "flow"
      BY ZenonT(60) DEF Inv, TypeOK, AppState
    <3> QED  BY Zenon, <2>1, <3>1, <3>2, <3>3 DEF Inv, TypeOK, getflow
  <2>2. CASE WriteTo(a)
    <3>1. ASSUME NEW v \in Handles \cup {None}
          PROVE  /\ [app[a] EXCEPT !.pc = "idle", !.via = v] \in AppState
                 /\ [app[a] EXCEPT !.pc = "idle", !.via = v].pc = "idle"
      BY ZenonT(60) DEF Inv, TypeOK, AppState
    <3>2. (IF handle[app[a].flow] \in hopen THEN handle[app[a].flow] ELSE None) \in Handles \cup {None}
      BY DEF Inv, TypeOK
    <3> QED  BY Zenon, <2>2, <3>1, <3>2 DEF Inv, TypeOK, WriteTo
  <2> QED  BY SMTT(60), <2>1, <2>2
<1>2. UNCHANGED <<table, fkey, conn, handle, idle, sock, listener, hopen, die, chMessage,
                  cap, acc, cln, cls, panic>>
  BY DEF getflow, WriteTo, flowVars
<1>3. TypeOK'
  BY <1>1, <1>2 DEF Inv, TypeOK
<1>4. AppHolds'
  BY <1>1 DEF Inv, AppHolds
<1>5. /\ Filed' /\ CaptureHolds' /\ AcceptHolds' /\ BoundOnce' /\ SweptInv'
      /\ DeliveredNotOrphan' /\ TableHoldsOpenSockets'
  BY ZenonT(60), <1>2 DEF Inv, Filed, CaptureHolds, AcceptHolds, BoundOnce, SweptInv, Swept,
     CloseHasSwept, DeliveredNotOrphan, TableHoldsOpenSockets, Bound
<1> QED  BY <1>3, <1>4, <1>5 DEF Inv

(* A stuttering step changes nothing.                                      *)
LEMMA StutterKeeps ==
  ASSUME Inv, UNCHANGED vars
  PROVE  Inv'
<1>1. TypeOK'
  BY SMTT(60) DEF Inv, TypeOK, vars, flowVars
<1>2. /\ Filed' /\ CaptureHolds' /\ AcceptHolds' /\ AppHolds' /\ BoundOnce' /\ SweptInv'
      /\ DeliveredNotOrphan' /\ TableHoldsOpenSockets'
  BY DEF Inv, vars, flowVars, Filed, CaptureHolds, AcceptHolds, AppHolds, BoundOnce,
     SweptInv, Swept, CloseHasSwept, DeliveredNotOrphan, TableHoldsOpenSockets, Bound
<1> QED  BY <1>1, <1>2 DEF Inv

-----------------------------------------------------------------------------
(* Inv is an invariant of every behaviour of the connection: the only      *)
(* induction of this module.                                               *)
THEOREM Invariance == Spec => []Inv
<1>1. Init => Inv
  BY InitInv
<1>2. Inv /\ [Next]_vars => Inv'
  <2> SUFFICES ASSUME Inv, [Next]_vars
               PROVE  Inv'
    OBVIOUS
  <2>1. CASE \E h \in Handles, k \in Keys : captureFlow(h, k) \/ capturePanics(h, k)
    BY <2>1, captureFlowKeeps, capturePanicsKeeps
  <2>2. CASE \E h \in Handles : updateFlow(h) \/ captureEnds(h)
    BY <2>2, updateFlowKeeps, captureEndsKeeps
  <2>3. CASE \E h \in Handles, psh \in BOOLEAN : pushMessage(h, psh)
    BY <2>3, pushMessageKeeps
  <2>4. CASE \E s \in Socks, k \in Keys : AcceptTCP(s, k)
    BY <2>4, AcceptTCPKeeps
  <2>5. CASE AcceptLockflow \/ AcceptBind \/ AcceptEnds
    BY <2>5, AcceptLockflowKeeps, AcceptBindKeeps, AcceptEndsKeeps
  <2>6. CASE \E k \in Keys : FlowIdles(k)
    BY <2>6, FlowIdlesKeeps
  <2>7. CASE cleanerTick \/ cleanerShard \/ cleanerEnds
    BY <2>7, cleanerTickKeeps, cleanerShardKeeps
  <2>8. CASE CloseDie \/ CloseListener \/ CloseShard \/ CloseHandles
    BY <2>8, CloseDieKeeps, CloseShardKeeps, CloseHandlesKeeps
  <2>9. CASE \E a \in Apps : ReadFrom(a) \/ getflow(a) \/ WriteTo(a)
    BY <2>9, ReadFromKeeps, WriteToKeeps
  <2>10. CASE Listen
    BY <2>10, ListenKeeps
  <2>11. CASE UNCHANGED vars
    BY <2>11, StutterKeeps
  <2> QED  BY <2>1, <2>2, <2>3, <2>4, <2>5, <2>6, <2>7, <2>8, <2>9, <2>10, <2>11 DEF Next
<1> QED  BY <1>1, <1>2, PTL DEF Spec

(* The state keeps its shape; the payload queue never exceeds its capacity. *)
THEOREM TypeCorrect == Spec => []TypeOK
<1>1. Inv => TypeOK
  BY DEF Inv
<1> QED  BY <1>1, Invariance, PTL

(* Whatever the interleaving of lookup, update, push, bind and sweep, the  *)
(* application reads no payload of an orphan flow.                         *)
THEOREM NoOrphanDelivered == Spec => []DeliveredNotOrphan
<1>1. Inv => DeliveredNotOrphan
  BY DEF Inv
<1> QED  BY <1>1, Invariance, PTL

(* No entry of the table refers to a socket that cleaner or Close closed.  *)
THEOREM NoClosedSocketInTable == Spec => []TableHoldsOpenSockets
<1>1. Inv => TableHoldsOpenSockets
  BY DEF Inv
<1> QED  BY <1>1, Invariance, PTL

(* However many shards, keys and accepted connections there are, Close     *)
(* leaves at most one bound flow behind.                                   *)
THEOREM CloseLeak == Spec => []CloseMissesAtMostOne
<1>1. Inv => CloseMissesAtMostOne
  BY DEF Inv, SweptInv, Swept, CloseMissesAtMostOne
<1> QED  BY <1>1, Invariance, PTL

(* No goroutine that still holds a removed flow brings it back: lockflow   *)
(* files only flows it has just created.                                   *)
THEOREM RemovedForGood == Spec => FlowsStayRemoved
<1> DEFINE Stay == \A f \in Flows : fkey[f] # None /\ ~InTable(f) => ~InTable(f)'
<1>1. ASSUME Inv, Next
      PROVE  Stay
  <2>1. ASSUME NEW k \in Keys, NEW f \in Flows, lockflow(k, f)
        PROVE  Stay
    BY SMTT(60), <1>1, <2>1, FlowTableAssumption DEF lockflow, Inv, TypeOK, InTable
  <2>2. ASSUME NEW K \in SUBSET Keys, Sweep(K)
        PROVE  Stay
    BY <1>1, <2>2, FlowTableAssumption DEF Sweep, Inv, TypeOK, InTable
  <2>3. CASE UNCHANGED table
    BY SMTT(60), <2>3 DEF InTable
  <2>4. \/ UNCHANGED table
        \/ \E K \in SUBSET Keys : Sweep(K)
        \/ \E k \in Keys, f \in Flows : lockflow(k, f)
    <3>1. CASE cleanerShard
      BY <3>1 DEF cleanerShard
    <3>2. CASE CloseShard
      BY <3>2 DEF CloseShard
    <3>3. CASE AcceptLockflow
      BY SMTT(60), <1>1, <3>3 DEF AcceptLockflow, Inv, AcceptHolds
    <3>4. CASE \E h \in Handles, k \in Keys : captureFlow(h, k)
      BY <3>4 DEF captureFlow
    <3> QED
      BY Zenon, <1>1, <3>1, <3>2, <3>3, <3>4
      DEF Next, Listen, capturePanics, updateFlow, captureEnds, pushMessage, AcceptTCP,
          AcceptBind, AcceptEnds, FlowIdles, cleanerTick, cleanerEnds, CloseDie, CloseListener,
          CloseHandles, ReadFrom, getflow, WriteTo
  <2> QED  BY SMTT(60), <2>1, <2>2, <2>3, <2>4
<1>2. Inv /\ [Next]_vars => [Stay]_vars
  BY <1>1
<1> QED  BY <1>2, Invariance, PTL DEF Spec, FlowsStayRemoved
=============================================================================
