-------------------------- MODULE FakeListenerProofs --------------------------
(***************************************************************************)
(* FakeListener's safety properties for every number of addresses and      *)
(* FakeConns and every capacity.                                           *)
(***************************************************************************)
EXTENDS FakeListener, TLAPS

InsertHas(c) == acc.pc = "insert" /\ acc.fc = c
Registered(c) == addr[c] \in Keys /\ (connMap[addr[c]] = c \/ InsertHas(c))

-----------------------------------------------------------------------------
(* The inductive invariant.                                                *)

(* An entry is filed under its FakeConn's address.                         *)
Filed == \A k \in Keys : connMap[k] # None => addr[connMap[k]] = k

(* What the goroutines and the application hold was created.               *)
HeldAreCreated ==
  /\ acc.pc \in {"insert", "push"} => acc.fc \in Conns /\ addr[acc.fc] # None
  /\ \A i \in 1 .. Len(connChan) : addr[connChan[i]] # None
  /\ \A c \in accepted \cup cln.dead : addr[c] # None
  /\ \A x \in Closers : cls[x].pc = "close" => cls[x].fc \in Conns /\ addr[cls[x].fc] # None
  /\ \A c \in Conns : closed[c] # "no" => addr[c] # None

(* The accept loop inserts where there is no entry: nobody else inserts.   *)
InsertIntoGap == acc.pc = "insert" => connMap[addr[acc.fc]] = None

(* The crux: a delayed delete still finds the entry of its own FakeConn.   *)
DelayOwnsEntry ==
  \A c \in Conns : delayMap[c] # "no" => closed[c] # "no" /\ Registered(c)

Inv ==
  /\ TypeOK
  /\ Filed
  /\ HeldAreCreated
  /\ InsertIntoGap
  /\ DelayOwnsEntry
  /\ OpenIsRegistered

-----------------------------------------------------------------------------
(* An immediate close takes no other FakeConn's entry: the one it deletes  *)
(* by address is that of the FakeConn it closes, or there is none.         *)
LEMMA CloseNowFacts ==
  ASSUME NEW c \in Conns, NEW by \in {"expire", "listener"}, Inv, addr[c] # None,
         closeNow(c, by), UNCHANGED <<addr, acc, delayMap>>
  PROVE  /\ connMap' \in [Keys -> Conns \cup {None}]
         /\ closed' \in [Conns -> {"no", "user", "expire", "listener"}]
         /\ \A d \in Conns : closed'[d] # "no" => closed[d] # "no" \/ d = c
         /\ Filed' /\ InsertIntoGap' /\ DelayOwnsEntry' /\ OpenIsRegistered'
<1>1. CASE closed[c] # "no"
  <2>1. UNCHANGED <<closed, connMap>>
    BY <1>1 DEF closeNow
  <2> QED
    BY <2>1 DEF Inv, TypeOK, Filed, InsertIntoGap, DelayOwnsEntry, OpenIsRegistered, Offered,
       Registered, InsertHas
<1>2. CASE closed[c] = "no"
  <2>1. /\ closed' = [closed EXCEPT ![c] = by]
        /\ connMap' = [connMap EXCEPT ![addr[c]] = None]
    BY <1>2 DEF closeNow
  <2>2. addr[c] \in Keys /\ (connMap[addr[c]] = c \/ connMap[addr[c]] = None)
    BY <1>2 DEF Inv, TypeOK, OpenIsRegistered, Offered, InsertIntoGap
  <2>3. /\ connMap' \in [Keys -> Conns \cup {None}]
        /\ closed' \in [Conns -> {"no", "user", "expire", "listener"}]
    BY <2>1 DEF Inv, TypeOK
  <2>4. \A d \in Conns \ {c} : /\ closed'[d] = closed[d]
                               /\ addr[d] \in Keys /\ connMap[addr[d]] = d => connMap'[addr[d]] = d
    BY <2>1, <2>2, FakeListenerAssumption DEF Inv, TypeOK
  <2>5. closed'[c] # "no" /\ \A k \in Keys : connMap'[k] = connMap[k] \/ connMap'[k] = None
    BY <2>1 DEF Inv, TypeOK
  <2>6. delayMap[c] = "no"
    BY <1>2 DEF Inv, DelayOwnsEntry
  <2>7. Filed'
    BY <2>5 DEF Inv, Filed
  <2>8. InsertIntoGap'
    BY <2>1, <2>5 DEF Inv, TypeOK, HeldAreCreated, InsertIntoGap
  <2>9. DelayOwnsEntry'
    BY <2>4, <2>6 DEF Inv, DelayOwnsEntry, Registered, InsertHas
  <2>10. OpenIsRegistered'
    BY <2>4, <2>5 DEF Inv, TypeOK, OpenIsRegistered, Offered
  <2> QED  BY <2>3, <2>4, <2>7, <2>8, <2>9, <2>10
<1> QED  BY <1>1, <1>2

-----------------------------------------------------------------------------
(* Each action keeps the invariant.                                        *)

(* A new listener has no FakeConn.                                         *)
LEMMA InitInv ==
  ASSUME Init
  PROVE  Inv
<1>1. TypeOK
  <2>1. recvch \in [Conns -> 0 .. RecvCap] /\ connChan \in Seq(Conns) /\ Len(connChan) <= ConnCap
    BY FakeListenerAssumption DEF Init
  <2>2. acc \in AccState /\ cln \in ClnState /\ cls \in [Closers -> ClsState]
    BY DEF Init, AccState, ClnState, ClsState
  <2> QED  BY Zenon, <2>1, <2>2 DEF Init, TypeOK
<1>2. Filed /\ HeldAreCreated /\ InsertIntoGap /\ DelayOwnsEntry /\ OpenIsRegistered
  BY DEF Init, Filed, HeldAreCreated, InsertIntoGap, DelayOwnsEntry, OpenIsRegistered, Offered
<1> QED  BY <1>1, <1>2 DEF Inv

(* Finding the FakeConn of a packet changes nothing but the loop's hand.   *)
LEMMA FindKeeps ==
  ASSUME NEW k \in Keys, Inv, Find(k)
  PROVE  Inv'
<1>1. connMap[k] \in Conns /\ addr[connMap[k]] # None
  BY FakeListenerAssumption DEF Inv, TypeOK, Filed, Find
<1>2. acc' \in AccState /\ acc'.pc = "push" /\ acc'.fc = connMap[k] /\ acc.pc = "read"
  BY <1>1 DEF Find, AccState
<1>3. TypeOK'
  BY <1>2 DEF Inv, TypeOK, Find, connVars
<1>4. HeldAreCreated'
  BY <1>1, <1>2 DEF Inv, HeldAreCreated, Find, connVars
<1>5. Filed' /\ InsertIntoGap' /\ DelayOwnsEntry' /\ OpenIsRegistered'
  BY <1>2 DEF Inv, Filed, InsertIntoGap, DelayOwnsEntry, OpenIsRegistered, Offered, Registered,
     InsertHas, Find, connVars
<1> QED  BY <1>3, <1>4, <1>5 DEF Inv

(* A FakeConn is created for an address without an entry, and stays in the *)
(* loop's hand until it has one.                                           *)
LEMMA CreateKeeps ==
  ASSUME NEW k \in Keys, Inv, Create(k)
  PROVE  Inv'
<1>1. PICK c \in Conns : /\ addr[c] = None
                         /\ addr' = [addr EXCEPT ![c] = k]
                         /\ connChan' = Append(connChan, c)
                         /\ acc' = [pc |-> "insert", fc |-> c]
  BY Zenon DEF Create
<1>2. /\ acc.pc = "read" /\ connMap[k] = None /\ Len(connChan) < ConnCap
      /\ UNCHANGED <<connMap, recvch, ts, closed, delayMap, accepted, ctxDone, tcpClosed, cln, cls, crashed>>
  BY DEF Create
<1>3. addr'[c] = k /\ k # None /\ \A d \in Conns \ {c} : addr'[d] = addr[d]
  BY <1>1, FakeListenerAssumption DEF Inv, TypeOK
<1>4. /\ connChan' \in Seq(Conns) /\ Len(connChan') = Len(connChan) + 1
      /\ \A i \in 1 .. Len(connChan') : connChan'[i] = c \/ (i \in 1 .. Len(connChan) /\ connChan'[i] = connChan[i])
  BY <1>1 DEF Inv, TypeOK
<1>5. TypeOK'
  <2>1. acc' \in AccState
    BY <1>1 DEF AccState
  <2>2. Len(connChan') <= ConnCap
    BY <1>2, <1>4, FakeListenerAssumption DEF Inv, TypeOK
  <2>3. addr' \in [Conns -> Keys \cup {None}]
    BY <1>1 DEF Inv, TypeOK
  <2> QED  BY <1>2, <1>4, <2>1, <2>2, <2>3 DEF Inv, TypeOK
<1>6. \A d \in Conns : addr[d] # None => addr'[d] # None /\ d # c
  BY <1>1, <1>3
<1>7. HeldAreCreated'
  <2>1. \A i \in 1 .. Len(connChan) : connChan[i] \in Conns
    BY DEF Inv, TypeOK
  <2>2. \A i \in 1 .. Len(connChan') : addr'[connChan'[i]] # None
    BY <1>3, <1>4, <1>6, <2>1 DEF Inv, HeldAreCreated
  <2>3. acc'.fc \in Conns /\ addr'[acc'.fc] # None
    BY <1>1, <1>3
  <2>4. /\ \A d \in accepted \cup cln.dead : addr'[d] # None
        /\ \A x \in Closers : cls[x].pc = "close" => cls[x].fc \in Conns /\ addr'[cls[x].fc] # None
        /\ \A d \in Conns : closed[d] # "no" => addr'[d] # None
    BY <1>6 DEF Inv, TypeOK, ClnState, HeldAreCreated
  <2> QED  BY <1>2, <2>2, <2>3, <2>4 DEF HeldAreCreated
<1>8. Filed'
  BY <1>2, <1>6, FakeListenerAssumption DEF Inv, TypeOK, Filed, Create
<1>9. InsertIntoGap'
  BY SMTT(60), <1>1, <1>2, <1>3 DEF InsertIntoGap
<1>10. closed[c] = "no" /\ delayMap[c] = "no"
  BY SMTT(60), <1>1 DEF Inv, HeldAreCreated, DelayOwnsEntry
<1>11. DelayOwnsEntry'
  BY <1>2, <1>3, <1>10 DEF Inv, DelayOwnsEntry, Registered, InsertHas
<1>12. OpenIsRegistered'
  BY <1>1, <1>2, <1>3 DEF Inv, OpenIsRegistered, Offered
<1> QED  BY <1>5, <1>7, <1>8, <1>9, <1>11, <1>12 DEF Inv

(* The entry of the FakeConn in hand fills a gap.                          *)
LEMMA InsertKeeps ==
  ASSUME Inv, Insert
  PROVE  Inv'
<1>1. /\ acc.pc = "insert" /\ acc.fc \in Conns /\ addr[acc.fc] \in Keys
      /\ connMap[addr[acc.fc]] = None /\ connMap' = [connMap EXCEPT ![addr[acc.fc]] = acc.fc]
  BY DEF Inv, TypeOK, HeldAreCreated, InsertIntoGap, Insert
<1>2. acc' \in AccState /\ acc'.pc = "push" /\ acc'.fc = acc.fc
  BY Zenon DEF Inv, TypeOK, AccState, Insert
<1>3. TypeOK'
  BY <1>1, <1>2 DEF Inv, TypeOK, Insert
<1>4. HeldAreCreated'
  BY <1>1, <1>2 DEF Inv, HeldAreCreated, Insert
<1>5. Filed' /\ InsertIntoGap'
  BY <1>1, <1>2 DEF Inv, TypeOK, Filed, InsertIntoGap, Insert
<1>6. connMap'[addr[acc.fc]] = acc.fc /\ \A k \in Keys : connMap[k] # None => connMap'[k] = connMap[k]
  BY <1>1 DEF Inv, TypeOK
<1>7. \A c \in Conns : addr[c] \in Keys /\ connMap[addr[c]] = c => connMap'[addr[c]] = c
  BY <1>6, FakeListenerAssumption
<1>8. DelayOwnsEntry'
  BY <1>6, <1>7 DEF Inv, DelayOwnsEntry, Registered, InsertHas, Insert
<1>9. OpenIsRegistered'
  BY <1>6, <1>7 DEF Inv, TypeOK, OpenIsRegistered, Offered, Insert
<1> QED  BY <1>3, <1>4, <1>5, <1>8, <1>9 DEF Inv

(* Push queues within the capacity and does not touch the entries.         *)
LEMMA PushKeeps ==
  ASSUME Inv, Push
  PROVE  Inv'
<1>1. acc' \in AccState /\ acc'.pc = "read" /\ acc.pc = "push" /\ acc.fc \in Conns
  BY DEF Inv, HeldAreCreated, AccState, Push
<1>2. recvch' \in [Conns -> 0 .. RecvCap] /\ ts' \in [Conns -> {"zero", "fresh", "old"}]
  <2>1. CASE UNCHANGED <<recvch, ts>>
    BY <2>1 DEF Inv, TypeOK
  <2>2. CASE /\ recvch[acc.fc] < RecvCap
             /\ recvch' = [recvch EXCEPT ![acc.fc] = @ + 1]
             /\ ts' = [ts EXCEPT ![acc.fc] = "fresh"]
    <3>1. recvch[acc.fc] + 1 \in 0 .. RecvCap
      BY <1>1, <2>2, FakeListenerAssumption DEF Inv, TypeOK
    <3> QED  BY Zenon, <2>2, <3>1 DEF Inv, TypeOK
  <2> QED  BY <2>1, <2>2 DEF Push
<1>3. TypeOK'
  BY <1>1, <1>2 DEF Inv, TypeOK, Push
<1>4. HeldAreCreated'
  BY <1>1 DEF Inv, HeldAreCreated, Push
<1>5. Filed' /\ InsertIntoGap' /\ DelayOwnsEntry' /\ OpenIsRegistered'
  BY <1>1 DEF Inv, Filed, InsertIntoGap, DelayOwnsEntry, OpenIsRegistered, Offered, Registered,
     InsertHas, Push
<1> QED  BY <1>3, <1>4, <1>5 DEF Inv

(* Accept moves the oldest FakeConn offered to the application.            *)
LEMMA AcceptKeeps ==
  ASSUME Inv, Accept
  PROVE  Inv'
<1>1. /\ Head(connChan) = connChan[1] /\ 1 \in 1 .. Len(connChan) /\ Head(connChan) \in Conns
      /\ connChan' \in Seq(Conns) /\ Len(connChan') = Len(connChan) - 1
      /\ \A i \in 1 .. Len(connChan') : i + 1 \in 1 .. Len(connChan) /\ connChan'[i] = connChan[i + 1]
  BY DEF Inv, TypeOK, Accept
<1>2. Len(connChan') <= ConnCap
  BY <1>1, FakeListenerAssumption DEF Inv, TypeOK
<1>3. TypeOK'
  BY <1>1, <1>2 DEF Inv, TypeOK, Accept
<1>4. HeldAreCreated'
  BY <1>1 DEF Inv, HeldAreCreated, Accept
<1>5. Filed' /\ InsertIntoGap' /\ DelayOwnsEntry' /\ OpenIsRegistered'
  BY DEF Inv, Filed, InsertIntoGap, DelayOwnsEntry, OpenIsRegistered, Offered, Registered,
     InsertHas, Accept
<1> QED  BY <1>3, <1>4, <1>5 DEF Inv

(* Read takes a payload from a queue that has one.                         *)
LEMMA ReadKeeps ==
  ASSUME NEW c \in Conns, Inv, Read(c)
  PROVE  Inv'
<1>1. recvch' \in [Conns -> 0 .. RecvCap]
  <2>1. recvch[c] - 1 \in 0 .. RecvCap
    BY FakeListenerAssumption DEF Inv, TypeOK, Read
  <2> QED  BY <2>1 DEF Inv, TypeOK, Read
<1>2. TypeOK'
  BY <1>1 DEF Inv, TypeOK, Read
<1>3. Filed' /\ HeldAreCreated' /\ InsertIntoGap' /\ DelayOwnsEntry' /\ OpenIsRegistered'
  BY DEF Inv, Filed, HeldAreCreated, InsertIntoGap, DelayOwnsEntry, OpenIsRegistered, Offered,
     Registered, InsertHas, Read
<1> QED  BY <1>2, <1>3 DEF Inv

(* FakeConn.Close schedules the delete of an entry that is its own.        *)
LEMMA CloseConnKeeps ==
  ASSUME NEW c \in Conns, Inv, CloseConn(c)
  PROVE  Inv'
<1>1. /\ closed' = [closed EXCEPT ![c] = "user"] /\ delayMap' = [delayMap EXCEPT ![c] = "wait"]
      /\ UNCHANGED <<connMap, addr, connChan, recvch, ts, accepted, ctxDone, tcpClosed, acc, cln, cls, crashed>>
  BY SMTT(60) DEF CloseConn, closeDelayed
<1>2. addr[c] # None /\ addr[c] \in Keys /\ Registered(c)
  BY DEF Inv, TypeOK, HeldAreCreated, OpenIsRegistered, Offered, Registered, InsertHas, CloseConn
<1>3. TypeOK'
  BY <1>1 DEF Inv, TypeOK
<1>4. HeldAreCreated'
  BY <1>1, <1>2 DEF Inv, TypeOK, HeldAreCreated
<1>5. DelayOwnsEntry'
  BY <1>1, <1>2 DEF Inv, TypeOK, DelayOwnsEntry, Registered, InsertHas
<1>6. Filed' /\ InsertIntoGap' /\ OpenIsRegistered'
  BY <1>1 DEF Inv, TypeOK, Filed, InsertIntoGap, OpenIsRegistered, Offered
<1> QED  BY <1>3, <1>4, <1>5, <1>6 DEF Inv

(* Time passing makes a delayed delete due, or a FakeConn old.             *)
LEMMA TimeKeeps ==
  ASSUME NEW c \in Conns, Inv, DelayPasses(c) \/ ExpirePasses(c)
  PROVE  Inv'
<1>1. TypeOK' /\ \A d \in Conns : delayMap'[d] # "no" => delayMap[d] # "no"
  BY ZenonT(60) DEF Inv, TypeOK, DelayPasses, ExpirePasses
<1>2. UNCHANGED <<connMap, addr, connChan, closed, accepted, acc, cln, cls>>
  BY DEF DelayPasses, ExpirePasses
<1>3. Filed' /\ HeldAreCreated' /\ InsertIntoGap' /\ OpenIsRegistered'
  BY <1>2 DEF Inv, Filed, HeldAreCreated, InsertIntoGap, OpenIsRegistered, Offered
<1>4. DelayOwnsEntry'
  BY <1>1, <1>2 DEF Inv, DelayOwnsEntry, Registered, InsertHas
<1> QED  BY <1>1, <1>3, <1>4 DEF Inv

(* The delayed deletes remove closed FakeConns' entries only.              *)
LEMMA DelayTickKeeps ==
  ASSUME Inv, DelayTick
  PROVE  Inv'
<1>1. /\ connMap' = [k \in Keys |-> IF \E c \in Due : addr[c] = k THEN None ELSE connMap[k]]
      /\ delayMap' = [c \in Conns |-> IF c \in Due THEN "no" ELSE delayMap[c]]
      /\ UNCHANGED <<addr, connChan, recvch, ts, closed, accepted, ctxDone, tcpClosed, acc, cln, cls, crashed>>
  BY DEF DelayTick
<1>2. TypeOK'
  BY <1>1 DEF Inv, TypeOK
<1>3. \A c \in Due : c \in Conns /\ delayMap[c] # "no" /\ closed[c] # "no" /\ Registered(c)
  BY DEF Due, Inv, DelayOwnsEntry
<1>4. ASSUME NEW d \in Conns, addr[d] \in Keys, connMap[addr[d]] = d, d \notin Due
      PROVE  connMap'[addr[d]] = d
  <2>1. ASSUME NEW c \in Due, addr[c] = addr[d]
        PROVE  FALSE
    BY SMTT(60), <1>3, <1>4, <2>1, FakeListenerAssumption DEF Registered, InsertHas, Inv, InsertIntoGap
  <2> QED  BY <1>1, <1>4, <2>1
<1>5. Filed' /\ HeldAreCreated'
  BY <1>1 DEF Inv, Filed, HeldAreCreated
<1>6. InsertIntoGap'
  BY <1>1 DEF Inv, TypeOK, HeldAreCreated, InsertIntoGap
<1>7. DelayOwnsEntry'
  BY <1>1, <1>4 DEF Inv, DelayOwnsEntry, Registered, InsertHas
<1>8. OpenIsRegistered'
  BY <1>1, <1>3, <1>4 DEF Inv, TypeOK, OpenIsRegistered, Offered
<1> QED  BY <1>2, <1>5, <1>6, <1>7, <1>8 DEF Inv

(* Collecting the expired FakeConns collects created ones.                 *)
LEMMA ExpireTickKeeps ==
  ASSUME Inv, ExpireTick \/ CleanerEnds
  PROVE  Inv'
<1>1. cln' \in ClnState /\ \A c \in cln'.dead : addr[c] # None
  <2>1. CASE ExpireTick
    BY <2>1, FakeListenerAssumption DEF Inv, Filed, ExpireTick, ClnState
  <2>2. CASE CleanerEnds
    BY Zenon, <2>2 DEF Inv, TypeOK, HeldAreCreated, ClnState, CleanerEnds
  <2> QED  BY <2>1, <2>2
<1>2. UNCHANGED <<connVars, ctxDone, tcpClosed, acc, cls, crashed>>
  BY DEF ExpireTick, CleanerEnds
<1>3. TypeOK'
  BY <1>1, <1>2 DEF Inv, TypeOK, connVars
<1>4. HeldAreCreated'
  BY <1>1, <1>2 DEF Inv, HeldAreCreated, connVars
<1>5. Filed' /\ InsertIntoGap' /\ DelayOwnsEntry' /\ OpenIsRegistered'
  BY <1>2 DEF Inv, Filed, InsertIntoGap, DelayOwnsEntry, OpenIsRegistered, Offered, Registered,
     InsertHas, connVars
<1> QED  BY <1>3, <1>4, <1>5 DEF Inv

(* Expiry closes one collected FakeConn.                                   *)
LEMMA ExpireCloseKeeps ==
  ASSUME Inv, ExpireClose
  PROVE  Inv'
<1>1. /\ UNCHANGED <<addr, connChan, recvch, ts, delayMap, accepted, ctxDone, tcpClosed, acc, cls, crashed>>
      /\ cln' \in ClnState /\ cln'.dead \subseteq cln.dead
  BY ZenonT(60) DEF Inv, TypeOK, ClnState, ExpireClose
<1>2. /\ connMap' \in [Keys -> Conns \cup {None}]
      /\ closed' \in [Conns -> {"no", "user", "expire", "listener"}]
      /\ \A d \in Conns : closed'[d] # "no" => addr[d] # None
      /\ Filed' /\ InsertIntoGap' /\ DelayOwnsEntry' /\ OpenIsRegistered'
  <2>1. CASE \E c \in cln.dead : closeNow(c, "expire")
    <3>1. PICK c \in cln.dead : closeNow(c, "expire")
      BY <2>1
    <3>2. c \in Conns /\ addr[c] # None
      BY DEF Inv, TypeOK, ClnState, HeldAreCreated
    <3> QED  BY <1>1, <3>1, <3>2, CloseNowFacts DEF Inv, HeldAreCreated
  <2>2. CASE UNCHANGED <<closed, connMap>>
    BY <1>1, <2>2 DEF Inv, TypeOK, HeldAreCreated, Filed, InsertIntoGap, DelayOwnsEntry,
       OpenIsRegistered, Offered, Registered, InsertHas
  <2> QED  BY <2>1, <2>2 DEF ExpireClose
<1>3. TypeOK'
  BY <1>1, <1>2 DEF Inv, TypeOK
<1>4. HeldAreCreated'
  BY <1>1, <1>2 DEF Inv, HeldAreCreated
<1> QED  BY <1>2, <1>3, <1>4 DEF Inv

(* The steps of Listener.Close, but for the closing of a FakeConn, only    *)
(* move its own program counter.                                           *)
LEMMA CloseStepKeeps ==
  ASSUME NEW x \in Closers, Inv,
         CloseStart \/ CloseTcp(x) \/ FatchOneFakeConn(x) \/ CloseWait(x) \/ ReadEOF \/ CtxCancelled
  PROVE  Inv'
<1>1. UNCHANGED <<connVars, cln>>
  BY DEF CloseStart, CloseTcp, FatchOneFakeConn, CloseWait, ReadEOF, CtxCancelled
<1>2. /\ ctxDone' \in BOOLEAN /\ tcpClosed' \in BOOLEAN /\ crashed' \in BOOLEAN
  BY Zenon DEF Inv, TypeOK, CloseStart, CloseTcp, FatchOneFakeConn, CloseWait, ReadEOF, CtxCancelled
<1>3. /\ acc' \in AccState
      /\ (acc' = acc \/ (acc.pc = "read" /\ acc'.pc = "done"))
  BY DEF Inv, TypeOK, AccState, CloseStart, CloseTcp, FatchOneFakeConn, CloseWait, ReadEOF, CtxCancelled
<1>5. /\ cls' \in [Closers -> ClsState]
      /\ \A z \in Closers : cls'[z].pc = "close" => cls'[z].fc \in Conns /\ addr[cls'[z].fc] # None
  <2>1. CASE FatchOneFakeConn(x) /\ \E k \in Keys : /\ connMap[k] # None
                                                    /\ cls' = [cls EXCEPT ![x] = [pc |-> "close", fc |-> connMap[k]]]
    BY SMTT(60), <2>1, FakeListenerAssumption DEF Inv, TypeOK, Filed, HeldAreCreated, ClsState
  <2>2. CASE UNCHANGED cls
    BY SMTT(60), <2>2 DEF Inv, TypeOK, HeldAreCreated
  <2>3. CASE \E y \in Closers, p \in {"idle", "tcp", "sweep", "wait", "done"} : cls' = [cls EXCEPT ![y].pc = p]
    <3>1. PICK y \in Closers, p \in {"idle", "tcp", "sweep", "wait", "done"} : cls' = [cls EXCEPT ![y].pc = p]
      BY Zenon, <2>3
    <3>2. cls' \in [Closers -> ClsState] /\ \A z \in Closers : cls'[z].pc = "close" => cls'[z] = cls[z]
      BY ZenonT(60), <3>1 DEF Inv, TypeOK, ClsState
    <3> QED  BY <3>2 DEF Inv, HeldAreCreated
  <2>4. CASE FatchOneFakeConn(x)
    <3>1. CASE cls' = [cls EXCEPT ![x].pc = "wait"]
      BY Zenon, <2>3, <3>1
    <3> QED  BY <2>1, <2>4, <3>1 DEF FatchOneFakeConn
  <2>5. CASE CloseStart \/ ReadEOF
    <3>1. \E y \in Closers : cls' = [cls EXCEPT ![y].pc = "tcp"]
      BY <2>5 DEF CloseStart, ReadEOF, Closers
    <3> QED  BY Zenon, <2>3, <3>1
  <2>6. CASE CloseTcp(x) \/ CloseWait(x)
    <3>1. \E p \in {"sweep", "done"} : cls' = [cls EXCEPT ![x].pc = p]
      BY <2>6 DEF CloseTcp, CloseWait
    <3> QED  BY ZenonT(60), <2>3, <3>1
  <2> QED  BY SMTT(60), <2>2, <2>4, <2>5, <2>6 DEF CtxCancelled
<1>6. TypeOK'
  BY <1>1, <1>2, <1>3, <1>5 DEF Inv, TypeOK, connVars
<1>7. HeldAreCreated'
  BY SMTT(60), <1>1, <1>3, <1>5 DEF Inv, HeldAreCreated, connVars
<1>8. Filed' /\ InsertIntoGap' /\ DelayOwnsEntry' /\ OpenIsRegistered'
  BY SMTT(60), <1>1, <1>3 DEF Inv, Filed, InsertIntoGap, DelayOwnsEntry, OpenIsRegistered, Offered, Registered,
     InsertHas, connVars
<1> QED  BY <1>6, <1>7, <1>8 DEF Inv

(* Listener.Close closes one fetched FakeConn.                             *)
LEMMA CloseOneKeeps ==
  ASSUME NEW x \in Closers, Inv, CloseOne(x)
  PROVE  Inv'
<1>1. /\ cls[x].pc = "close" /\ closeNow(cls[x].fc, "listener") /\ cls' = [cls EXCEPT ![x].pc = "sweep"]
      /\ UNCHANGED <<addr, connChan, recvch, ts, delayMap, accepted, ctxDone, tcpClosed, acc, cln, crashed>>
  BY DEF CloseOne
<1>2. cls[x].fc \in Conns /\ addr[cls[x].fc] # None
  BY <1>1 DEF Inv, HeldAreCreated
<1>3. /\ connMap' \in [Keys -> Conns \cup {None}]
      /\ closed' \in [Conns -> {"no", "user", "expire", "listener"}]
      /\ \A d \in Conns : closed'[d] # "no" => closed[d] # "no" \/ d = cls[x].fc
      /\ Filed' /\ InsertIntoGap' /\ DelayOwnsEntry' /\ OpenIsRegistered'
  BY <1>1, <1>2, CloseNowFacts
<1>4. cls' \in [Closers -> ClsState] /\ \A z \in Closers : cls'[z].pc = "close" => cls'[z] = cls[z]
  BY ZenonT(60), <1>1 DEF Inv, TypeOK, ClsState
<1>5. TypeOK'
  BY <1>1, <1>3, <1>4 DEF Inv, TypeOK
<1>6. HeldAreCreated'
  BY <1>1, <1>2, <1>3, <1>4 DEF Inv, HeldAreCreated
<1> QED  BY <1>3, <1>5, <1>6 DEF Inv

-----------------------------------------------------------------------------
(* Inv is an invariant of the listener.                                    *)
THEOREM Invariance == Spec => []Inv
<1>1. Init => Inv
  BY InitInv
<1>2. Inv /\ [Next]_vars => Inv'
  <2> SUFFICES ASSUME Inv, [Next]_vars
               PROVE  Inv'
    OBVIOUS
  <2>1. CASE \E k \in Keys : Find(k) \/ Create(k)
    BY <2>1, FindKeeps, CreateKeeps
  <2>2. CASE Insert \/ Push \/ Accept
    BY <2>2, InsertKeeps, PushKeeps, AcceptKeeps
  <2>3. CASE \E c \in Conns : Read(c) \/ CloseConn(c) \/ DelayPasses(c) \/ ExpirePasses(c)
    BY <2>3, ReadKeeps, CloseConnKeeps, TimeKeeps
  <2>4. CASE DelayTick \/ ExpireTick \/ ExpireClose \/ CleanerEnds
    BY <2>4, DelayTickKeeps, ExpireTickKeeps, ExpireCloseKeeps
  <2>5. CASE CloseStart \/ ReadEOF \/ CtxCancelled
    BY <2>5, CloseStepKeeps DEF Closers
  <2>6. CASE \E x \in Closers : CloseTcp(x) \/ FatchOneFakeConn(x) \/ CloseOne(x) \/ CloseWait(x)
    BY <2>6, CloseStepKeeps, CloseOneKeeps
  <2>7. CASE UNCHANGED vars
    <3>1. TypeOK'
      BY <2>7 DEF Inv, TypeOK, vars, connVars
    <3>2. Filed' /\ HeldAreCreated' /\ InsertIntoGap' /\ DelayOwnsEntry' /\ OpenIsRegistered'
      BY <2>7 DEF Inv, Filed, HeldAreCreated, InsertIntoGap, DelayOwnsEntry, OpenIsRegistered,
         Offered, Registered, InsertHas, vars, connVars
    <3> QED  BY <3>1, <3>2 DEF Inv
  <2> QED  BY <2>1, <2>2, <2>3, <2>4, <2>5, <2>6, <2>7 DEF Next
<1> QED  BY <1>1, <1>2, PTL DEF Spec

(* The state keeps its shape and the channels their capacity.              *)
THEOREM TypeCorrect == Spec => []TypeOK
<1>1. Inv => TypeOK
  BY DEF Inv
<1> QED  BY <1>1, Invariance, PTL

(* No delayed delete, expiry or Close takes the entry of a FakeConn that   *)
(* nobody has closed.                                                      *)
THEOREM OpenStaysRegistered == Spec => []OpenIsRegistered
<1>1. Inv => OpenIsRegistered
  BY DEF Inv
<1> QED  BY <1>1, Invariance, PTL

(* At no time are two open FakeConns in use for one remote address.        *)
THEOREM AddressesAreExclusive == Spec => []OneOpenPerAddress
<1>1. Inv => OneOpenPerAddress
  BY FakeListenerAssumption DEF Inv, TypeOK, InsertIntoGap, OpenIsRegistered, Offered, OneOpenPerAddress
<1> QED  BY <1>1, Invariance, PTL

-----------------------------------------------------------------------------
(* Creating a FakeConn is the abstract offer: the object is a new one.     *)
LEMMA CreateOffers ==
  ASSUME TypeOK, NEW k \in Keys, Create(k)
  PROVE  Queue!Offer
<1>1. PICK c \in Conns : /\ addr[c] = None
                         /\ addr' = [addr EXCEPT ![c] = k]
                         /\ connChan' = Append(connChan, c)
  BY Zenon DEF Create
<1>2. k # None
  BY FakeListenerAssumption
<1>3. {d \in Conns : Offered(d)'} = {d \in Conns : Offered(d)} \cup {c}
  BY <1>1, <1>2 DEF TypeOK, Offered
<1>4. c \in {d \in Conns : Offered(d)'} \ {d \in Conns : Offered(d)}
  BY <1>1, <1>2 DEF TypeOK, Offered
<1>5. UNCHANGED accepted
  BY DEF Create
<1> QED
  BY SMTT(60), <1>1, <1>3, <1>4, <1>5 DEF Queue!Offer

(* Accept is the abstract take.                                            *)
LEMMA AcceptTakes ==
  ASSUME Accept
  PROVE  Queue!Take
BY DEF Accept, Queue!Take, Offered

(* The listener implements the accept queue for every number of addresses  *)
(* and FakeConns and every capacity: each FakeConn is offered once and     *)
(* returned once, in order; nothing but Create and Accept touches either.  *)
THEOREM ImplementsAcceptQueue == Spec => IsAcceptQueue
<1>1. Init => Queue!Init
  BY DEF Init, Queue!Init, Offered
<1>2. TypeOK /\ [Next]_vars => [Queue!Next]_(Queue!vars)
  <2> SUFFICES ASSUME TypeOK, [Next]_vars
               PROVE  Queue!Next \/ UNCHANGED Queue!vars
    OBVIOUS
  <2>1. ASSUME NEW k \in Keys, Create(k) PROVE Queue!Next
    BY <2>1, CreateOffers DEF Queue!Next
  <2>2. CASE Accept
    BY <2>2, AcceptTakes DEF Queue!Next
  <2>3. ASSUME UNCHANGED <<addr, connChan, accepted>> PROVE UNCHANGED Queue!vars
    BY <2>3 DEF Queue!vars, Offered
  <2>4. ASSUME NEW k \in Keys, Find(k) PROVE UNCHANGED <<addr, connChan, accepted>>
    BY <2>4 DEF Find, connVars
  <2>5. CASE Insert \/ Push \/ ReadEOF \/ CtxCancelled
    BY <2>5, <2>3 DEF Insert, Push, ReadEOF, CtxCancelled, connVars
  <2>6. ASSUME NEW c \in Conns, Read(c) \/ CloseConn(c) \/ DelayPasses(c) \/ ExpirePasses(c)
        PROVE  UNCHANGED <<addr, connChan, accepted>>
    BY <2>6 DEF Read, CloseConn, closeDelayed, DelayPasses, ExpirePasses
  <2>7. CASE DelayTick \/ ExpireTick \/ ExpireClose \/ CleanerEnds \/ CloseStart
    BY <2>7, <2>3 DEF DelayTick, ExpireTick, ExpireClose, CleanerEnds, CloseStart, connVars
  <2>8. ASSUME NEW x \in Closers, CloseTcp(x) \/ FatchOneFakeConn(x) \/ CloseOne(x) \/ CloseWait(x)
        PROVE  UNCHANGED <<addr, connChan, accepted>>
    BY <2>8 DEF CloseTcp, FatchOneFakeConn, CloseOne, CloseWait, connVars
  <2>9. CASE UNCHANGED vars
    BY <2>9, <2>3 DEF vars, connVars
  <2> QED
    BY <2>1, <2>2, <2>3, <2>4, <2>5, <2>6, <2>7, <2>8, <2>9 DEF Next
<1> QED
  BY <1>1, <1>2, TypeCorrect, PTL DEF Spec, IsAcceptQueue, Queue!Spec
=============================================================================
