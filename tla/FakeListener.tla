---------------------------- MODULE FakeListener -----------------------------
(***************************************************************************)
(* faketcp.Listener and its FakeConns (faketcp/listener.go): the packets   *)
(* of one tcpraw connection, sorted by remote address into net.Conns.      *)
(*                                                                         *)
(*   acceptDataLoopv2  one goroutine: reads a packet, finds the FakeConn   *)
(*                     of its address or creates one, pushes the payload   *)
(*   cleaner           one goroutine: delayed deletes and expiry           *)
(*   Listener.Close    called by the application, and by the accept loop's *)
(*                     own defer                                           *)
(*   application       Accept, Read, FakeConn.Close                        *)
(*                                                                         *)
(* One action per critical section of l.mu or channel operation.           *)
(* FakeConn.close holds the FakeConn's own lock across its section of      *)
(* l.mu, and nothing else reads `closed`, so that it is one action.        *)
(***************************************************************************)
EXTENDS Naturals, Sequences

CONSTANTS
  Keys,      \* common.AddrKey: remote addresses
  Conns,     \* FakeConn objects that newFakeConn may return (a bound)
  ConnCap,   \* capacity of connChan (1024 in the code)
  RecvCap,   \* capacity of recvch (2048 in the code)
  Prompt,    \* the accept loop does not stall for 10 seconds between steps
  None

ASSUME FakeListenerAssumption ==
  /\ ConnCap \in Nat /\ RecvCap \in Nat /\ Prompt \in BOOLEAN
  /\ None \notin Keys \cup Conns

Closers == {"user", "loop"}

VARIABLES
  connMap,    \* address -> FakeConn, None: no entry
  addr,       \* FakeConn -> its address, None: not created
  connChan,   \* FakeConns not accepted yet, oldest first
  recvch,     \* FakeConn -> number of payloads in its queue
  ts,         \* FakeConn -> "zero", "fresh", or "old": more than `expire` ago
  closed,     \* FakeConn -> who closed it, "no": open
  delayMap,   \* FakeConn -> "no" entry, "wait"ing, or "due": t has passed
  accepted,   \* the FakeConns the application has
  ctxDone,    \* l.ctx is cancelled
  tcpClosed,  \* l.fakeConn is closed
  acc,        \* acceptDataLoopv2: program counter and FakeConn in hand
  cln,        \* cleaner: program counter and deleteFcs
  cls,        \* closer -> Listener.Close: program counter and FakeConn
  crashed     \* the accept loop's panic has ended the process

connVars == <<connMap, addr, connChan, recvch, ts, closed, delayMap, accepted>>
vars == <<connVars, ctxDone, tcpClosed, acc, cln, cls, crashed>>

AccState == [pc : {"read", "insert", "push", "done"}, fc : Conns \cup {None}]
ClnState == [pc : {"wait", "expire", "done"}, dead : SUBSET Conns]
ClsState == [pc : {"idle", "tcp", "sweep", "close", "wait", "done"}, fc : Conns \cup {None}]

(* The shape of the state; neither channel exceeds its capacity.           *)
TypeOK ==
  /\ connMap \in [Keys -> Conns \cup {None}]
  /\ addr \in [Conns -> Keys \cup {None}]
  /\ connChan \in Seq(Conns) /\ Len(connChan) <= ConnCap
  /\ recvch \in [Conns -> 0 .. RecvCap]
  /\ ts \in [Conns -> {"zero", "fresh", "old"}]
  /\ closed \in [Conns -> {"no", "user", "expire", "listener"}]
  /\ delayMap \in [Conns -> {"no", "wait", "due"}]
  /\ accepted \in SUBSET Conns
  /\ ctxDone \in BOOLEAN /\ tcpClosed \in BOOLEAN /\ crashed \in BOOLEAN
  /\ acc \in AccState
  /\ cln \in ClnState
  /\ cls \in [Closers -> ClsState]

Init ==
  /\ connMap = [k \in Keys |-> None]
  /\ addr = [c \in Conns |-> None]
  /\ connChan = <<>>
  /\ recvch = [c \in Conns |-> 0]
  /\ ts = [c \in Conns |-> "zero"]
  /\ closed = [c \in Conns |-> "no"]
  /\ delayMap = [c \in Conns |-> "no"]
  /\ accepted = {}
  /\ ctxDone = FALSE /\ tcpClosed = FALSE /\ crashed = FALSE
  /\ acc = [pc |-> "read", fc |-> None]
  /\ cln = [pc |-> "wait", dead |-> {}]
  /\ cls = [x \in Closers |-> [pc |-> "idle", fc |-> None]]

Running == ~crashed

-----------------------------------------------------------------------------
(* acceptDataLoopv2                                                        *)

(* ReadFromv2 returns a packet of k, which has a FakeConn.                 *)
Find(k) ==
  /\ Running
  /\ acc.pc = "read"
  /\ connMap[k] # None
  /\ acc' = [pc |-> "push", fc |-> connMap[k]]
  /\ UNCHANGED <<connVars, ctxDone, tcpClosed, cln, cls, crashed>>

CreateUnchecked(k) ==  \* faulty: the address is not looked up first
  /\ Running
  /\ acc.pc = "read"
  /\ Len(connChan) < ConnCap
  /\ \E c \in Conns :
       /\ addr[c] = None
       /\ addr' = [addr EXCEPT ![c] = k]
       /\ connChan' = Append(connChan, c)
       /\ acc' = [pc |-> "insert", fc |-> c]
  /\ UNCHANGED <<connMap, recvch, ts, closed, delayMap, accepted, ctxDone, tcpClosed, cln, cls, crashed>>

CreateReused(k) ==  \* faulty: an earlier FakeConn of the address is used again
  /\ Running
  /\ acc.pc = "read"
  /\ connMap[k] = None
  /\ Len(connChan) < ConnCap
  /\ \E c \in Conns :
       /\ addr[c] \in {None, k}
       /\ addr' = [addr EXCEPT ![c] = k]
       /\ connChan' = Append(connChan, c)
       /\ acc' = [pc |-> "insert", fc |-> c]
  /\ UNCHANGED <<connMap, recvch, ts, closed, delayMap, accepted, ctxDone, tcpClosed, cln, cls, crashed>>

(* ReadFromv2 returns a packet of k, which has none: one is created and    *)
(* offered to Accept.  When connChan is full the packet is dropped.        *)
Create(k) ==
  /\ Running
  /\ acc.pc = "read"
  /\ connMap[k] = None
  /\ Len(connChan) < ConnCap
  /\ \E c \in Conns :
       /\ addr[c] = None
       /\ addr' = [addr EXCEPT ![c] = k]
       /\ connChan' = Append(connChan, c)
       /\ acc' = [pc |-> "insert", fc |-> c]
  /\ UNCHANGED <<connMap, recvch, ts, closed, delayMap, accepted, ctxDone, tcpClosed, cln, cls, crashed>>

Insert ==
  /\ Running
  /\ acc.pc = "insert"
  /\ connMap' = [connMap EXCEPT ![addr[acc.fc]] = acc.fc]
  /\ acc' = [acc EXCEPT !.pc = "push"]
  /\ UNCHANGED <<addr, connChan, recvch, ts, closed, delayMap, accepted, ctxDone, tcpClosed, cln, cls, crashed>>

PushBlindly ==  \* faulty: a full queue is not checked
  /\ Running
  /\ acc.pc = "push"
  /\ recvch' = [recvch EXCEPT ![acc.fc] = @ + 1]
  /\ ts' = [ts EXCEPT ![acc.fc] = "fresh"]
  /\ acc' = [pc |-> "read", fc |-> None]
  /\ UNCHANGED <<connMap, addr, connChan, closed, delayMap, accepted, ctxDone, tcpClosed, cln, cls, crashed>>

(* Push never blocks; only what is queued counts as activity.              *)
Push ==
  /\ Running
  /\ acc.pc = "push"
  /\ \/ /\ recvch[acc.fc] < RecvCap
        /\ recvch' = [recvch EXCEPT ![acc.fc] = @ + 1]
        /\ ts' = [ts EXCEPT ![acc.fc] = "fresh"]
     \/ /\ recvch[acc.fc] = RecvCap
        /\ UNCHANGED <<recvch, ts>>
  /\ acc' = [pc |-> "read", fc |-> None]
  /\ UNCHANGED <<connMap, addr, connChan, closed, delayMap, accepted, ctxDone, tcpClosed, cln, cls, crashed>>

(* ReadFromv2 returns io.EOF: the loop panics.  Its defers run first,      *)
(* wg.Done and then l.Close (which starts by cancelling l.ctx).            *)
ReadEOF ==
  /\ Running
  /\ acc.pc = "read"
  /\ tcpClosed
  /\ acc' = [acc EXCEPT !.pc = "done"]
  /\ ctxDone' = TRUE
  /\ cls' = [cls EXCEPT !["loop"].pc = "tcp"]
  /\ UNCHANGED <<connVars, tcpClosed, cln, crashed>>

-----------------------------------------------------------------------------
(* FakeConn.close: the second call does nothing.  The entry is deleted at  *)
(* once, by address, or by the cleaner ten seconds later.                  *)
closeNow(c, by) ==
  IF closed[c] # "no"
  THEN UNCHANGED <<closed, connMap>>
  ELSE /\ closed' = [closed EXCEPT ![c] = by]
       /\ connMap' = [connMap EXCEPT ![addr[c]] = None]

closeDeletesBoth(c) ==  \* faulty: the entry is deleted at once as well
  /\ closed' = [closed EXCEPT ![c] = "user"]
  /\ delayMap' = [delayMap EXCEPT ![c] = "wait"]
  /\ connMap' = [connMap EXCEPT ![addr[c]] = None]

closeForgetsDelay(c) ==  \* faulty: the entry is never deleted
  /\ closed' = [closed EXCEPT ![c] = "user"]
  /\ UNCHANGED <<delayMap, connMap>>

closeDelayed(c) ==
  /\ closed' = [closed EXCEPT ![c] = "user"]
  /\ delayMap' = [delayMap EXCEPT ![c] = "wait"]
  /\ UNCHANGED connMap

(* The application                                                         *)
Accept ==
  /\ Running
  /\ connChan # <<>>
  /\ accepted' = accepted \cup {Head(connChan)}
  /\ connChan' = Tail(connChan)
  /\ UNCHANGED <<connMap, addr, recvch, ts, closed, delayMap, ctxDone, tcpClosed, acc, cln, cls, crashed>>

Read(c) ==
  /\ Running
  /\ c \in accepted
  /\ recvch[c] > 0
  /\ recvch' = [recvch EXCEPT ![c] = @ - 1]
  /\ UNCHANGED <<connMap, addr, connChan, ts, closed, delayMap, accepted, ctxDone, tcpClosed, acc, cln, cls, crashed>>

CloseConn(c) ==
  /\ Running
  /\ c \in accepted
  /\ closed[c] = "no"
  /\ closeDelayed(c)
  /\ UNCHANGED <<addr, connChan, recvch, ts, accepted, ctxDone, tcpClosed, acc, cln, cls, crashed>>

(* The context given to NewFakeTcpListener is cancelled by its owner.      *)
CtxCancelled ==
  /\ Running
  /\ ~ctxDone
  /\ ctxDone' = TRUE
  /\ UNCHANGED <<connVars, tcpClosed, acc, cln, cls, crashed>>

-----------------------------------------------------------------------------
(* Time and the cleaner                                                    *)
InHand(c) == acc.fc = c

DelayPasses(c) ==
  /\ Running
  /\ delayMap[c] = "wait"
  /\ Prompt => ~InHand(c)
  /\ delayMap' = [delayMap EXCEPT ![c] = "due"]
  /\ UNCHANGED <<connMap, addr, connChan, recvch, ts, closed, accepted, ctxDone, tcpClosed, acc, cln, cls, crashed>>

ExpirePasses(c) ==
  /\ Running
  /\ ts[c] = "fresh"
  /\ Prompt => ~InHand(c)
  /\ ts' = [ts EXCEPT ![c] = "old"]
  /\ UNCHANGED <<connMap, addr, connChan, recvch, closed, delayMap, accepted, ctxDone, tcpClosed, acc, cln, cls, crashed>>

Due == {c \in Conns : delayMap[c] = "due"}

DelayTick ==
  /\ Running
  /\ cln.pc = "wait"
  /\ Due # {}
  /\ connMap' = [k \in Keys |-> IF \E c \in Due : addr[c] = k THEN None ELSE connMap[k]]
  /\ delayMap' = [c \in Conns |-> IF c \in Due THEN "no" ELSE delayMap[c]]
  /\ UNCHANGED <<addr, connChan, recvch, ts, closed, accepted, ctxDone, tcpClosed, acc, cln, cls, crashed>>

ExpireTick ==
  /\ Running
  /\ cln.pc = "wait"
  /\ cln' = [pc |-> "expire", dead |-> {c \in Conns : (\E k \in Keys : connMap[k] = c)
                                                      /\ ts[c] # "fresh"}]
  /\ UNCHANGED <<connVars, ctxDone, tcpClosed, acc, cls, crashed>>

ExpireClose ==
  /\ Running
  /\ cln.pc = "expire"
  /\ \/ \E c \in cln.dead :
          /\ closeNow(c, "expire")
          /\ cln' = [cln EXCEPT !.dead = @ \ {c}]
     \/ /\ cln.dead = {}
        /\ cln' = [cln EXCEPT !.pc = "wait"]
        /\ UNCHANGED <<closed, connMap>>
  /\ UNCHANGED <<addr, connChan, recvch, ts, delayMap, accepted, ctxDone, tcpClosed, acc, cls, crashed>>

CleanerEnds ==
  /\ Running
  /\ cln.pc = "wait"
  /\ ctxDone
  /\ cln' = [cln EXCEPT !.pc = "done"]
  /\ UNCHANGED <<connVars, ctxDone, tcpClosed, acc, cls, crashed>>

-----------------------------------------------------------------------------
(* Listener.Close                                                          *)
CloseStart ==
  /\ Running
  /\ cls["user"].pc = "idle"
  /\ ctxDone' = TRUE
  /\ cls' = [cls EXCEPT !["user"].pc = "tcp"]
  /\ UNCHANGED <<connVars, tcpClosed, acc, cln, crashed>>

CloseTcp(x) ==
  /\ Running
  /\ cls[x].pc = "tcp"
  /\ tcpClosed' = TRUE
  /\ cls' = [cls EXCEPT ![x].pc = "sweep"]
  /\ UNCHANGED <<connVars, ctxDone, acc, cln, crashed>>

(* closeAllFakeConns: fetch any entry, until there is none ...             *)
FatchOneFakeConn(x) ==
  /\ Running
  /\ cls[x].pc = "sweep"
  /\ \/ \E k \in Keys :
          /\ connMap[k] # None
          /\ cls' = [cls EXCEPT ![x] = [pc |-> "close", fc |-> connMap[k]]]
     \/ /\ \A k \in Keys : connMap[k] = None
        /\ cls' = [cls EXCEPT ![x].pc = "wait"]
  /\ UNCHANGED <<connVars, ctxDone, tcpClosed, acc, cln, crashed>>

(* ... and close it.                                                       *)
CloseOne(x) ==
  /\ Running
  /\ cls[x].pc = "close"
  /\ closeNow(cls[x].fc, "listener")
  /\ cls' = [cls EXCEPT ![x].pc = "sweep"]
  /\ UNCHANGED <<addr, connChan, recvch, ts, delayMap, accepted, ctxDone, tcpClosed, acc, cln, crashed>>

(* wg.Wait; then Close returns, the accept loop's into its panic.          *)
CloseWait(x) ==
  /\ Running
  /\ cls[x].pc = "wait"
  /\ acc.pc = "done" /\ cln.pc = "done"
  /\ cls' = [cls EXCEPT ![x].pc = "done"]
  /\ crashed' = (x = "loop")
  /\ UNCHANGED <<connVars, ctxDone, tcpClosed, acc, cln>>

Next ==
  \/ \E k \in Keys : Find(k) \/ Create(k)
  \/ Insert \/ Push \/ ReadEOF
  \/ Accept \/ CtxCancelled
  \/ \E c \in Conns : Read(c) \/ CloseConn(c) \/ DelayPasses(c) \/ ExpirePasses(c)
  \/ DelayTick \/ ExpireTick \/ ExpireClose \/ CleanerEnds
  \/ CloseStart
  \/ \E x \in Closers : CloseTcp(x) \/ FatchOneFakeConn(x) \/ CloseOne(x) \/ CloseWait(x)

Spec == Init /\ [][Next]_vars

(* Goroutines run, time passes, tickers fire, and a select that keeps      *)
(* being ready picks each of its cases in the end.                         *)
Fairness ==
  /\ WF_vars(Insert \/ Push) /\ SF_vars(ReadEOF)
  /\ \A c \in Conns : SF_vars(DelayPasses(c))
  /\ SF_vars(DelayTick) /\ WF_vars(ExpireClose) /\ SF_vars(CleanerEnds)
  /\ \A x \in Closers : WF_vars(CloseTcp(x) \/ FatchOneFakeConn(x) \/ CloseOne(x) \/ CloseWait(x))

FairSpec == Spec /\ Fairness

-----------------------------------------------------------------------------
(* What the code keeps                                                     *)
Offered(c) == addr[c] # None

(* A FakeConn that nobody has closed receives the packets of its address:  *)
(* deleting by address never takes the entry of a newer FakeConn, however  *)
(* delayed deletes, expiry and new packets interleave.                     *)
OpenIsRegistered ==
  \A c \in Conns :
    Offered(c) /\ closed[c] = "no" => connMap[addr[c]] = c \/ (acc.pc = "insert" /\ acc.fc = c)

(* Two open FakeConns never share an address.                              *)
OneOpenPerAddress ==
  \A c, d \in Conns :
    (Offered(c) /\ addr[c] = addr[d] /\ closed[c] = "no" /\ closed[d] = "no") => c = d

(* The delayed delete of FakeConn.close happens: an address whose FakeConn *)
(* the application has closed can be accepted again (close's comment), as  *)
(* long as the listener lives.                                             *)
ClosedMakesRoom ==
  \A c \in Conns :
    (closed[c] = "user" /\ \E k \in Keys : connMap[k] = c)
      ~> (ctxDone \/ \A k \in Keys : connMap[k] # c)

Queue == INSTANCE AcceptQueue WITH
  offered <- {c \in Conns : Offered(c)}, queue <- connChan, taken <- accepted

(* The listener is an accept queue: whatever closes, expires and comes     *)
(* back meanwhile, each FakeConn is offered once and returned by one call  *)
(* of Accept, in the order of the first packets.                           *)
IsAcceptQueue == Queue!Spec

-----------------------------------------------------------------------------
(* What the repository says and the code does not keep                     *)

(* faketcp/listener.go:363, "all tasks done, listener closed": a call of   *)
(* Listener.Close returns (or the process has ended before).               *)
CloseReturns == cls["user"].pc # "idle" ~> (cls["user"].pc = "done" \/ crashed)
=============================================================================
