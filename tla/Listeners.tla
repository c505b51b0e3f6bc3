------------------------------ MODULE Listeners ------------------------------
(***************************************************************************)
(* faketcp.Listeners (faketcp/listeners.go): several Listeners behind one  *)
(* Accept.  The first call starts one forwarding goroutine per listener,   *)
(* which moves connections from listener.Accept to the shared connChan.    *)
(*                                                                         *)
(* Each Listener is the accept queue that FakeListener implements; its     *)
(* context is a child of Listeners.ctx.                                    *)
(***************************************************************************)
EXTENDS Naturals, Sequences, FiniteSets

CONSTANTS
  N,          \* the number of addresses
  Conns,      \* FakeConns that the listeners may create (a bound)
  QueueCap,   \* capacity of a listener's connChan (1024 in the code)
  ChanCap,    \* capacity of Listeners.connChan (1024 in the code)
  None

ASSUME ListenersAssumption ==
  N \in Nat /\ QueueCap \in Nat /\ ChanCap \in Nat /\ None \notin Conns

Ls == 1 .. N

VARIABLES
  stage,      \* FakeTcpListeners: "opening", "up", or "failed"
  opened,     \* how many of the listeners are listening
  offered,    \* listener -> the FakeConns it has created
  queue,      \* listener -> its connChan
  closing,    \* Listeners.Close: the listener it closes next, 0: not called
  lClosed,    \* the listeners whose Close has been called
  ctxDone,    \* the context given to FakeTcpListeners is cancelled
  fwd,        \* listener -> its forwarder: program counter and conn in hand
  connChan,   \* FakeConns forwarded and not returned
  calling,    \* the application is inside Accept
  taken,      \* the FakeConns Accept has returned
  crashed     \* the panic of a closed listener's loop has ended the process

lisVars == <<stage, opened, offered, queue>>
endVars == <<closing, lClosed, ctxDone, crashed>>
vars == <<lisVars, endVars, fwd, connChan, calling, taken>>

(* The shape of the state; no channel exceeds its capacity.                *)
TypeOK ==
  /\ stage \in {"opening", "up", "failed"} /\ opened \in 0 .. N
  /\ offered \in [Ls -> SUBSET Conns]
  /\ \A l \in Ls : queue[l] \in Seq(Conns) /\ Len(queue[l]) <= QueueCap
  /\ closing \in 0 .. N + 1 /\ lClosed \in SUBSET Ls
  /\ ctxDone \in BOOLEAN /\ crashed \in BOOLEAN /\ calling \in BOOLEAN
  /\ fwd \in [Ls -> [pc : {"idle", "accept", "send", "done"}, conn : Conns \cup {None}]]
  /\ connChan \in Seq(Conns) /\ Len(connChan) <= ChanCap
  /\ taken \in SUBSET Conns

Init ==
  /\ stage = "opening" /\ opened = 0
  /\ offered = [l \in Ls |-> {}]
  /\ queue = [l \in Ls |-> <<>>]
  /\ closing = 0 /\ lClosed = {} /\ ctxDone = FALSE /\ crashed = FALSE
  /\ fwd = [l \in Ls |-> [pc |-> "idle", conn |-> None]]
  /\ connChan = <<>> /\ calling = FALSE /\ taken = {}

Running == ~crashed

-----------------------------------------------------------------------------
(* FakeTcpListeners: the addresses in turn; an error returns at once and   *)
(* leaves the listeners opened so far as they are.                         *)
Open ==
  /\ Running
  /\ stage = "opening"
  /\ \/ /\ opened < N
        /\ \/ opened' = opened + 1 /\ UNCHANGED stage
           \/ stage' = "failed" /\ UNCHANGED opened
     \/ opened = N /\ stage' = "up" /\ UNCHANGED opened
  /\ UNCHANGED <<offered, queue, endVars, fwd, connChan, calling, taken>>

(* A listener's accept loop creates a FakeConn; its queue has room.        *)
Offer(l) ==
  /\ Running
  /\ l <= opened
  /\ Len(queue[l]) < QueueCap
  /\ \E c \in Conns \ UNION {offered[k] : k \in Ls} :
       /\ offered' = [offered EXCEPT ![l] = @ \cup {c}]
       /\ queue' = [queue EXCEPT ![l] = Append(@, c)]
  /\ UNCHANGED <<stage, opened, endVars, fwd, connChan, calling, taken>>

-----------------------------------------------------------------------------
(* The forwarders                                                          *)
lDone(l) == ctxDone \/ l \in lClosed

(* listener.Accept returns a connection ...                                *)
ForwardAccept(l) ==
  /\ Running
  /\ fwd[l].pc = "accept"
  /\ queue[l] # <<>>
  /\ fwd' = [fwd EXCEPT ![l] = [pc |-> "send", conn |-> Head(queue[l])]]
  /\ queue' = [queue EXCEPT ![l] = Tail(@)]
  /\ UNCHANGED <<stage, opened, offered, endVars, connChan, calling, taken>>

ForwardRetries(l) ==  \* faulty: the loop continues after an error
  /\ Running
  /\ fwd[l].pc = "accept"
  /\ lDone(l)
  /\ UNCHANGED vars

(* ... or, its context done, an error (either, when both are ready).       *)
ForwardEnds(l) ==
  /\ Running
  /\ fwd[l].pc = "accept"
  /\ lDone(l)
  /\ fwd' = [fwd EXCEPT ![l].pc = "done"]
  /\ UNCHANGED <<lisVars, endVars, connChan, calling, taken>>

ForwardOrDrop(l) ==  \* faulty: a full channel drops the connection
  /\ Running
  /\ fwd[l].pc = "send"
  /\ connChan' = IF Len(connChan) < ChanCap THEN Append(connChan, fwd[l].conn) ELSE connChan
  /\ fwd' = [fwd EXCEPT ![l] = [pc |-> "accept", conn |-> None]]
  /\ UNCHANGED <<lisVars, endVars, calling, taken>>

ForwardUnbounded(l) ==  \* faulty: the send does not wait for room
  /\ Running
  /\ fwd[l].pc = "send"
  /\ connChan' = Append(connChan, fwd[l].conn)
  /\ fwd' = [fwd EXCEPT ![l] = [pc |-> "accept", conn |-> None]]
  /\ UNCHANGED <<lisVars, endVars, calling, taken>>

(* The send waits for room, with no regard for any context.                *)
ForwardSend(l) ==
  /\ Running
  /\ fwd[l].pc = "send"
  /\ Len(connChan) < ChanCap
  /\ connChan' = Append(connChan, fwd[l].conn)
  /\ fwd' = [fwd EXCEPT ![l] = [pc |-> "accept", conn |-> None]]
  /\ UNCHANGED <<lisVars, endVars, calling, taken>>

-----------------------------------------------------------------------------
(* Accept                                                                  *)
startLast ==  \* faulty: every goroutine captures the last listener
  fwd' = IF fwd[N].pc = "idle" THEN [fwd EXCEPT ![N].pc = "accept"] ELSE fwd

(* once.Do: the first call starts the forwarders.                          *)
start ==
  fwd' = [l \in Ls |-> IF fwd[l].pc = "idle" THEN [fwd[l] EXCEPT !.pc = "accept"] ELSE fwd[l]]

Accept ==
  /\ Running
  /\ stage = "up"
  /\ ~calling
  /\ calling' = TRUE
  /\ start
  /\ UNCHANGED <<lisVars, endVars, connChan, taken>>

AcceptReturns ==
  /\ Running
  /\ calling
  /\ connChan # <<>>
  /\ taken' = taken \cup {Head(connChan)}
  /\ connChan' = Tail(connChan)
  /\ calling' = FALSE
  /\ UNCHANGED <<lisVars, endVars, fwd>>

AcceptIgnoresContext ==  \* faulty: the error is returned only after a Close
  /\ Running
  /\ calling
  /\ ctxDone /\ lClosed # {}
  /\ calling' = FALSE
  /\ UNCHANGED <<lisVars, endVars, fwd, connChan, taken>>

AcceptFails ==
  /\ Running
  /\ calling
  /\ ctxDone
  /\ calling' = FALSE
  /\ UNCHANGED <<lisVars, endVars, fwd, connChan, taken>>

-----------------------------------------------------------------------------
(* The end                                                                 *)
CtxCancelled ==
  /\ Running
  /\ ~ctxDone
  /\ ctxDone' = TRUE
  /\ UNCHANGED <<lisVars, closing, lClosed, crashed, fwd, connChan, calling, taken>>

(* Close closes the listeners in turn; ctx is not cancelled.               *)
Close ==
  /\ Running
  /\ stage = "up"
  /\ closing <= N
  /\ closing' = closing + 1
  /\ lClosed' = lClosed \cup (Ls \cap {closing})
  /\ UNCHANGED <<lisVars, ctxDone, crashed, fwd, connChan, calling, taken>>

(* The accept loop of a closed listener reads io.EOF and panics.           *)
LoopPanics ==
  /\ Running
  /\ lClosed # {}
  /\ crashed' = TRUE
  /\ UNCHANGED <<lisVars, closing, lClosed, ctxDone, fwd, connChan, calling, taken>>

Forward(l) == ForwardAccept(l) \/ ForwardEnds(l) \/ ForwardSend(l)

Next ==
  \/ Open \/ Accept \/ AcceptReturns \/ AcceptFails
  \/ \E l \in Ls : Offer(l) \/ Forward(l)
  \/ CtxCancelled \/ Close \/ LoopPanics

Spec == Init /\ [][Next]_vars

(* Goroutines run, select does not neglect a ready case for ever, and the  *)
(* application calls Accept again after a connection.                      *)
Fairness ==
  /\ \A l \in Ls : /\ WF_vars(ForwardAccept(l)) /\ WF_vars(ForwardSend(l))
                   /\ SF_vars(ForwardEnds(l))
  /\ WF_vars(Accept) /\ WF_vars(AcceptReturns) /\ SF_vars(AcceptFails)

FairSpec == Spec /\ Fairness

-----------------------------------------------------------------------------
(* What the code keeps                                                     *)

(* The elements of s that are in C, in their order.                        *)
nth(S, i) == CHOOSE k \in S : Cardinality({j \in S : j < k}) = i - 1
only(s, C) ==
  LET at == {i \in 1 .. Len(s) : s[i] \in C}
  IN [i \in 1 .. Cardinality(at) |-> s[nth(at, i)]]

(* The FakeConns of l on their way to the application, oldest first.       *)
pending(l) ==
  only(connChan, offered[l])
    \o (IF fwd[l].pc = "send" THEN <<fwd[l].conn>> ELSE <<>>)
    \o queue[l]

Through(l) == INSTANCE AcceptQueue WITH
  offered <- offered[l], queue <- pending(l), taken <- taken \cap offered[l]

(* "实现侦听多个地址, 兼容单个地址的侦听" (listeners.go:10): to the        *)
(* connections of one listener, Listeners is the accept queue the listener *)
(* is by itself.  The two channels and the hand of the forwarder between   *)
(* them lose, repeat and reorder nothing.                                  *)
KeepsEachQueue ==
  /\ \A l \in Ls : Through(l)!Init
  /\ [][\A l \in Ls : Through(l)!Next \/ UNCHANGED Through(l)!vars]_vars

Ending == ctxDone \/ lClosed # {}

(* Every connection of every listener reaches the application, unless the  *)
(* context is cancelled or Close is called.                                *)
OfferedIsAccepted ==
  \A c \in Conns : ((\E l \in Ls : c \in offered[l]) /\ stage = "up") ~> (c \in taken \/ Ending)

(* Accept does not hang once the context is cancelled.                     *)
CancelEndsAccept == (ctxDone /\ calling) ~> (~calling \/ crashed)

(* After a cancellation, the only forwarder that stays is one with a       *)
(* connection that the full connChan does not take.                        *)
CancelEndsForwarders ==
  ctxDone ~> (crashed \/ \A l \in Ls : \/ fwd[l].pc \in {"idle", "done"}
                                       \/ fwd[l].pc = "send" /\ Len(connChan) = ChanCap)
=============================================================================
