-------------------------------- MODULE Host ---------------------------------
(***************************************************************************)
(* The connections of one process on one host (tcp_linux.go: Dial, Listen, *)
(* Close; clear.go: IPTablesReset; faketcp/client.go), and what they share *)
(* with each other and with the processes before and after: the firewall   *)
(* rules, which outlive the process, and the list of connections.          *)
(*                                                                         *)
(* The packets of a listening connection are in FlowTable; here a flow is  *)
(* the one flow of a dialled connection.                                   *)
(***************************************************************************)
EXTENDS Filter, FiniteSets

CONSTANTS
  Clients, Servers,  \* the connections, dialled and listening
  Where,             \* the remote address of a client, the local port of a server
  Batched,           \* the connections whose capture reads in batches (ReadBatch)
  UseFec             \* the clients made WithClientFec

Conns == Clients \cup Servers
Kinds == {"ttl", "rst", "hl"}

ASSUME HostAssumption ==
  /\ IsFiniteSet(Conns) /\ Clients \cap Servers = {}
  /\ Where \in [Conns -> STRING]
  /\ Batched \subseteq Conns /\ UseFec \subseteq Clients

(* The rule a connection wants: one TTL rule for all clients, the others   *)
(* by remote address or local port.                                        *)
RuleOf(c, k) == IF c \in Clients /\ k = "ttl" THEN <<"ttl", "any">> ELSE <<k, Where[c]>>
Rules == {RuleOf(c, k) : c \in Conns, k \in Kinds}
Deletable == {r \in Rules : r[1] # "rst"}  \* the RST rules are never deleted
Wanting(r) == {c \in Conns : \E k \in Kinds : RuleOf(c, k) = r}

VARIABLES
  stage, at,  \* where Dial, Listen or Close is, and the kind of rule it is at
  rules,      \* the firewall: copies of each rule in the OUTPUT chain
  owns,       \* kinds recorded in conn.iptables and conn.ip6tables
  guarded,    \* kinds that were there or were added in Dial or Listen (history)
  left,       \* copies whose owner is gone (history)
  connList, mu,    \* the list of connections and connListMu
  reset, targets,  \* IPTablesReset and the connections it waits for
  capt,       \* captureFlow runs
  flow,       \* the client's entry of its flow table, with its TCP socket ("bound") or without
  handle,     \* the flow has a handle
  heard,      \* a packet was captured since Dial (history)
  lied        \* a Write that sent nothing has returned the length of its data (history)

stageVars == <<stage, at>>
ruleVars == <<rules, owns, guarded, left>>
listVars == <<connList, mu, reset, targets>>
flowVars == <<flow, handle, heard, lied>>
vars == <<stageVars, ruleVars, listVars, capt, flowVars>>

(* The shape of the state; the RST rule is never recorded for deletion.    *)
TypeOK ==
  /\ stage \in [Conns -> {"no", "leaked", "check", "append", "list", "open", "rules", "closed"}]
  /\ at \in [Conns -> Kinds]
  /\ rules \in [Rules -> Nat] /\ left \in [Deletable -> Nat]
  /\ owns \in [Conns -> SUBSET {"ttl", "hl"}]
  /\ guarded \in [Conns -> SUBSET {"ttl", "rst"}]
  /\ connList \subseteq Conns /\ mu \in {"free", "reset"}
  /\ reset \in {"idle", "locked", "wait"} /\ targets \subseteq Conns
  /\ capt \in [Conns -> BOOLEAN]
  /\ flow \in [Conns -> {"none", "bound", "orphan"}]
  /\ handle \in [Conns -> BOOLEAN] /\ heard \in [Conns -> BOOLEAN]
  /\ lied \in [Conns -> BOOLEAN]

Init ==
  /\ stage = [c \in Conns |-> "no"] /\ at = [c \in Conns |-> "ttl"]
  /\ rules = [r \in Rules |-> 0] /\ left = [r \in Deletable |-> 0]
  /\ owns = [c \in Conns |-> {}] /\ guarded = [c \in Conns |-> {}]
  /\ connList = {} /\ mu = "free" /\ reset = "idle" /\ targets = {}
  /\ capt = [c \in Conns |-> FALSE]
  /\ flow = [c \in Conns |-> "none"] /\ handle = [c \in Conns |-> FALSE]
  /\ heard = [c \in Conns |-> FALSE] /\ lied = [c \in Conns |-> FALSE]

(* A panic ends the process and it is started again: the firewall stays as *)
(* it is, and nobody owns the rules that are there.                        *)
Panic ==
  /\ stage' = [c \in Conns |-> "no"] /\ at' = [c \in Conns |-> "ttl"]
  /\ left' = [r \in Deletable |-> rules[r]] /\ UNCHANGED rules
  /\ owns' = [c \in Conns |-> {}] /\ guarded' = [c \in Conns |-> {}]
  /\ connList' = {} /\ mu' = "free" /\ reset' = "idle" /\ targets' = {}
  /\ capt' = [c \in Conns |-> FALSE]
  /\ flow' = [c \in Conns |-> "none"] /\ handle' = [c \in Conns |-> FALSE]
  /\ heard' = [c \in Conns |-> FALSE] /\ lied' = [c \in Conns |-> FALSE]

(* The flow of a connection nobody can use any more.                       *)
dropFlow(c) ==
  /\ flow' = [flow EXCEPT ![c] = "none"] /\ handle' = [handle EXCEPT ![c] = FALSE]
  /\ heard' = [heard EXCEPT ![c] = FALSE] /\ lied' = [lied EXCEPT ![c] = FALSE]

-----------------------------------------------------------------------------
(* Dial and Listen                                                         *)

(* The sockets are open, captureFlow and cleaner run and a client's flow   *)
(* is bound to its TCP socket, without a handle.  (An error before that    *)
(* returns with no goroutine started and no rule touched.  A name is used  *)
(* again once its capture is over.)                                        *)
Open(c) ==
  /\ stage[c] \in {"no", "closed"} /\ ~capt[c]
  /\ stage' = [stage EXCEPT ![c] = "check"]
  /\ at' = [at EXCEPT ![c] = "ttl"]
  /\ capt' = [capt EXCEPT ![c] = TRUE]
  /\ flow' = [flow EXCEPT ![c] = IF c \in Clients THEN "bound" ELSE "none"]
  /\ UNCHANGED <<ruleVars, listVars, handle, heard, lied>>

(* setTTL(1) or ListenTCP fails: the call returns an error, and the handle *)
(* and the goroutines on it stay.                                          *)
OpenFails(c) ==
  /\ stage[c] \in {"no", "closed"} /\ ~capt[c]
  /\ stage' = [stage EXCEPT ![c] = "leaked"]
  /\ capt' = [capt EXCEPT ![c] = TRUE]
  /\ UNCHANGED <<at, ruleVars, listVars, flowVars>>

(* The handle and the TCP socket have got different local addresses.       *)
DialPanics(c) ==
  /\ c \in Clients /\ stage[c] \in {"no", "closed"} /\ ~capt[c]
  /\ Panic

(* On to the next rule, and after the last one to the list.                *)
nextRule(c) ==
  /\ stage' = [stage EXCEPT ![c] = IF at[c] = "hl" THEN "list" ELSE "check"]
  /\ at' = [at EXCEPT ![c] = IF @ = "ttl" THEN "rst" ELSE "hl"]

(* iptables is missing or fails (ip6tables does, for the IPv4 addresses in *)
(* a client's rule): the rule is given up.                                 *)
SkipRule(c) ==
  /\ stage[c] \in {"check", "append"}
  /\ stage[c] = "append" => at[c] # "rst"
  /\ nextRule(c)
  /\ UNCHANGED <<ruleVars, listVars, capt, flowVars>>

(* Exists: nothing more to do, and the rule is not recorded.               *)
RuleExists(c) ==
  /\ stage[c] = "check" /\ ~(c \in Clients /\ at[c] = "hl")
  /\ rules[RuleOf(c, at[c])] > 0
  /\ guarded' = [guarded EXCEPT ![c] = @ \cup ({at[c]} \ {"hl"})]
  /\ nextRule(c)
  /\ UNCHANGED <<rules, owns, left, listVars, capt, flowVars>>

RuleMissingUnchecked(c) ==  \* faulty: the rule is added without looking
  /\ stage[c] = "check" /\ ~(c \in Clients /\ at[c] = "hl")
  /\ stage' = [stage EXCEPT ![c] = "append"]
  /\ UNCHANGED <<at, ruleVars, listVars, capt, flowVars>>

RuleMissing(c) ==
  /\ stage[c] = "check" /\ ~(c \in Clients /\ at[c] = "hl")
  /\ rules[RuleOf(c, at[c])] = 0
  /\ stage' = [stage EXCEPT ![c] = "append"]
  /\ UNCHANGED <<at, ruleVars, listVars, capt, flowVars>>

AppendRuleRecorded(c) ==  \* faulty: the RST rule is recorded like the others
  /\ stage[c] = "append"
  /\ rules' = [rules EXCEPT ![RuleOf(c, at[c])] = @ + 1]
  /\ owns' = [owns EXCEPT ![c] = @ \cup {at[c]}]
  /\ guarded' = [guarded EXCEPT ![c] = @ \cup ({at[c]} \ {"hl"})]
  /\ nextRule(c)
  /\ UNCHANGED <<left, listVars, capt, flowVars>>

(* Append, another run of the iptables command: the connection records the *)
(* rule it has added, unless it is the RST rule.                           *)
AppendRule(c) ==
  /\ stage[c] = "append"
  /\ rules' = [rules EXCEPT ![RuleOf(c, at[c])] = @ + 1]
  /\ owns' = [owns EXCEPT ![c] = @ \cup ({at[c]} \ {"rst"})]
  /\ guarded' = [guarded EXCEPT ![c] = @ \cup ({at[c]} \ {"hl"})]
  /\ nextRule(c)
  /\ UNCHANGED <<left, listVars, capt, flowVars>>

(* Exists or Append of the RST rule fails.                                 *)
RstPanic(c) ==
  /\ stage[c] \in {"check", "append"} /\ at[c] = "rst"
  /\ Panic

(* connList.PushBack, and the connection is returned.                      *)
Register(c) ==
  /\ stage[c] = "list" /\ mu = "free"
  /\ stage' = [stage EXCEPT ![c] = "open"]
  /\ connList' = connList \cup {c}
  /\ UNCHANGED <<at, ruleVars, mu, reset, targets, capt, flowVars>>

-----------------------------------------------------------------------------
(* Close, by the application, the finalizer or IPTablesReset (dieOnce)     *)

(* die, the TCP sockets and the handles are closed: a client's flow is of  *)
(* no more use.  (What a listener does with its flows is in FlowTable.)    *)
Close(c) ==
  /\ stage[c] = "open"
  /\ stage' = [stage EXCEPT ![c] = "rules"]
  /\ guarded' = [guarded EXCEPT ![c] = {}]
  /\ dropFlow(c)
  /\ UNCHANGED <<at, rules, owns, left, listVars, capt>>

DeleteRuleOfAnyone(c) ==  \* faulty: the TTL rule is deleted whoever has added it
  /\ stage[c] = "rules" /\ rules[RuleOf(c, "ttl")] > 0
  /\ owns' = [owns EXCEPT ![c] = {}]
  /\ rules' = [rules EXCEPT ![RuleOf(c, "ttl")] = @ - 1]
  /\ UNCHANGED <<stageVars, guarded, left, listVars, capt, flowVars>>

(* The rules the connection has recorded are deleted, IPv4 first; a Delete *)
(* that fails is not reported.                                             *)
DeleteRule(c) ==
  LET k == IF "ttl" \in owns[c] THEN "ttl" ELSE "hl"
      r == RuleOf(c, k)
  IN /\ stage[c] = "rules" /\ owns[c] # {}
     /\ owns' = [owns EXCEPT ![c] = @ \ {k}]
     /\ \/ rules[r] > 0 /\ rules' = [rules EXCEPT ![r] = @ - 1] /\ UNCHANGED left
        \/ left' = [left EXCEPT ![r] = @ + 1] /\ UNCHANGED rules
     /\ UNCHANGED <<stageVars, guarded, listVars, capt, flowVars>>

UnlistWithRst(c) ==  \* faulty: the RST rule is deleted too, whoever else wants it
  /\ stage[c] = "rules" /\ owns[c] = {} /\ mu = "free"
  /\ stage' = [stage EXCEPT ![c] = "closed"]
  /\ connList' = connList \ {c}
  /\ targets' = targets \ {c}
  /\ rules' = [rules EXCEPT ![RuleOf(c, "rst")] = IF @ > 0 THEN @ - 1 ELSE 0]
  /\ UNCHANGED <<at, owns, guarded, left, mu, reset, capt, flowVars>>

(* connList.Remove; the callers that wait for Close, return.               *)
Unlist(c) ==
  /\ stage[c] = "rules" /\ owns[c] = {} /\ mu = "free"
  /\ stage' = [stage EXCEPT ![c] = "closed"]
  /\ connList' = connList \ {c}
  /\ targets' = targets \ {c}
  /\ UNCHANGED <<at, ruleVars, mu, reset, capt, flowVars>>

(* captureFlow finds its handle closed: ReadFromIP's error ends it,        *)
(* ReadBatch's error is a panic.                                           *)
CaptureEnds(c) ==
  /\ capt[c] /\ stage[c] \in {"rules", "closed"} /\ c \notin Batched
  /\ capt' = [capt EXCEPT ![c] = FALSE]
  /\ UNCHANGED <<stageVars, ruleVars, listVars, flowVars>>

CapturePanics(c) ==
  /\ capt[c] /\ stage[c] \in {"rules", "closed"} /\ c \in Batched
  /\ Panic

-----------------------------------------------------------------------------
(* IPTablesReset: the connections are listed and closed by a goroutine     *)
(* each; the lock is released before they are waited for.                  *)
ResetLock ==
  /\ reset = "idle" /\ mu = "free"
  /\ mu' = "reset" /\ reset' = "locked"
  /\ targets' = connList
  /\ UNCHANGED <<stageVars, ruleVars, connList, capt, flowVars>>

ResetKeepsLock ==  \* faulty: connListMu is held (defer Unlock) while waiting
  /\ reset = "locked"
  /\ reset' = "wait"
  /\ UNCHANGED <<stageVars, ruleVars, connList, mu, targets, capt, flowVars>>

ResetUnlock ==
  /\ reset = "locked"
  /\ mu' = "free" /\ reset' = "wait"
  /\ UNCHANGED <<stageVars, ruleVars, connList, targets, capt, flowVars>>

ResetReturns ==
  /\ reset = "wait" /\ targets = {}
  /\ reset' = "idle" /\ mu' = "free"
  /\ UNCHANGED <<stageVars, ruleVars, connList, targets, capt, flowVars>>

-----------------------------------------------------------------------------
(* A client's flow: captureFlow, cleaner and Client.Write                  *)

CaptureBoundOnly(c) ==  \* faulty: the handle is recorded for the first flow only
  /\ c \in Clients /\ capt[c] /\ stage[c] \in {"check", "append", "list", "open"}
  /\ flow' = [flow EXCEPT ![c] = IF @ = "none" THEN "orphan" ELSE @]
  /\ handle' = [handle EXCEPT ![c] = (flow[c] = "bound")]
  /\ heard' = [heard EXCEPT ![c] = TRUE]
  /\ UNCHANGED <<stageVars, ruleVars, listVars, capt, lied>>

(* A packet of the peer, the SYN-ACK first: the flow is found or made anew *)
(* (without a TCP socket) and gets the handle.                             *)
Capture(c) ==
  /\ c \in Clients /\ capt[c] /\ stage[c] \in {"check", "append", "list", "open"}
  /\ flow' = [flow EXCEPT ![c] = IF @ = "none" THEN "orphan" ELSE @]
  /\ handle' = [handle EXCEPT ![c] = TRUE]
  /\ heard' = [heard EXCEPT ![c] = TRUE]
  /\ UNCHANGED <<stageVars, ruleVars, listVars, capt, lied>>

(* The cleaner finds the flow idle for longer than expire.                 *)
CleanerExpires(c) ==
  /\ flow[c] # "none" /\ stage[c] \in {"check", "append", "list", "open"}
  /\ flow' = [flow EXCEPT ![c] = "none"]
  /\ handle' = [handle EXCEPT ![c] = FALSE]
  /\ UNCHANGED <<stageVars, ruleVars, listVars, capt, heard, lied>>

(* Client.Write: without a flow it returns ErrFlowNotFound.  Without a     *)
(* handle nothing is sent: WriteTo returns 0, and so does Write, but with  *)
(* FEC Write returns the length of the data.                               *)
Write(c) ==
  /\ c \in Clients /\ stage[c] = "open"
  /\ lied' = [lied EXCEPT ![c] = @ \/ (flow[c] # "none" /\ ~handle[c] /\ c \in UseFec)]
  /\ UNCHANGED <<stageVars, ruleVars, listVars, capt, flow, handle, heard>>

-----------------------------------------------------------------------------
ConnStep(c) ==
  \/ Open(c) \/ OpenFails(c) \/ DialPanics(c)
  \/ SkipRule(c) \/ RuleExists(c) \/ RuleMissing(c) \/ AppendRule(c) \/ RstPanic(c)
  \/ Register(c)
  \/ Close(c) \/ DeleteRule(c) \/ Unlist(c)
  \/ CaptureEnds(c) \/ CapturePanics(c)
  \/ Capture(c) \/ CleanerExpires(c) \/ Write(c)

Next ==
  \/ \E c \in Conns : ConnStep(c)
  \/ ResetLock \/ ResetUnlock \/ ResetReturns

Spec == Init /\ [][Next]_vars

(* The goroutines of IPTablesReset and the calls under way are scheduled;  *)
(* an application need not call anything.                                  *)
Fairness ==
  /\ WF_vars(ResetUnlock \/ ResetReturns)
  /\ \A c \in Conns : /\ WF_vars(c \in targets /\ Close(c))
                      /\ WF_vars(DeleteRule(c))
                      /\ WF_vars(Unlist(c))

FairSpec == Spec /\ Fairness

-----------------------------------------------------------------------------
(* What the code keeps                                                     *)

owners(r) == {c \in Conns : \E k \in owns[c] : RuleOf(c, k) = r}

(* Every copy of a TTL or hop-limit rule belongs to one connection or has  *)
(* been left behind by a panic or a failed Delete: no connection deletes   *)
(* the copy of another one, and when all are closed only what was left     *)
(* behind is still there.                                                  *)
CopiesAreOwned ==
  \A r \in Deletable : rules[r] = Cardinality(owners(r)) + left[r]

(* Exists and Append are separate commands, so connections dialled at the  *)
(* same time add the same rule twice; but over any number of crashes and   *)
(* restarts there are never more copies than connections that want it      *)
(* ("if one forgets to delete them there will be more and more rules",     *)
(* Listener.Close).                                                        *)
RulesDoNotPileUp == \A r \in Rules : rules[r] <= Cardinality(Wanting(r))

(* The RST rule a connection has found or added stays while it is open,    *)
(* whichever other connections are closed: it is never deleted.            *)
ResetsStayDropped ==
  \A c \in Conns : stage[c] = "open" /\ "rst" \in guarded[c] => rules[RuleOf(c, "rst")] > 0

(* While a dialled connection captures, the filter Dial has put on its     *)
(* handle before captureFlow passes all the packets of its port, whichever *)
(* that is, and no others.  A wrong jump would make the handle deaf, or    *)
(* give captureFlow the segments of other connections and fragments that   *)
(* do not begin with a TCP header.                                         *)
FilterIsExact ==
  \A c \in Clients : capt[c] => \A p \in IpPackets : p.port \in ExactPorts

(* With FEC, Write reports success for data that goes nowhere only until   *)
(* the first packet of the peer is captured: every flow made later has a   *)
(* handle from the start, also after the cleaner has removed one.          *)
LossOnlyBeforeFirstPacket ==
  [][\A c \in Clients : lied'[c] /\ ~lied[c] => ~heard[c]]_vars

(* IPTablesReset returns, whatever else is closed or dialled meanwhile     *)
(* (or the process panics): Close takes connListMu, which the reset must   *)
(* not hold while it waits.                                                *)
ResetCompletes == reset = "locked" ~> reset = "idle"

=============================================================================
