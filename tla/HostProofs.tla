------------------------------ MODULE HostProofs ------------------------------
(***************************************************************************)
(* Host's safety properties for any number of clients and servers.         *)
(***************************************************************************)
EXTENDS Host, FiniteSetTheorems, TLAPS

Dialling == {"check", "append", "list", "open"}

-----------------------------------------------------------------------------
(* The inductive invariant.                                                *)

(* The connections that have found r missing and not added it yet.         *)
appending(r) == {c \in Conns : stage[c] = "append" /\ RuleOf(c, at[c]) = r}

(* Why the copies of a rule do not pile up: a connection begins to append  *)
(* only when there is no copy, so copies and appenders together are never  *)
(* more than the connections that want the rule.                           *)
CopiesFit == \A r \in Rules : rules[r] + Cardinality(appending(r)) <= Cardinality(Wanting(r))

(* A connection has not recorded the rule it is at, or one to come.        *)
OwnsBehind ==
  \A c \in Conns :
    /\ stage[c] \in {"no", "leaked", "closed"} => owns[c] = {}
    /\ stage[c] \in {"check", "append"} => owns[c] \subseteq (IF at[c] = "ttl" THEN {} ELSE {"ttl"})

(* The RST rule, from the moment it was found or added.                    *)
RstStays == \A c \in Conns : "rst" \in guarded[c] => rules[RuleOf(c, "rst")] > 0

(* Once a packet was captured, a flow without a handle does not come back. *)
HandleKnown ==
  \A c \in Conns : /\ heard[c] => stage[c] \in Dialling
                   /\ heard[c] /\ flow[c] # "none" => handle[c]

Inv ==
  /\ TypeOK
  /\ CopiesAreOwned
  /\ CopiesFit
  /\ OwnsBehind
  /\ RstStays
  /\ HandleKnown

-----------------------------------------------------------------------------
(* Rules                                                                   *)

(* The kind of a rule is its first component, so that the rules of one     *)
(* connection are different ones.                                          *)
LEMMA RuleKind ==
  ASSUME NEW c \in Conns, NEW k \in Kinds
  PROVE  RuleOf(c, k) \in Rules /\ RuleOf(c, k)[1] = k
BY DEF RuleOf, Rules

LEMMA RuleDeletable ==
  ASSUME NEW c \in Conns, NEW k \in {"ttl", "hl"}
  PROVE  RuleOf(c, k) \in Deletable
BY RuleKind DEF Deletable, Kinds

(* The sets that are counted are finite.                                   *)
LEMMA Finite ==
  ASSUME NEW S \in SUBSET Conns
  PROVE  IsFiniteSet(S) /\ Cardinality(S) \in Nat
BY HostAssumption, FS_Subset, FS_CardinalityType

LEMMA AppendingWants ==
  ASSUME TypeOK, NEW r
  PROVE  appending(r) \subseteq Wanting(r)
BY DEF TypeOK, appending, Wanting

(* CopiesFit survives when no rule gains a copy or an appender.            *)
LEMMA FewerFit ==
  ASSUME TypeOK, CopiesFit, rules' \in [Rules -> Nat],
         \A r \in Rules : rules'[r] <= rules[r] /\ appending(r)' \subseteq appending(r)
  PROVE  CopiesFit'
<1> SUFFICES ASSUME NEW r \in Rules
             PROVE  rules'[r] + Cardinality(appending(r)') <= Cardinality(Wanting(r))
  BY DEF CopiesFit, Wanting
<1>1. appending(r) \in SUBSET Conns /\ appending(r)' \in SUBSET Conns /\ Wanting(r) \in SUBSET Conns
  BY DEF appending, Wanting
<1>2. /\ Cardinality(appending(r)) \in Nat /\ Cardinality(appending(r)') \in Nat
      /\ Cardinality(Wanting(r)) \in Nat
  BY <1>1, Finite
<1>3. Cardinality(appending(r)') <= Cardinality(appending(r))
  BY <1>1, Finite, FS_Subset
<1>4. rules[r] + Cardinality(appending(r)) <= Cardinality(Wanting(r))
  BY DEF CopiesFit
<1>5. rules[r] \in Nat /\ rules'[r] \in Nat /\ rules'[r] <= rules[r]
  BY DEF TypeOK
<1> QED
  BY <1>2, <1>3, <1>4, <1>5

(* What does not touch the rules keeps what is said of them.               *)
LEMMA RulesUntouched ==
  ASSUME Inv, UNCHANGED <<rules, owns, left>>,
         \A c \in Conns : guarded'[c] \subseteq guarded[c]
  PROVE  CopiesAreOwned' /\ RstStays'
BY SMTT(60) DEF Inv, CopiesAreOwned, owners, RstStays, Deletable

LEMMA InitInv ==
  ASSUME Init
  PROVE  Inv
<1>1. TypeOK
  BY DEF Init, TypeOK, Kinds
<1>2. OwnsBehind /\ RstStays /\ HandleKnown
  BY DEF Init, OwnsBehind, RstStays, HandleKnown
<1>3. CopiesAreOwned
  <2> SUFFICES ASSUME NEW r \in Deletable
               PROVE  rules[r] = Cardinality(owners(r)) + left[r]
    BY DEF CopiesAreOwned
  <2>1. owners(r) = {}
    BY DEF Init, owners
  <2> QED
    BY <2>1, FS_EmptySet DEF Init, Deletable
<1>4. CopiesFit
  <2> SUFFICES ASSUME NEW r \in Rules
               PROVE  rules[r] + Cardinality(appending(r)) <= Cardinality(Wanting(r))
    BY DEF CopiesFit
  <2>1. appending(r) = {}
    BY DEF Init, appending
  <2>2. Cardinality(Wanting(r)) \in Nat
    BY Finite DEF Wanting
  <2> QED
    BY <2>1, <2>2, FS_EmptySet DEF Init
<1> QED
  BY <1>1, <1>2, <1>3, <1>4 DEF Inv

(* A panic forgets the connections; the copies of the rules are all left.  *)
LEMMA PanicKeeps ==
  ASSUME Inv, Panic
  PROVE  Inv'
<1>1. TypeOK'
  BY DEF Inv, Panic, TypeOK, Kinds, Deletable
<1>2. OwnsBehind' /\ RstStays' /\ HandleKnown'
  BY DEF Panic, OwnsBehind, RstStays, HandleKnown
<1>3. CopiesAreOwned'
  <2> SUFFICES ASSUME NEW r \in Deletable
               PROVE  rules'[r] = Cardinality(owners(r)') + left'[r]
    BY DEF CopiesAreOwned, Deletable
  <2>1. owners(r)' = {}
    BY DEF Panic, owners
  <2>2. rules[r] \in Nat
    BY DEF Inv, TypeOK, Deletable
  <2> QED
    BY <2>1, <2>2, FS_EmptySet DEF Panic
<1>4. CopiesFit'
  <2>1. \A r \in Rules : appending(r)' = {}
    BY DEF Panic, appending
  <2> QED
    BY <2>1, FewerFit DEF Inv, Panic, TypeOK
<1> QED
  BY <1>1, <1>2, <1>3, <1>4 DEF Inv

-----------------------------------------------------------------------------
(* The steps that change neither the rules nor where a connection is.      *)
LEMMA QuietKeeps ==
  ASSUME Inv, UNCHANGED <<stageVars, ruleVars>>, TypeOK', HandleKnown'
  PROVE  Inv'
<1>1. CopiesAreOwned' /\ RstStays'
  BY RulesUntouched DEF ruleVars
<1>2. OwnsBehind'
  BY DEF Inv, OwnsBehind, stageVars, ruleVars
<1>3. CopiesFit'
  BY DEF Inv, CopiesFit, appending, stageVars, ruleVars
<1> QED
  BY <1>1, <1>2, <1>3 DEF Inv

LEMMA FlowStepKeeps ==
  ASSUME Inv, NEW c \in Conns, Capture(c) \/ CleanerExpires(c) \/ Write(c)
  PROVE  Inv'
<1>1. CASE Capture(c)
  <2>1. TypeOK'
    BY <1>1 DEF Inv, TypeOK, Capture, stageVars, ruleVars, listVars
  <2>2. HandleKnown'
    BY <1>1 DEF Inv, TypeOK, HandleKnown, Capture, stageVars, Dialling
  <2> QED
    BY <1>1, <2>1, <2>2, QuietKeeps DEF Capture
<1>2. CASE CleanerExpires(c)
  <2>1. TypeOK'
    BY <1>2 DEF Inv, TypeOK, CleanerExpires, stageVars, ruleVars, listVars
  <2>2. HandleKnown'
    BY SMTT(60), <1>2 DEF Inv, TypeOK, HandleKnown, CleanerExpires, stageVars
  <2> QED
    BY <1>2, <2>1, <2>2, QuietKeeps DEF CleanerExpires
<1>3. CASE Write(c)
  <2>1. lied' \in [Conns -> BOOLEAN]
    BY <1>3 DEF Inv, TypeOK, Write
  <2>2. TypeOK'
    BY SMTT(60), <1>3, <2>1 DEF Inv, TypeOK, Write, stageVars, ruleVars, listVars
  <2>3. HandleKnown'
    BY <1>3 DEF Inv, HandleKnown, Write, stageVars
  <2> QED
    BY <1>3, <2>2, <2>3, QuietKeeps DEF Write
<1> QED
  BY <1>1, <1>2, <1>3

LEMMA ResetStepKeeps ==
  ASSUME Inv, ResetLock \/ ResetUnlock \/ ResetReturns
  PROVE  Inv'
<1>1. UNCHANGED <<stageVars, ruleVars, capt, flowVars>>
  BY DEF ResetLock, ResetUnlock, ResetReturns
<1>2. TypeOK'
  BY <1>1 DEF Inv, TypeOK, ResetLock, ResetUnlock, ResetReturns, stageVars, ruleVars, flowVars
<1>3. HandleKnown'
  BY <1>1 DEF Inv, HandleKnown, stageVars, flowVars
<1> QED
  BY <1>1, <1>2, <1>3, QuietKeeps

LEMMA CaptureEndsKeeps ==
  ASSUME Inv, NEW c \in Conns, CaptureEnds(c)
  PROVE  Inv'
<1>1. TypeOK'
  BY DEF Inv, TypeOK, CaptureEnds, stageVars, ruleVars, listVars, flowVars
<1>2. HandleKnown'
  BY DEF Inv, HandleKnown, CaptureEnds, stageVars, flowVars
<1> QED
  BY SMTT(60), <1>1, <1>2, QuietKeeps DEF CaptureEnds

-----------------------------------------------------------------------------
(* The steps that move a connection on and leave the rules alone.          *)
LEMMA MoveKeeps ==
  ASSUME Inv, UNCHANGED <<rules, owns, left>>, TypeOK', HandleKnown', OwnsBehind',
         \A c \in Conns : guarded'[c] \subseteq guarded[c],
         \A r \in Rules : appending(r)' \subseteq appending(r)
  PROVE  Inv'
<1>1. CopiesAreOwned' /\ RstStays'
  BY RulesUntouched
<1>2. CopiesFit'
  <2>1. \A r \in Rules : rules'[r] <= rules[r]
    BY SMTT(60) DEF Inv, TypeOK
  <2> QED
    BY <2>1, FewerFit DEF Inv, TypeOK
<1> QED
  BY <1>1, <1>2 DEF Inv

LEMMA OpenKeeps ==
  ASSUME Inv, NEW c \in Conns, Open(c) \/ OpenFails(c)
  PROVE  Inv'
<1>1. UNCHANGED <<ruleVars, listVars, handle, heard, lied>>
  BY DEF Open, OpenFails, flowVars
<1>2. TypeOK'
  BY ZenonT(60), <1>1 DEF Inv, TypeOK, Open, OpenFails, flowVars, ruleVars, listVars, Kinds
<1>3. HandleKnown'
  BY <1>1 DEF Inv, TypeOK, HandleKnown, Open, OpenFails, flowVars, Dialling
<1>4. OwnsBehind'
  BY <1>1 DEF Inv, TypeOK, OwnsBehind, Open, OpenFails, ruleVars
<1>5. \A r \in Rules : appending(r)' \subseteq appending(r)
  BY DEF Inv, TypeOK, appending, Open, OpenFails
<1> QED
  BY <1>1, <1>2, <1>3, <1>4, <1>5, MoveKeeps DEF ruleVars

(* On to the next rule: what the kinds before it leave in owns.            *)
LEMMA NextRuleFacts ==
  ASSUME Inv, NEW c \in Conns, stage[c] \in {"check", "append"}, nextRule(c)
  PROVE  /\ stage' \in [Conns -> {"no", "leaked", "check", "append", "list", "open", "rules", "closed"}]
         /\ at' \in [Conns -> Kinds]
         /\ \A d \in Conns : stage[d] \in Dialling => stage'[d] \in Dialling
         /\ \A d \in Conns \ {c} : stage'[d] = stage[d] /\ at'[d] = at[d]
         /\ stage'[c] \in {"check", "list"}
         /\ stage'[c] = "check" => at'[c] # "ttl" /\ at[c] # "hl"
         /\ \A r \in Rules : appending(r)' = appending(r) \ {c}
<1>1. /\ stage' = [stage EXCEPT ![c] = IF at[c] = "hl" THEN "list" ELSE "check"]
      /\ at' = [at EXCEPT ![c] = IF @ = "ttl" THEN "rst" ELSE "hl"]
  BY DEF nextRule
<1>2. stage'[c] \in {"check", "list"} /\ (stage'[c] = "check" => at'[c] # "ttl" /\ at[c] # "hl")
  BY <1>1 DEF Inv, TypeOK
<1>3. \A d \in Conns \ {c} : stage'[d] = stage[d] /\ at'[d] = at[d]
  BY <1>1 DEF Inv, TypeOK
<1>4. \A r \in Rules : appending(r)' = appending(r) \ {c}
  BY SMTT(60), <1>2, <1>3 DEF appending
<1> QED
  BY <1>1, <1>2, <1>3, <1>4 DEF Inv, TypeOK, Kinds, Dialling

LEMMA SkipRuleKeeps ==
  ASSUME Inv, NEW c \in Conns, SkipRule(c)
  PROVE  Inv'
<1>1. stage[c] \in {"check", "append"} /\ nextRule(c)
  BY DEF SkipRule
<1>2. UNCHANGED <<ruleVars, listVars, capt, flowVars>>
  BY SMTT(60) DEF SkipRule
<1>3. TypeOK'
  BY SMTT(60), <1>1, <1>2, NextRuleFacts DEF Inv, TypeOK, ruleVars, listVars, flowVars
<1>4. HandleKnown'
  BY SMTT(60), <1>1, <1>2, NextRuleFacts DEF Inv, HandleKnown, flowVars
<1>5. OwnsBehind'
  BY SMTT(60), <1>1, <1>2, NextRuleFacts DEF Inv, OwnsBehind, ruleVars
<1>6. \A r \in Rules : appending(r)' \subseteq appending(r)
  BY <1>1, NextRuleFacts
<1> QED
  BY SMTT(60), <1>2, <1>3, <1>4, <1>5, <1>6, MoveKeeps DEF ruleVars

(* Entering "append" takes a rule without a copy.                          *)
LEMMA RuleMissingKeeps ==
  ASSUME Inv, NEW c \in Conns, RuleMissing(c)
  PROVE  Inv'
<1>1. UNCHANGED <<at, ruleVars, listVars, capt, flowVars>> /\ stage' = [stage EXCEPT ![c] = "append"]
  BY DEF RuleMissing
<1>2. stage[c] = "check" /\ rules[RuleOf(c, at[c])] = 0
  BY DEF RuleMissing
<1>3. TypeOK'
  BY <1>1 DEF Inv, TypeOK, ruleVars, listVars, flowVars
<1>4. HandleKnown' /\ OwnsBehind'
  BY <1>1, <1>2 DEF Inv, TypeOK, HandleKnown, OwnsBehind, ruleVars, flowVars, Dialling
<1>5. CopiesAreOwned' /\ RstStays'
  BY <1>1, RulesUntouched DEF ruleVars
<1>6. CopiesFit'
  <2> SUFFICES ASSUME NEW r \in Rules
               PROVE  rules[r] + Cardinality(appending(r)') <= Cardinality(Wanting(r))
    BY SMTT(60), <1>1 DEF CopiesFit, Wanting, ruleVars
  <2>1. CASE r = RuleOf(c, at[c])
    <3>1. appending(r)' \subseteq Wanting(r) /\ Wanting(r) \in SUBSET Conns
      BY <1>3 DEF TypeOK, appending, Wanting
    <3>2. /\ Cardinality(appending(r)') <= Cardinality(Wanting(r))
          /\ Cardinality(appending(r)') \in Nat
      BY <3>1, Finite, FS_Subset
    <3> QED
      BY <2>1, <1>2, <3>2
  <2>2. CASE r # RuleOf(c, at[c])
    <3>1. appending(r)' = appending(r)
      BY <2>2, <1>1, <1>2 DEF Inv, TypeOK, appending
    <3> QED
      BY <3>1 DEF Inv, CopiesFit
  <2> QED
    BY <2>1, <2>2
<1> QED
  BY <1>3, <1>4, <1>5, <1>6 DEF Inv

LEMMA RuleExistsKeeps ==
  ASSUME Inv, NEW c \in Conns, RuleExists(c)
  PROVE  Inv'
<1>1. stage[c] = "check" /\ nextRule(c) /\ rules[RuleOf(c, at[c])] > 0
  BY DEF RuleExists
<1>2. UNCHANGED <<rules, owns, left, listVars, capt, flowVars>>
  BY DEF RuleExists
<1>3. guarded' = [guarded EXCEPT ![c] = @ \cup ({at[c]} \ {"hl"})]
  BY SMTT(60) DEF RuleExists
<1>4. TypeOK'
  <2>1. guarded' \in [Conns -> SUBSET {"ttl", "rst"}]
    BY SMTT(60), <1>3 DEF Inv, TypeOK, Kinds
  <2> QED
    BY SMTT(60), <2>1, <1>1, <1>2, NextRuleFacts DEF Inv, TypeOK, listVars, flowVars
<1>5. HandleKnown'
  BY ZenonT(60), <1>1, <1>2, NextRuleFacts DEF Inv, HandleKnown, flowVars
<1>6. OwnsBehind'
  BY ZenonT(60), <1>1, <1>2, NextRuleFacts DEF Inv, OwnsBehind
<1>7. CopiesAreOwned'
  BY ZenonT(60), <1>2 DEF Inv, CopiesAreOwned, owners
<1>8. RstStays'
  BY <1>1, <1>2, <1>3 DEF Inv, TypeOK, RstStays
<1>9. CopiesFit'
  <2>1. \A r \in Rules : rules'[r] <= rules[r] /\ appending(r)' \subseteq appending(r)
    BY <1>1, <1>2, NextRuleFacts DEF Inv, TypeOK
  <2> QED
    BY <2>1, <1>4, FewerFit DEF Inv, TypeOK
<1> QED
  BY <1>4, <1>5, <1>6, <1>7, <1>8, <1>9 DEF Inv

(* The appender becomes a copy, and the owner of it unless it is an RST    *)
(* rule.                                                                   *)
LEMMA AppendRuleKeeps ==
  ASSUME Inv, NEW c \in Conns, AppendRule(c)
  PROVE  Inv'
<1> DEFINE mine == RuleOf(c, at[c])
<1>1. stage[c] = "append" /\ nextRule(c)
  BY SMTT(60) DEF AppendRule
<1>2. UNCHANGED <<left, listVars, capt, flowVars>>
  BY SMTT(60) DEF AppendRule
<1>3. /\ rules' = [rules EXCEPT ![mine] = @ + 1]
      /\ owns' = [owns EXCEPT ![c] = @ \cup ({at[c]} \ {"rst"})]
      /\ guarded' = [guarded EXCEPT ![c] = @ \cup ({at[c]} \ {"hl"})]
  BY DEF AppendRule
<1>4. at[c] \in Kinds /\ mine \in Rules /\ mine[1] = at[c]
  BY SMTT(60), RuleKind DEF Inv, TypeOK
<1>5. TypeOK'
  <2>1. /\ guarded' \in [Conns -> SUBSET {"ttl", "rst"}]
        /\ owns' \in [Conns -> SUBSET {"ttl", "hl"}]
        /\ rules' \in [Rules -> Nat]
    BY SMTT(60), <1>3, <1>4 DEF Inv, TypeOK, Kinds
  <2> QED
    BY SMTT(60), <2>1, <1>1, <1>2, NextRuleFacts DEF Inv, TypeOK, listVars, flowVars
<1>6. HandleKnown'
  BY SMTT(60), <1>1, <1>2, NextRuleFacts DEF Inv, HandleKnown, flowVars
<1>7. OwnsBehind'
  <2>1. \A d \in Conns \ {c} : owns'[d] = owns[d]
    BY SMTT(60), <1>3 DEF Inv, TypeOK
  <2>2. stage'[c] = "check" => owns'[c] \subseteq {"ttl"} /\ at'[c] # "ttl"
    BY SMTT(60), <1>1, <1>3, <1>4, NextRuleFacts DEF Inv, TypeOK, OwnsBehind, Kinds
  <2> QED
    BY <2>1, <2>2, <1>1, NextRuleFacts DEF Inv, OwnsBehind
<1>8. RstStays'
  BY SMTT(60), <1>3, <1>4 DEF Inv, TypeOK, RstStays, Rules, Kinds
<1>9. CopiesFit'
  <2> SUFFICES ASSUME NEW r \in Rules
               PROVE  rules'[r] + Cardinality(appending(r)') <= Cardinality(Wanting(r))
    BY SMTT(60) DEF CopiesFit, Wanting
  <2>1. appending(r)' = appending(r) \ {c} /\ appending(r) \in SUBSET Conns
    BY <1>1, NextRuleFacts DEF appending
  <2>2. /\ Cardinality(appending(r)') = IF c \in appending(r) THEN Cardinality(appending(r)) - 1
                                        ELSE Cardinality(appending(r))
        /\ Cardinality(appending(r)) \in Nat
    BY SMTT(60), <2>1, Finite, FS_RemoveElement
  <2>3. c \in appending(r) <=> r = mine
    BY SMTT(60), <1>1 DEF appending
  <2>4. rules'[r] = IF r = mine THEN rules[r] + 1 ELSE rules[r]
    BY <1>3 DEF Inv, TypeOK
  <2>5. rules[r] \in Nat /\ rules[r] + Cardinality(appending(r)) <= Cardinality(Wanting(r))
    BY DEF Inv, TypeOK, CopiesFit
  <2>6. Cardinality(Wanting(r)) \in Nat
    BY Finite DEF Wanting
  <2> QED
    BY <2>2, <2>3, <2>4, <2>5, <2>6
<1>10. CopiesAreOwned'
  <2> SUFFICES ASSUME NEW r \in Deletable
               PROVE  rules'[r] = Cardinality(owners(r)') + left[r]
    BY <1>2 DEF CopiesAreOwned, Deletable
  <2>1. rules[r] = Cardinality(owners(r)) + left[r] /\ r \in Rules /\ r[1] # "rst"
    BY SMTT(60) DEF Inv, CopiesAreOwned, Deletable
  <2>2. rules[r] \in Nat /\ left[r] \in Nat
    BY SMTT(60), <2>1 DEF Inv, TypeOK
  <2>3. owners(r) \in SUBSET Conns
    BY SMTT(60) DEF owners
  <2>4. CASE r = mine
    <3>1. at[c] \in {"ttl", "hl"}
      BY SMTT(60), <2>1, <2>4, <1>4 DEF Kinds
    <3>2. c \notin owners(r)
      BY SMTT(60), <2>4, <3>1, <1>1, RuleKind DEF Inv, TypeOK, OwnsBehind, owners, Kinds
    <3>3. owners(r)' = owners(r) \cup {c}
      BY <2>4, <3>1, <1>3 DEF Inv, TypeOK, owners
    <3>4. Cardinality(owners(r)') = Cardinality(owners(r)) + 1 /\ Cardinality(owners(r)) \in Nat
      BY SMTT(60), <2>3, <3>2, <3>3, Finite, FS_AddElement
    <3> QED
      BY SMTT(60), <2>1, <2>2, <2>4, <3>4, <1>3 DEF Inv, TypeOK
  <2>5. CASE r # mine
    <3>1. owners(r)' = owners(r)
      BY SMTT(60), <2>5, <1>3 DEF Inv, TypeOK, owners
    <3> QED
      BY SMTT(60), <2>1, <2>5, <3>1, <1>3 DEF Inv, TypeOK
  <2> QED
    BY <2>4, <2>5
<1> QED
  BY SMTT(60), <1>5, <1>6, <1>7, <1>8, <1>9, <1>10 DEF Inv

-----------------------------------------------------------------------------
(* Register and Close                                                      *)
LEMMA RegisterKeeps ==
  ASSUME Inv, NEW c \in Conns, Register(c)
  PROVE  Inv'
<1>1. UNCHANGED <<at, ruleVars, capt, flowVars>> /\ stage' = [stage EXCEPT ![c] = "open"]
  BY SMTT(60) DEF Register
<1>2. TypeOK'
  BY SMTT(60), <1>1 DEF Inv, TypeOK, Register, ruleVars, flowVars
<1>3. HandleKnown' /\ OwnsBehind'
  BY SMTT(60), <1>1 DEF Inv, TypeOK, HandleKnown, OwnsBehind, ruleVars, flowVars, Dialling
<1>4. \A r \in Rules : appending(r)' \subseteq appending(r)
  BY SMTT(60), <1>1 DEF Inv, TypeOK, appending
<1> QED
  BY <1>1, <1>2, <1>3, <1>4, MoveKeeps DEF ruleVars

LEMMA CloseKeeps ==
  ASSUME Inv, NEW c \in Conns, Close(c)
  PROVE  Inv'
<1>1. /\ UNCHANGED <<at, rules, owns, left, listVars, capt>>
      /\ stage' = [stage EXCEPT ![c] = "rules"]
      /\ guarded' = [guarded EXCEPT ![c] = {}]
  BY DEF Close
<1>2. /\ flow' = [flow EXCEPT ![c] = "none"] /\ handle' = [handle EXCEPT ![c] = FALSE]
      /\ heard' = [heard EXCEPT ![c] = FALSE] /\ lied' = [lied EXCEPT ![c] = FALSE]
  BY SMTT(60) DEF Close, dropFlow
<1>3. TypeOK'
  BY SMTT(60), <1>1, <1>2 DEF Inv, TypeOK, listVars
<1>4. HandleKnown'
  BY SMTT(60), <1>1, <1>2 DEF Inv, TypeOK, HandleKnown
<1>5. OwnsBehind'
  BY <1>1 DEF Inv, TypeOK, OwnsBehind
<1>6. \A r \in Rules : appending(r)' \subseteq appending(r)
  BY <1>1 DEF Inv, TypeOK, appending
<1>7. \A d \in Conns : guarded'[d] \subseteq guarded[d]
  BY SMTT(60), <1>1 DEF Inv, TypeOK
<1> QED
  BY SMTT(60), <1>1, <1>3, <1>4, <1>5, <1>6, <1>7, MoveKeeps

LEMMA UnlistKeeps ==
  ASSUME Inv, NEW c \in Conns, Unlist(c)
  PROVE  Inv'
<1>1. /\ UNCHANGED <<at, ruleVars, capt, flowVars>>
      /\ stage[c] = "rules" /\ owns[c] = {}
      /\ stage' = [stage EXCEPT ![c] = "closed"]
  BY SMTT(60) DEF Unlist
<1>2. TypeOK'
  BY SMTT(60), <1>1 DEF Inv, TypeOK, Unlist, ruleVars, flowVars
<1>3. HandleKnown' /\ OwnsBehind'
  BY SMTT(60), <1>1 DEF Inv, TypeOK, HandleKnown, OwnsBehind, ruleVars, flowVars, Dialling
<1>4. \A r \in Rules : appending(r)' \subseteq appending(r)
  BY SMTT(60), <1>1 DEF Inv, TypeOK, appending
<1> QED
  BY SMTT(60), <1>1, <1>2, <1>3, <1>4, MoveKeeps DEF ruleVars

(* A copy goes with its owner, or stays without one.                       *)
LEMMA DeleteRuleKeeps ==
  ASSUME Inv, NEW c \in Conns, DeleteRule(c)
  PROVE  Inv'
<1> DEFINE k == IF "ttl" \in owns[c] THEN "ttl" ELSE "hl"
           mine == RuleOf(c, k)
<1>1. /\ k \in {"ttl", "hl"} /\ k \in owns[c]
      /\ owns' = [owns EXCEPT ![c] = @ \ {k}]
      /\ \/ rules[mine] > 0 /\ rules' = [rules EXCEPT ![mine] = @ - 1] /\ UNCHANGED left
         \/ left' = [left EXCEPT ![mine] = @ + 1] /\ UNCHANGED rules
  BY SMTT(60) DEF DeleteRule, Inv, TypeOK
<1> HIDE DEF k
<1>2. stage[c] = "rules" /\ UNCHANGED <<stageVars, guarded, listVars, capt, flowVars>>
  BY ZenonT(60) DEF DeleteRule
<1>3. mine \in Deletable /\ mine \in Rules /\ mine[1] = k
  BY SMTT(60), <1>1, RuleDeletable, RuleKind DEF Kinds
<1>4. TypeOK'
  <2>1. owns' \in [Conns -> SUBSET {"ttl", "hl"}]
    BY SMTT(60), <1>1 DEF Inv, TypeOK
  <2>2. rules' \in [Rules -> Nat] /\ left' \in [Deletable -> Nat]
    BY SMTT(60), <1>1, <1>3 DEF Inv, TypeOK
  <2> QED
    BY SMTT(60), <2>1, <2>2, <1>2 DEF Inv, TypeOK, stageVars, listVars, flowVars
<1>5. HandleKnown'
  BY SMTT(60), <1>2 DEF Inv, HandleKnown, stageVars, flowVars
<1>6. OwnsBehind'
  BY SMTT(60), <1>1, <1>2 DEF Inv, TypeOK, OwnsBehind, stageVars
<1>7. RstStays'
  <2> SUFFICES ASSUME NEW d \in Conns, "rst" \in guarded[d]
               PROVE  rules'[RuleOf(d, "rst")] > 0
    BY SMTT(60), <1>2 DEF RstStays, RuleOf
  <2>1. RuleOf(d, "rst") \in Rules /\ RuleOf(d, "rst") # mine
    BY SMTT(60), <1>1, <1>3, RuleKind DEF Kinds
  <2>2. rules[RuleOf(d, "rst")] > 0
    BY SMTT(60) DEF Inv, RstStays
  <2> QED
    BY SMTT(60), <1>1, <2>1, <2>2 DEF Inv, TypeOK
<1>8. CopiesFit'
  <2>1. \A r \in Rules : appending(r)' \subseteq appending(r)
    BY SMTT(60), <1>2 DEF appending, stageVars
  <2>2. \A r \in Rules : rules'[r] <= rules[r]
    BY SMTT(60), <1>1, <1>3 DEF Inv, TypeOK
  <2> QED
    BY SMTT(60), <2>1, <2>2, <1>4, FewerFit DEF Inv, TypeOK
<1>9. CopiesAreOwned'
  <2> SUFFICES ASSUME NEW r \in Deletable
               PROVE  rules'[r] = Cardinality(owners(r)') + left'[r]
    BY DEF CopiesAreOwned, Deletable
  <2>1. rules[r] = Cardinality(owners(r)) + left[r] /\ r \in Rules
    BY SMTT(60) DEF Inv, CopiesAreOwned, Deletable
  <2>2. rules[r] \in Nat /\ left[r] \in Nat
    BY SMTT(60), <2>1 DEF Inv, TypeOK
  <2>3. owners(r) \in SUBSET Conns
    BY DEF owners
  <2>4. CASE r = mine
    <3>1. c \in owners(r)
      BY SMTT(60), <2>4, <1>1 DEF owners
    <3>2. owners(r)' = owners(r) \ {c}
      <4>1. \A j \in owns'[c] : RuleOf(c, j) # r
        BY SMTT(60), <2>4, <1>1, <1>3, RuleKind DEF Inv, TypeOK, Kinds
      <4>2. \A d \in Conns \ {c} : owns'[d] = owns[d]
        BY <1>1 DEF Inv, TypeOK
      <4> QED
        BY SMTT(60), <4>1, <4>2 DEF owners
    <3>3. Cardinality(owners(r)') = Cardinality(owners(r)) - 1 /\ Cardinality(owners(r)) \in Nat
      BY SMTT(60), <2>3, <3>1, <3>2, Finite, FS_RemoveElement
    <3> QED
      BY SMTT(60), <2>1, <2>2, <2>4, <3>3, <1>1 DEF Inv, TypeOK
  <2>5. CASE r # mine
    <3>1. owners(r)' = owners(r)
      BY <2>5, <1>1 DEF Inv, TypeOK, owners
    <3> QED
      BY SMTT(60), <2>1, <2>5, <3>1, <1>1 DEF Inv, TypeOK
  <2> QED
    BY <2>4, <2>5
<1> QED
  BY <1>4, <1>5, <1>6, <1>7, <1>8, <1>9 DEF Inv

-----------------------------------------------------------------------------
(* The invariant holds in every reachable state: one step per action.      *)
THEOREM Invariance == Spec => []Inv
<1>1. Init => Inv
  BY InitInv
<1>2. Inv /\ [Next]_vars => Inv'
  <2> SUFFICES ASSUME Inv, [Next]_vars PROVE Inv'
    OBVIOUS
  <2>1. ASSUME NEW c \in Conns, ConnStep(c) PROVE Inv'
    <3>1. CASE Open(c) \/ OpenFails(c)
      BY <3>1, OpenKeeps
    <3>2. CASE SkipRule(c) \/ RuleExists(c) \/ RuleMissing(c) \/ AppendRule(c)
      BY SMTT(60), <3>2, SkipRuleKeeps, RuleExistsKeeps, RuleMissingKeeps, AppendRuleKeeps
    <3>3. CASE DialPanics(c) \/ RstPanic(c) \/ CapturePanics(c)
      BY <3>3, PanicKeeps DEF DialPanics, RstPanic, CapturePanics
    <3>4. CASE Register(c) \/ Close(c) \/ DeleteRule(c) \/ Unlist(c)
      BY <3>4, RegisterKeeps, CloseKeeps, DeleteRuleKeeps, UnlistKeeps
    <3>5. CASE CaptureEnds(c) \/ Capture(c) \/ CleanerExpires(c) \/ Write(c)
      BY <3>5, CaptureEndsKeeps, FlowStepKeeps
    <3> QED
      BY SMTT(60), <2>1, <3>1, <3>2, <3>3, <3>4, <3>5 DEF ConnStep
  <2>2. CASE ResetLock \/ ResetUnlock \/ ResetReturns
    BY <2>2, ResetStepKeeps
  <2>3. CASE UNCHANGED vars
    <3>1. TypeOK' /\ HandleKnown'
      BY <2>3 DEF Inv, TypeOK, HandleKnown, vars, stageVars, ruleVars, listVars, flowVars
    <3> QED
      BY SMTT(60), <2>3, <3>1, QuietKeeps DEF vars
  <2> QED
    BY <2>1, <2>2, <2>3 DEF Next
<1> QED
  BY <1>1, <1>2, PTL DEF Spec

(* Types: in particular the RST rule is never recorded for deletion.       *)
THEOREM TypeCorrect == Spec => []TypeOK
<1>1. Inv => TypeOK
  BY DEF Inv
<1> QED
  BY <1>1, Invariance, PTL

(* No connection ever deletes the copy of another one.                     *)
THEOREM OwnersMatchCopies == Spec => []CopiesAreOwned
<1>1. Inv => CopiesAreOwned
  BY DEF Inv
<1> QED
  BY <1>1, Invariance, PTL

(* However many connections are dialled, closed and lost in panics, a rule *)
(* has at most as many copies as there are connections that want it.       *)
THEOREM BoundedCopies == Spec => []RulesDoNotPileUp
<1>1. Inv => RulesDoNotPileUp
  <2> SUFFICES ASSUME Inv, NEW r \in Rules
               PROVE  rules[r] <= Cardinality(Wanting(r))
    BY SMTT(60) DEF RulesDoNotPileUp
  <2>1. rules[r] \in Nat /\ rules[r] + Cardinality(appending(r)) <= Cardinality(Wanting(r))
    BY SMTT(60) DEF Inv, TypeOK, CopiesFit
  <2>2. Cardinality(appending(r)) \in Nat /\ Cardinality(Wanting(r)) \in Nat
    BY Finite DEF appending, Wanting
  <2> QED
    BY <2>1, <2>2
<1> QED
  BY <1>1, Invariance, PTL

(* An open connection keeps the RST rule that it has found or added.       *)
THEOREM RstRuleStays == Spec => []ResetsStayDropped
<1>1. Inv => ResetsStayDropped
  BY DEF Inv, RstStays, ResetsStayDropped
<1> QED
  BY <1>1, Invariance, PTL

(* A Write that reports data it has not sent comes before the first packet *)
(* of the peer, whatever the cleaner has removed since.                    *)
THEOREM NoLossAfterFirstPacket == Spec => LossOnlyBeforeFirstPacket
<1>1. Inv /\ [Next]_vars => [\A c \in Clients : lied'[c] /\ ~lied[c] => ~heard[c]]_vars
  <2> SUFFICES ASSUME Inv, Next, NEW c \in Clients, lied'[c], ~lied[c]
               PROVE  ~heard[c]
    OBVIOUS
  <2>1. c \in Conns
    BY SMTT(60) DEF Conns
  <2>2. CASE Write(c)
    BY SMTT(60), <2>1, <2>2 DEF Inv, TypeOK, HandleKnown, Write
  <2>3. ASSUME NEW d \in Conns, ConnStep(d), ~(d = c /\ Write(c)) PROVE FALSE
    <3>1. CASE Write(d)
      BY ZenonT(60), <3>1, <2>1, <2>3 DEF Inv, TypeOK, Write
    <3>2. CASE Close(d)
      BY <3>2, <2>1 DEF Inv, TypeOK, Close, dropFlow
    <3>3. CASE DialPanics(d) \/ RstPanic(d) \/ CapturePanics(d)
      BY Zenon, <3>3, <2>1 DEF DialPanics, RstPanic, CapturePanics, Panic
    <3>4. CASE UNCHANGED lied
      BY SMTT(60), <3>4
    <3> QED
      BY ZenonT(60), <2>3, <3>1, <3>2, <3>3, <3>4 DEF ConnStep, Open, OpenFails, SkipRule, RuleExists, RuleMissing,
         AppendRule, Register, DeleteRule, Unlist, CaptureEnds, Capture, CleanerExpires, flowVars
  <2>4. CASE ResetLock \/ ResetUnlock \/ ResetReturns
    BY Zenon, <2>4 DEF ResetLock, ResetUnlock, ResetReturns, flowVars
  <2> QED
    BY SMTT(60), <2>2, <2>3, <2>4 DEF Next
<1> QED
  BY <1>1, Invariance, PTL DEF Spec, LossOnlyBeforeFirstPacket

(* What a firewall looks like to the next process: once no connection is   *)
(* open, being dialled or being closed, the only copies of TTL and         *)
(* hop-limit rules there are those that a panic or a failed Delete has     *)
(* left.                                                                   *)
NothingElseStays ==
  (\A c \in Conns : stage[c] \in {"no", "leaked", "closed"})
    => \A r \in Deletable : rules[r] = left[r]

THEOREM CloseCleansUp == Spec => []NothingElseStays
<1>1. Inv => NothingElseStays
  <2> SUFFICES ASSUME Inv, \A c \in Conns : stage[c] \in {"no", "leaked", "closed"},
                      NEW r \in Deletable
               PROVE  rules[r] = left[r]
    BY Zenon DEF NothingElseStays
  <2>1. owners(r) = {}
    BY Zenon DEF Inv, OwnsBehind, owners
  <2>2. Cardinality(owners(r)) = 0
    BY <2>1, FS_EmptySet
  <2>3. rules[r] = Cardinality(owners(r)) + left[r] /\ left[r] \in Nat
    BY Zenon DEF Inv, CopiesAreOwned, TypeOK
  <2> QED BY <2>2, <2>3
<1> QED BY <1>1, Invariance, PTL

-----------------------------------------------------------------------------
(* IPTablesReset and the list                                              *)

listed(c) == stage[c] \in {"open", "rules"}

(* The list has the connections from the end of Dial or Listen to the last *)
(* step of Close; the reset waits for listed ones, and has the lock only   *)
(* while it reads the list.                                                *)
ListFits ==
  /\ \A c \in Conns : c \in connList <=> listed(c)
  /\ targets \subseteq connList
  /\ mu = "reset" <=> reset = "locked"
  /\ reset = "idle" => targets = {}

(* A step that moves c from one stage to another and leaves the list.      *)
LEMMA StageMoves ==
  ASSUME TypeOK, ListFits, UNCHANGED listVars, NEW c \in Conns, NEW v,
         stage' = [stage EXCEPT ![c] = v],
         v \in {"open", "rules"} <=> listed(c)
  PROVE  ListFits'
<1>1. \A d \in Conns : listed(d)' <=> listed(d)
  BY Zenon DEF TypeOK, listed
<1> QED BY <1>1, Zenon DEF ListFits, listVars

LEMMA StageStays ==
  ASSUME ListFits, UNCHANGED listVars, UNCHANGED stage
  PROVE  ListFits'
<1> QED BY Zenon DEF ListFits, listVars, listed

LEMMA PanicEmptiesList == Panic => ListFits'
<1> SUFFICES ASSUME Panic PROVE ListFits'
  BY Zenon
<1>1. \A c \in Conns : ~listed(c)'
  BY Zenon DEF Panic, listed
<1> QED BY <1>1 DEF Panic, ListFits

LEMMA ListStep ==
  ASSUME TypeOK, ListFits, [Next]_vars
  PROVE  ListFits'
<1>1. ASSUME NEW c \in Conns, Open(c) \/ OpenFails(c) PROVE ListFits'
  <2>1. PICK v \in {"check", "leaked"} : stage' = [stage EXCEPT ![c] = v] /\ UNCHANGED listVars
    BY <1>1, Zenon DEF Open, OpenFails
  <2>2. v \in {"open", "rules"} <=> listed(c)
    BY <1>1 DEF Open, OpenFails, listed
  <2> QED BY <2>1, <2>2, StageMoves, Zenon
<1>2. ASSUME NEW c \in Conns, SkipRule(c) \/ RuleExists(c) \/ RuleMissing(c) \/ AppendRule(c)
      PROVE  ListFits'
  <2>1. PICK v \in {"check", "append", "list"} :
          stage' = [stage EXCEPT ![c] = v] /\ UNCHANGED listVars
    BY <1>2, Zenon DEF SkipRule, RuleExists, RuleMissing, AppendRule, nextRule
  <2>2. v \in {"open", "rules"} <=> listed(c)
    BY <1>2 DEF SkipRule, RuleExists, RuleMissing, AppendRule, listed
  <2> QED BY <2>1, <2>2, StageMoves, Zenon
<1>3. ASSUME NEW c \in Conns, Close(c) PROVE ListFits'
  <2>1. stage' = [stage EXCEPT ![c] = "rules"] /\ UNCHANGED listVars /\ listed(c)
    BY <1>3, Zenon DEF Close, listed
  <2>2. "rules" \in {"open", "rules"}
    OBVIOUS
  <2> QED BY <2>1, <2>2, StageMoves, Zenon
<1>4. ASSUME NEW c \in Conns,
             DialPanics(c) \/ RstPanic(c) \/ CapturePanics(c)
      PROVE  ListFits'
  BY <1>4, PanicEmptiesList, Zenon DEF DialPanics, RstPanic, CapturePanics
<1>5. ASSUME NEW c \in Conns, Register(c) PROVE ListFits'
  <2>1. /\ stage' = [stage EXCEPT ![c] = "open"] /\ connList' = connList \cup {c}
        /\ UNCHANGED <<mu, reset, targets>>
    BY <1>5, Zenon DEF Register
  <2>2. listed(c)' /\ \A d \in Conns \ {c} : listed(d)' <=> listed(d)
    BY <2>1 DEF TypeOK, listed
  <2> QED BY <2>1, <2>2, Zenon DEF ListFits
<1>6. ASSUME NEW c \in Conns, Unlist(c) PROVE ListFits'
  <2>1. /\ stage' = [stage EXCEPT ![c] = "closed"] /\ connList' = connList \ {c}
        /\ targets' = targets \ {c} /\ UNCHANGED <<mu, reset>>
    BY <1>6, Zenon DEF Unlist
  <2>2. ~listed(c)' /\ \A d \in Conns \ {c} : listed(d)' <=> listed(d)
    BY <2>1 DEF TypeOK, listed
  <2> QED BY <2>1, <2>2, Zenon DEF ListFits
<1>7. ASSUME NEW c \in Conns,
             DeleteRule(c) \/ CaptureEnds(c) \/ Capture(c) \/ CleanerExpires(c) \/ Write(c)
      PROVE  ListFits'
  BY <1>7, StageStays, Zenon
     DEF DeleteRule, CaptureEnds, Capture, CleanerExpires, Write, stageVars
<1>8. CASE ResetLock \/ ResetUnlock \/ ResetReturns
  BY <1>8 DEF ResetLock, ResetUnlock, ResetReturns, ListFits, listed, stageVars
<1>9. CASE UNCHANGED vars
  BY <1>9, StageStays, Zenon DEF vars, stageVars
<1> QED BY <1>1, <1>2, <1>3, <1>4, <1>5, <1>6, <1>7, <1>8, <1>9, Zenon DEF Next, ConnStep

LEMMA ListInvariance == Spec => [](TypeOK /\ ListFits)
<1>1. Init => ListFits
  BY DEF Init, ListFits, listed
<1>2. TypeOK /\ ListFits /\ [Next]_vars => ListFits'
  BY ListStep, Zenon
<1> QED BY <1>1, <1>2, TypeCorrect, PTL DEF Spec

(* Nobody waits for everybody: while IPTablesReset waits, connListMu is    *)
(* free, and each connection it waits for is open, so that its Close can   *)
(* begin, or in Close, where only connListMu could hold it up; it never    *)
(* waits for a connection that has left the list or is not on it yet.      *)
(* What ResetCompletes needs besides that is that those steps are taken.   *)
ResetIsNotBlocked ==
  reset = "wait" => mu = "free" /\ \A c \in targets : stage[c] \in {"open", "rules"}

THEOREM ResetCanGoOn == Spec => []ResetIsNotBlocked
<1>1. TypeOK /\ ListFits => ResetIsNotBlocked
  <2> SUFFICES ASSUME TypeOK, ListFits, reset = "wait" PROVE ResetIsNotBlocked
    BY Zenon DEF ResetIsNotBlocked
  <2>1. mu = "free"
    BY DEF TypeOK, ListFits
  <2>2. \A c \in targets : stage[c] \in {"open", "rules"}
    BY Zenon DEF TypeOK, ListFits, listed
  <2> QED BY <2>1, <2>2, Zenon DEF ResetIsNotBlocked
<1> QED BY <1>1, ListInvariance, PTL

-----------------------------------------------------------------------------
(* The socket filter, instruction by instruction                           *)

(* The machine between two instructions.                                   *)
Machine(pc, a, x, ret) == [pc |-> pc, a |-> a, x |-> x, ret |-> ret]

(* What the machine does with an instruction, by its operation.            *)
LEMMA Load ==
  ASSUME NEW p, NEW pc, NEW a, NEW x, NEW ret, NEW i, i.op \in {"ldb", "ldh"}
  PROVE  execute(p, Machine(pc, a, x, ret), i) = Machine(pc + 1, loadAt(p, i.k), x, ret)
BY DEF execute, Machine

LEMMA LoadIndex ==
  ASSUME NEW p, NEW pc, NEW a, NEW x, NEW ret, NEW i, i.op = "ldxb"
  PROVE  execute(p, Machine(pc, a, x, ret), i) = Machine(pc + 1, a, 4 * (loadAt(p, i.k) % 16), ret)
BY DEF execute, Machine

LEMMA LoadIndirect ==
  ASSUME NEW p, NEW pc, NEW a, NEW x, NEW ret, NEW i, i.op = "ldhx"
  PROVE  execute(p, Machine(pc, a, x, ret), i) = Machine(pc + 1, loadAt(p, x + i.k), x, ret)
BY DEF execute, Machine

LEMMA JumpEqual ==
  ASSUME NEW p, NEW pc, NEW a, NEW x, NEW ret, NEW i, i.op = "jeq"
  PROVE  execute(p, Machine(pc, a, x, ret), i) = Machine(pc + 1 + (IF a = i.k THEN i.jt ELSE i.jf), a, x, ret)
BY DEF execute, Machine

LEMMA JumpSet ==
  ASSUME NEW p, NEW pc, NEW a, NEW x, NEW ret, NEW i, i.op = "jset"
  PROVE  execute(p, Machine(pc, a, x, ret), i) = Machine(pc + 1 + (IF a % (i.k + 1) # 0 THEN i.jt ELSE i.jf), a, x, ret)
BY DEF execute, Machine

LEMMA Return ==
  ASSUME NEW p, NEW pc, NEW a, NEW x, NEW ret, NEW i, i.op = "ret"
  PROVE  execute(p, Machine(pc, a, x, ret), i) = Machine(0, a, x, i.k)
BY DEF execute, Machine

LEMMA ProgramText ==
  ASSUME NEW port
  PROVE  LET i == program(port) IN
         /\ i[1].op = "ldb" /\ i[1].k = 9
         /\ i[2].op = "jeq" /\ i[2].k = 6 /\ i[2].jt = 0 /\ i[2].jf = 6
         /\ i[3].op = "ldh" /\ i[3].k = 6
         /\ i[4].op = "jset" /\ i[4].k = 8191 /\ i[4].jt = 4 /\ i[4].jf = 0
         /\ i[5].op = "ldxb" /\ i[5].k = 0
         /\ i[6].op = "ldhx" /\ i[6].k = 2
         /\ i[7].op = "jeq" /\ i[7].k = port /\ i[7].jt = 0 /\ i[7].jf = 1
         /\ i[8].op = "ret" /\ i[8].k = 262144
         /\ i[9].op = "ret" /\ i[9].k = 0
BY DEF program

LEMMA Executed ==
  ASSUME NEW p, NEW port, NEW pc, NEW a, NEW x, NEW ret
  PROVE  step(p, port, Machine(pc, a, x, ret), pc) =
           execute(p, Machine(pc, a, x, ret), program(port)[pc])
BY DEF step, Machine

(* What each instruction of the program does.                              *)
LEMMA Instructions ==
  ASSUME NEW p, NEW port, NEW a, NEW x, NEW ret
  PROVE  /\ step(p, port, Machine(1, a, x, ret), 1) = Machine(2, loadAt(p, 9), x, ret)
         /\ step(p, port, Machine(2, a, x, ret), 2) = Machine(IF a = 6 THEN 3 ELSE 9, a, x, ret)
         /\ step(p, port, Machine(3, a, x, ret), 3) = Machine(4, loadAt(p, 6), x, ret)
         /\ step(p, port, Machine(4, a, x, ret), 4) = Machine(IF a % 8192 # 0 THEN 9 ELSE 5, a, x, ret)
         /\ step(p, port, Machine(5, a, x, ret), 5) = Machine(6, a, 4 * (loadAt(p, 0) % 16), ret)
         /\ step(p, port, Machine(6, a, x, ret), 6) = Machine(7, loadAt(p, x + 2), x, ret)
         /\ step(p, port, Machine(7, a, x, ret), 7) = Machine(IF a = port THEN 8 ELSE 9, a, x, ret)
         /\ step(p, port, Machine(8, a, x, ret), 8) = Machine(0, a, x, 262144)
         /\ step(p, port, Machine(9, a, x, ret), 9) = Machine(0, a, x, 0)
<1> DEFINE i(n) == program(port)[n]
<1>a. \A n : step(p, port, Machine(n, a, x, ret), n) = execute(p, Machine(n, a, x, ret), i(n))
  BY Executed
<1>b. /\ i(1).op = "ldb" /\ i(1).k = 9
      /\ i(2).op = "jeq" /\ i(2).k = 6 /\ i(2).jt = 0 /\ i(2).jf = 6
      /\ i(3).op = "ldh" /\ i(3).k = 6
      /\ i(4).op = "jset" /\ i(4).k = 8191 /\ i(4).jt = 4 /\ i(4).jf = 0
      /\ i(5).op = "ldxb" /\ i(5).k = 0
      /\ i(6).op = "ldhx" /\ i(6).k = 2
      /\ i(7).op = "jeq" /\ i(7).k = port /\ i(7).jt = 0 /\ i(7).jf = 1
      /\ i(8).op = "ret" /\ i(8).k = 262144
      /\ i(9).op = "ret" /\ i(9).k = 0
  BY ProgramText
<1> HIDE DEF i
<1>1. step(p, port, Machine(1, a, x, ret), 1) = Machine(2, loadAt(p, 9), x, ret)
  BY <1>a, <1>b, Load
<1>2. step(p, port, Machine(2, a, x, ret), 2) = Machine(IF a = 6 THEN 3 ELSE 9, a, x, ret)
  BY <1>a, <1>b, JumpEqual
<1>3. step(p, port, Machine(3, a, x, ret), 3) = Machine(4, loadAt(p, 6), x, ret)
  BY <1>a, <1>b, Load
<1>4. step(p, port, Machine(4, a, x, ret), 4) = Machine(IF a % 8192 # 0 THEN 9 ELSE 5, a, x, ret)
  BY <1>a, <1>b, JumpSet
<1>5. step(p, port, Machine(5, a, x, ret), 5) = Machine(6, a, 4 * (loadAt(p, 0) % 16), ret)
  BY <1>a, <1>b, LoadIndex
<1>6. step(p, port, Machine(6, a, x, ret), 6) = Machine(7, loadAt(p, x + 2), x, ret)
  BY <1>a, <1>b, LoadIndirect
<1>7. step(p, port, Machine(7, a, x, ret), 7) = Machine(IF a = port THEN 8 ELSE 9, a, x, ret)
  BY <1>a, <1>b, JumpEqual
<1>8. step(p, port, Machine(8, a, x, ret), 8) = Machine(0, a, x, 262144)
  BY <1>a, <1>b, Return
<1>9. step(p, port, Machine(9, a, x, ret), 9) = Machine(0, a, x, 0)
  BY <1>a, <1>b, Return
<1> QED BY <1>1, <1>2, <1>3, <1>4, <1>5, <1>6, <1>7, <1>8, <1>9

LEMMA Skipped ==
  ASSUME NEW p, NEW port, NEW pc, NEW a, NEW x, NEW ret, NEW n, pc # n
  PROVE  step(p, port, Machine(pc, a, x, ret), n) = Machine(pc, a, x, ret)
BY DEF step, Machine

(* The header has at least 20 bytes, so that the port is behind the fields *)
(* the program reads before it.                                            *)
LEMMA Loads ==
  ASSUME NEW p \in Header
  PROVE  /\ loadAt(p, 9) = p.protocol /\ loadAt(p, 6) = p.fragment
         /\ loadAt(p, 4 * (loadAt(p, 0) % 16) + 2) = p.port
<1>1. p.ihl \in 5 .. 15
  <2>1. p.ihl \in HeaderWords
    BY DEF Header
  <2> QED BY <2>1 DEF HeaderWords
<1>2. loadAt(p, 9) = p.protocol /\ loadAt(p, 6) = p.fragment /\ loadAt(p, 0) = 64 + p.ihl
  <2>1. 4 * p.ihl + 2 # 0 /\ 4 * p.ihl + 2 # 6 /\ 4 * p.ihl + 2 # 9
    BY <1>1
  <2> QED BY <2>1 DEF loadAt
<1>3. (64 + p.ihl) % 16 = p.ihl
  BY <1>1
<1>4. 4 * p.ihl + 2 # 0 /\ 4 * p.ihl + 2 # 6 /\ 4 * p.ihl + 2 # 9
  BY <1>1
<1>5. loadAt(p, 4 * p.ihl + 2) = p.port
  BY <1>4 DEF loadAt
<1> QED BY <1>2, <1>3, <1>5

(* The program on every IPv4 packet.                                       *)
LEMMA ProgramIsExact ==
  ASSUME NEW p \in Header, NEW port
  PROVE  accepts(p, port) <=> (p.protocol = 6 /\ p.fragment % 8192 = 0 /\ p.port = port)
<1> DEFINE x == 4 * (loadAt(p, 0) % 16)
           run(m, n) == step(p, port, m, n)
           m1 == run(Machine(1, 0, 0, 0), 1)
           m2 == run(m1, 2)
           m3 == run(m2, 3)
           m4 == run(m3, 4)
           m5 == run(m4, 5)
           m6 == run(m5, 6)
           m7 == run(m6, 7)
           m8 == run(m7, 8)
           m9 == run(m8, 9)
<1>1. accepts(p, port) <=> m9.ret > 0
  BY Zenon DEF accepts, Machine
<1>2. loadAt(p, 9) = p.protocol /\ loadAt(p, 6) = p.fragment /\ loadAt(p, x + 2) = p.port
  BY Loads
<1>3. \A a, b, n : n # 9 => run(Machine(9, a, b, 0), n) = Machine(9, a, b, 0)
  BY Skipped
<1>4. \A a, b : run(Machine(9, a, b, 0), 9) = Machine(0, a, b, 0)
  BY Instructions
<1>5. \A a, b : run(Machine(7, a, b, 0), 7) = Machine(IF a = port THEN 8 ELSE 9, a, b, 0)
  BY Instructions
<1>6. /\ m1 = Machine(2, p.protocol, 0, 0)
      /\ run(Machine(2, p.protocol, 0, 0), 2) = Machine(IF p.protocol = 6 THEN 3 ELSE 9, p.protocol, 0, 0)
      /\ run(Machine(3, p.protocol, 0, 0), 3) = Machine(4, p.fragment, 0, 0)
      /\ run(Machine(4, p.fragment, 0, 0), 4) =
           Machine(IF p.fragment % 8192 # 0 THEN 9 ELSE 5, p.fragment, 0, 0)
      /\ run(Machine(5, p.fragment, 0, 0), 5) = Machine(6, p.fragment, x, 0)
      /\ run(Machine(6, p.fragment, x, 0), 6) = Machine(7, p.port, x, 0)
      /\ run(Machine(8, p.port, x, 0), 8) = Machine(0, p.port, x, 262144)
  BY <1>2, Instructions
<1>7. run(Machine(0, p.port, x, 262144), 9) = Machine(0, p.port, x, 262144)
  BY Skipped
<1>8. \A a, b, r : Machine(0, a, b, r).ret = r
  BY DEF Machine
<1> HIDE DEF x, run
<1>9. CASE p.protocol # 6
  <2>1. m8 = Machine(9, p.protocol, 0, 0)
    BY <1>3, <1>6, <1>9
  <2> HIDE DEF m8
  <2>2. m9.ret = 0
    BY <1>4, <1>8, <2>1
  <2> QED BY <1>1, <1>9, <2>2
<1>10. CASE p.protocol = 6 /\ p.fragment % 8192 # 0
  <2>1. m4 = Machine(9, p.fragment, 0, 0)
    BY <1>6, <1>10
  <2> HIDE DEF m4
  <2>2. m8 = Machine(9, p.fragment, 0, 0)
    BY <1>3, <2>1
  <2> HIDE DEF m8
  <2>3. m9.ret = 0
    BY <1>4, <1>8, <2>2
  <2> QED BY <1>1, <1>10, <2>3
<1>11. CASE p.protocol = 6 /\ p.fragment % 8192 = 0
  <2>1. m4 = Machine(5, p.fragment, 0, 0)
    BY <1>6, <1>11
  <2> HIDE DEF m4
  <2>2. m6 = Machine(7, p.port, x, 0)
    BY <1>6, <2>1
  <2> HIDE DEF m6
  <2>3. CASE p.port = port
    <3>1. m9 = Machine(0, p.port, x, 262144)
      BY <1>5, <1>6, <1>7, <2>2, <2>3
    <3>2. m9.ret = 262144
      BY <1>8, <3>1
    <3> QED BY <1>1, <1>11, <2>3, <3>2
  <2>4. CASE p.port # port
    <3>1. m8 = Machine(9, p.port, x, 0)
      BY <1>3, <1>5, <2>2, <2>4
    <3> HIDE DEF m8
    <3>2. m9.ret = 0
      BY <1>4, <1>8, <3>1
    <3> QED BY <1>1, <2>4, <3>2
  <2> QED BY <2>3, <2>4
<1> QED BY <1>9, <1>10, <1>11

(* The filter of a dialled connection passes the TCP packets to its port   *)
(* at fragment offset 0 and no others, whatever the port, the options of   *)
(* the IP header and the other fields are: all IPv4 packets, not only the  *)
(* classes of packets the run has.                                         *)
THEOREM FilterPasses == Spec => []FilterIsExact
<1>1. ASSUME NEW q \in IpPackets PROVE q.port \in ExactPorts
  BY ProgramIsExact, FilterAssumption DEF ExactPorts
<1>2. FilterIsExact
  BY <1>1 DEF FilterIsExact
<1> QED BY <1>2, PTL
=============================================================================
