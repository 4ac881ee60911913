---------------------------- MODULE PlannerProofs ----------------------------
(***************************************************************************)
(* Proofs about the planner, for every configuration and every list of     *)
(* statements.  They rest on facts about the rules: the decisions that they*)
(* offer are well formed, the join of a result and its check is the first  *)
(* of those that nothing outbids, where control flow, an exit or a tail    *)
(* owns the boundary no general rule offers anything, the groups before    *)
(* control statements share no gap, and what the rules offer depends on    *)
(* the blank lines only as far as they make a gap tight or open.           *)
(***************************************************************************)
EXTENDS Planner, FiniteSetTheorems, SequenceTheorems, WellFoundedInduction, TLAPS

-----------------------------------------------------------------------------
(* What the rules offer.                                                   *)

\* A decision that carries its diagnostic at the statement after the gap.
Offered == [blanks : 0..1, rule : Rules, priority : 1..100, anchor : {0}]

LEMMA OfferedShapes ==
    /\ \A rule \in Rules, n \in 1..100 : Separate(rule, n) \in Offered
    /\ \A rule \in Rules : Join(rule) \in Offered /\ OptionalJoin(rule) \in Offered
BY DEF Offered, Separate, Join, OptionalJoin

LEMMA RuleNames ==
    /\ {"bindings", "expressions", "control_flow", "after_block", "exit",
        "result_check", "item_spacing", "layout"} \subseteq Rules
    /\ \A a, b : BindingRule(a, b) \in Rules
BY DEF Rules, BindingRule

LEMMA Both == ASSUME NEW s \in Seq(Offered), NEW t \in Seq(Offered)
              PROVE  s \o t \in Seq(Offered)
BY ConcatProperties

LEMMA One == ASSUME NEW d \in Offered PROVE <<d>> \in Seq(Offered) /\ <<>> \in Seq(Offered)
OBVIOUS

LEMMA JoinOffersType == ASSUME NEW i PROVE JoinOffers(i) \in Seq(Offered)
<1> DEFINE a == U(i)
           b == U(i + 1)
           check  == Offer(ChecksResult(i), ImmediateCheckJoin(i))
           gate   == Offer(RejectionGate(i) /\ FeedsGuard(i), Join("control_flow"))
           stage  == Offer(RejectionGate(i) /\ a.known /\ b.known /\ ~FeedsGuard(i),
                           Separate("control_flow", 60))
           repeat == Offer(RepeatsAction(i), Join("control_flow"))
           fresh  == Offer(FreshAfterCheck(a, b), Separate("bindings", 100))
           close  == Offer(RetryContinue(a, b) \/ OkClose(a, b), Join("exit"))
           bind   == Offer(\/ Unpack(a, b) \/ BoolFlagRun(a, b)
                           \/ CleanupCall(a, b) \/ IgnoredEmit(a, b), Join("bindings"))
           leave  == Offer(Passthrough(a, b) \/ TailCall(a, b), Join("exit"))
<1>1. check \in Seq(Offered)
  BY One, OfferedShapes, RuleNames DEF Offer, ImmediateCheckJoin
<1>2. gate \in Seq(Offered) /\ repeat \in Seq(Offered)
  BY One, OfferedShapes, RuleNames DEF Offer
<1>3. stage \in Seq(Offered)
  BY One, OfferedShapes, RuleNames DEF Offer
<1>4. fresh \in Seq(Offered)
  BY One, OfferedShapes, RuleNames DEF Offer
<1>5. close \in Seq(Offered) /\ leave \in Seq(Offered)
  BY One, OfferedShapes, RuleNames DEF Offer
<1>6. bind \in Seq(Offered)
  BY One, OfferedShapes, RuleNames DEF Offer
<1>7. JoinOffers(i) = IF ~list.joinable[i] THEN <<>>
                      ELSE check \o gate \o stage \o repeat \o fresh \o close
                           \o bind \o leave
  BY DEF JoinOffers
<1> HIDE DEF check, gate, stage, repeat, fresh, close, bind, leave
<1>8. check \o gate \o stage \o repeat \in Seq(Offered)
  BY <1>1, <1>2, <1>3, Both
<1>9. check \o gate \o stage \o repeat \o fresh \o close \o bind \o leave \in Seq(Offered)
  BY <1>4, <1>5, <1>6, <1>8, Both
<1> QED
  BY <1>7, <1>9, One

LEMMA PhaseOffersType == ASSUME NEW i, NEW groups PROVE PhaseOffers(i, groups) \in Seq(Offered)
<1> DEFINE a == U(i)
           b == U(i + 1)
           phase == AssertionPhase(i)
           items == Offer(SeparatesItems(a, b), Separate("item_spacing", 60))
           held  == Offer(list.joinable[i], Join(BindingRule(a, b)))
           exit  == Offer(SeparatesExit(i, groups), Separate("exit", 80))
           after == Offer(SeparatesAfterBlock(i, groups), Separate("after_block", 70))
           other == Offer(SeparatesConditional(a, b), Separate("after_block", 95))
           ctrl  == Offer(SeparatesControl(i), Separate("control_flow", 30))
           macro == Offer(SeparatesMacro(a, b), Separate("bindings", 30))
           rest  == Offer(SeparatesOrdinary(i, groups), Separate(BindingRule(a, b), 30))
           plain == IF OwnsBoundary(b) THEN <<>> ELSE macro \o rest
<1>1. items \in Seq(Offered) /\ held \in Seq(Offered)
  BY One, OfferedShapes, RuleNames DEF Offer
<1>2. exit \in Seq(Offered) /\ ctrl \in Seq(Offered)
  BY One, OfferedShapes, RuleNames DEF Offer
<1>3. after \in Seq(Offered) /\ other \in Seq(Offered)
  BY One, OfferedShapes, RuleNames DEF Offer
<1>4. macro \in Seq(Offered) /\ rest \in Seq(Offered)
  BY One, OfferedShapes, RuleNames DEF Offer
<1>5. <<Separate(BindingRule(a, b), 90)>> \in Seq(Offered)
  BY One, OfferedShapes, RuleNames
<1>6. PhaseOffers(i, groups) =
        IF IsItem(a) \/ IsItem(b) THEN items
        ELSE IF phase = "boundary" THEN <<Separate(BindingRule(a, b), 90)>>
        ELSE IF phase = "together" THEN held
        ELSE exit \o after \o other \o ctrl \o plain
  BY DEF PhaseOffers
<1> HIDE DEF items, held, exit, after, other, ctrl, macro, rest, phase
<1>7. plain \in Seq(Offered)
  BY <1>4, One, Both
<1> HIDE DEF plain
<1>8. exit \o after \o other \o ctrl \o plain \in Seq(Offered)
  BY <1>2, <1>3, <1>7, Both
<1> QED
  BY <1>1, <1>5, <1>6, <1>8

LEMMA KeepOffersType == ASSUME NEW i PROVE KeepOffers(i) \in Seq(Offered)
BY One, OfferedShapes, RuleNames DEF KeepOffers, Offer

LEMMA LocalOffersType ==
    ASSUME NEW i, NEW groups PROVE LocalOffers(i, groups) \in Seq(Offered)
BY JoinOffersType, PhaseOffersType, KeepOffersType, Both DEF LocalOffers

LEMMA AccumulatorOffersType ==
    ASSUME NEW i, NEW groups PROVE AccumulatorOffers(i, groups) \in Seq(Offered)
<1>1. /\ Offer(Accumulators /\ HeldInRun(i, groups), Join("control_flow")) \in Seq(Offered)
      /\ Offer(Accumulators /\ ApartFromRun(i, groups), Separate("control_flow", 90))
            \in Seq(Offered)
  <2>1. Join("control_flow") \in Offered /\ Separate("control_flow", 90) \in Offered
    BY OfferedShapes, RuleNames
  <2> QED
    BY <2>1, One DEF Offer
<1> QED
  BY <1>1, Both DEF AccumulatorOffers

LEMMA GapOffersType ==
    ASSUME NEW i, NEW groups PROVE GapOffers(i, groups) \in Seq(Offered)
<1>1. Offer(Prepares /\ i \in Prepared, Join("bindings")) \in Seq(Offered)
  BY One, OfferedShapes, RuleNames DEF Offer
<1> QED
  BY <1>1, LocalOffersType, AccumulatorOffersType, Both DEF GapOffers

-----------------------------------------------------------------------------
(* What wins a gap.                                                        *)

\* Whatever wins has bid for the gap.
LEMMA WinnerBids ==
    ASSUME NEW i, NEW offers \in Seq(Offered), Winner(i, offers) # NoDecision
    PROVE  /\ Winner(i, offers) \in Offered
           /\ Bids(i, NoDecision, Winner(i, offers))
<1> DEFINE k == CHOOSE k \in Leading(i, offers) : TRUE
<1>1. Leading(i, offers) # {} /\ Winner(i, offers) = offers[k]
  BY DEF Winner
<1>2. k \in Leading(i, offers)
  BY <1>1
<1> HIDE DEF k
<1>3. k \in DOMAIN offers /\ Bids(i, NoDecision, offers[k])
  BY <1>2 DEF Leading, Bidders
<1> QED
  BY <1>1, <1>3

\* The first offer, of the greatest priority there is, is never outbid.
LEMMA FirstWins ==
    ASSUME NEW i, NEW offers \in Seq(Offered), offers # <<>>,
           offers[1].priority = 100, Bids(i, NoDecision, offers[1])
    PROVE  Winner(i, offers) = offers[1]
<1>1. 1 \in DOMAIN offers /\ \A k \in DOMAIN offers : k \in Nat /\ k >= 1
  OBVIOUS
<1>2. ASSUME NEW k \in DOMAIN offers PROVE offers[k].priority \in 1..100
  <2>1. offers[k] \in Offered
    OBVIOUS
  <2> QED
    BY <2>1 DEF Offered
<1>3. 1 \in Bidders(i, offers) /\ Bidders(i, offers) \subseteq DOMAIN offers
  BY <1>1 DEF Bidders
<1>4. 1 \in Leading(i, offers)
  <2> SUFFICES ASSUME NEW j \in Bidders(i, offers)
               PROVE  \/ offers[j].priority < offers[1].priority
                      \/ offers[j].priority = offers[1].priority /\ 1 <= j
    BY <1>3 DEF Leading
  <2>1. j \in Nat /\ j >= 1 /\ offers[j].priority \in 1..100
    BY <1>1, <1>2, <1>3
  <2>2. \A p \in 1..100 : p < 100 \/ p = 100
    OBVIOUS
  <2> QED
    BY <2>1, <2>2
<1>5. ASSUME NEW k \in Leading(i, offers) PROVE k = 1
  <2> DEFINE p == offers[1].priority
             q == offers[k].priority
  <2>1. k \in Bidders(i, offers) /\ (p < q \/ (p = q /\ k <= 1))
    BY <1>3 DEF Leading
  <2>2. k \in Nat /\ k >= 1 /\ p = 100 /\ q \in 1..100
    BY <1>1, <1>2, <1>3, <2>1
  <2> HIDE DEF p, q
  <2> QED
    BY <2>1, <2>2
<1> QED
  BY <1>4, <1>5 DEF Winner

\* That a sequence of offers begins with d.
Leads(s, d) == s \in Seq(Offered) /\ s # <<>> /\ s[1] = d

LEMMA LeadsOn == ASSUME NEW s, NEW d, Leads(s, d), NEW t \in Seq(Offered)
                 PROVE  Leads(s \o t, d)
<1>1. s \in Seq(Offered) /\ s # <<>> /\ s[1] = d
  BY DEF Leads
<1>2. s \o t \in Seq(Offered) /\ Len(s \o t) = Len(s) + Len(t) /\ (s \o t)[1] = s[1]
  BY <1>1
<1> QED
  BY <1>1, <1>2 DEF Leads

\* The two statements of gap i are a Result or Option and its check.
Pair(i) == /\ ChecksResult(i) /\ list.joinable[i] /\ ~Blocked(i)
           /\ Enabled(U(i + 1), "result_check")

LEMMA PairLeads == ASSUME NEW i, Pair(i), NEW groups
                   PROVE  Leads(GapOffers(i, groups), Join("result_check"))
<1> DEFINE a == U(i)
           b == U(i + 1)
           check  == Offer(ChecksResult(i), ImmediateCheckJoin(i))
           gate   == Offer(RejectionGate(i) /\ FeedsGuard(i), Join("control_flow"))
           stage  == Offer(RejectionGate(i) /\ a.known /\ b.known /\ ~FeedsGuard(i),
                           Separate("control_flow", 60))
           repeat == Offer(RepeatsAction(i), Join("control_flow"))
           fresh  == Offer(FreshAfterCheck(a, b), Separate("bindings", 100))
           close  == Offer(RetryContinue(a, b) \/ OkClose(a, b), Join("exit"))
           bind   == Offer(\/ Unpack(a, b) \/ BoolFlagRun(a, b)
                           \/ CleanupCall(a, b) \/ IgnoredEmit(a, b), Join("bindings"))
           leave  == Offer(Passthrough(a, b) \/ TailCall(a, b), Join("exit"))
<1>1. Leads(check, Join("result_check"))
  <2>1. check = <<Join("result_check")>> /\ Join("result_check") \in Offered
    BY OfferedShapes, RuleNames DEF Pair, Offer, ImmediateCheckJoin
  <2> QED
    BY <2>1, One DEF Leads
<1>2. gate \in Seq(Offered) /\ stage \in Seq(Offered) /\ repeat \in Seq(Offered)
  BY One, OfferedShapes, RuleNames DEF Offer
<1>3. fresh \in Seq(Offered) /\ close \in Seq(Offered) /\ leave \in Seq(Offered)
  BY One, OfferedShapes, RuleNames DEF Offer
<1>4. bind \in Seq(Offered)
  BY One, OfferedShapes, RuleNames DEF Offer
<1>5. JoinOffers(i) = check \o gate \o stage \o repeat \o fresh \o close \o bind \o leave
  BY DEF JoinOffers, Pair
<1> HIDE DEF check, gate, stage, repeat, fresh, close, bind, leave
<1>6. Leads(check \o gate \o stage \o repeat, Join("result_check"))
  BY <1>1, <1>2, LeadsOn
<1>7. Leads(JoinOffers(i), Join("result_check"))
  BY <1>3, <1>4, <1>5, <1>6, LeadsOn
<1>8. Leads(LocalOffers(i, groups), Join("result_check"))
  BY <1>7, PhaseOffersType, KeepOffersType, LeadsOn DEF LocalOffers
<1>9. Offer(Prepares /\ i \in Prepared, Join("bindings")) \in Seq(Offered)
  BY One, OfferedShapes, RuleNames DEF Offer
<1> QED
  BY <1>8, <1>9, AccumulatorOffersType, LeadsOn DEF GapOffers

LEMMA PairWins == ASSUME NEW i, Pair(i), NEW groups
                  PROVE  MandatoryJoin(Winner(i, GapOffers(i, groups)))
<1> DEFINE d == Join("result_check")
<1>1. GapOffers(i, groups) \in Seq(Offered) /\ GapOffers(i, groups) # <<>>
      /\ GapOffers(i, groups)[1] = d
  BY PairLeads DEF Leads
<1>2. d.priority = 100 /\ d.blanks = 0 /\ d.rule = "result_check"
  BY DEF Join
<1> HIDE DEF d
<1>3. Bids(i, NoDecision, d)
  BY <1>2 DEF Pair, Bids, NoDecision
<1>4. Winner(i, GapOffers(i, groups)) = d
  BY <1>1, <1>2, <1>3, FirstWins
<1> QED
  BY <1>2, <1>4 DEF MandatoryJoin

-----------------------------------------------------------------------------
(* What a control statement changes.                                       *)

SetupDecisions(c) ==
    {Separate("control_flow", 90), Excess(c), OptionalJoin("control_flow")}

LEMMA SetupShapes ==
    ASSUME NEW c, NEW d \in SetupDecisions(c)
    PROVE  /\ d.rule = "control_flow"
           /\ d.priority \in {20, 90}
           /\ d.anchor \in {0, c}
BY DEF SetupDecisions, Excess, Separate, OptionalJoin, Join

LEMMA GroupPutsShape ==
    ASSUME NEW c, NEW slots, NEW p \in GroupPuts(c, slots)
    PROVE  p[2] \in SetupDecisions(c)
<1>1. p[2] = OptionalJoin("control_flow") \/ p[2] = Excess(c)
  BY DEF GroupPuts, Excess
<1> QED
  BY <1>1 DEF SetupDecisions

LEMMA LoopPhasePutsShape ==
    ASSUME NEW c, NEW slots, NEW p \in LoopPhasePuts(c, slots)
    PROVE  p[2] \in SetupDecisions(c)
<1>1. p[2] = Separate("control_flow", 90)
  BY DEF LoopPhasePuts
<1> QED
  BY <1>1 DEF SetupDecisions

LEMMA SetupPutsShape ==
    ASSUME NEW c, NEW slots, NEW groups, NEW p \in SetupPuts(c, slots, groups)
    PROVE  Enabled(U(c), "control_flow") /\ p[2] \in SetupDecisions(c)
<1>1. Considered(c, slots, groups)
  BY DEF SetupPuts
<1>2. \/ p = <<c - 1, Separate("control_flow", 90)>>
      \/ p \in LoopPhasePuts(c, slots)
      \/ p \in GroupPuts(c, slots)
  BY DEF SetupPuts
<1>3. p[2] \in SetupDecisions(c)
  BY <1>2, GroupPutsShape, LoopPhasePutsShape DEF SetupDecisions
<1> QED
  BY <1>1, <1>3 DEF Considered

\* A gap keeps its slot, or takes what outbids it.
LEMMA SetupStepShape ==
    ASSUME NEW c, NEW slots, NEW groups, NEW i \in Gaps,
           SetupStep(c, slots, groups)[i] # slots[i]
    PROVE  LET d == SetupStep(c, slots, groups)[i]
           IN  /\ Enabled(U(c), "control_flow")
               /\ d \in SetupDecisions(c)
               /\ Bids(i, slots[i], d)
<1> DEFINE puts == {p \in SetupPuts(c, slots, groups) : p[1] = i /\ Bids(i, slots[i], p[2])}
           p == CHOOSE p \in puts : TRUE
<1>1. SetupStep(c, slots, groups)[i] = IF puts = {} THEN slots[i] ELSE p[2]
  BY DEF SetupStep
<1>2. puts # {}
  BY <1>1
<1>3. p \in puts
  BY <1>2
<1> HIDE DEF p
<1>4. p \in SetupPuts(c, slots, groups) /\ Bids(i, slots[i], p[2])
  BY <1>3
<1> QED
  BY <1>1, <1>2, <1>4, SetupPutsShape

-----------------------------------------------------------------------------
(* Licensed.  Plans are merged from decisions and decisions from each      *)
(* other, so that every slot of either is lawful, not only the findings.   *)

At(i, slot) == IF slot.anchor = 0 THEN i + 1 ELSE slot.anchor
Lawful(i, slot) ==
    slot # NoDecision => /\ ~Blocked(i)
                         /\ Enabled(U(i + 1), slot.rule)
                         /\ Enabled(U(At(i, slot)), slot.rule)
LawfulSlots == \A i \in Gaps : Lawful(i, decisions[i]) /\ Lawful(i, plan[i])

LEMMA BidIsLawful ==
    ASSUME NEW i, NEW slot, NEW d, Bids(i, slot, d),
           d.anchor = 0 \/ Enabled(U(d.anchor), d.rule)
    PROVE  Lawful(i, d)
BY DEF Lawful, At, Bids

LEMMA BuiltIsLawful ==
    ASSUME NEW i, NEW groups PROVE Lawful(i, Winner(i, GapOffers(i, groups)))
<1> DEFINE d == Winner(i, GapOffers(i, groups))
<1>1. CASE d = NoDecision
  BY <1>1 DEF Lawful
<1>2. CASE d # NoDecision
  <2>1. d \in Offered /\ Bids(i, NoDecision, d)
    BY <1>2, WinnerBids, GapOffersType
  <2>2. d.anchor = 0
    BY <2>1 DEF Offered
  <2> QED
    BY <2>1, <2>2, BidIsLawful
<1> QED
  BY <1>1, <1>2

LEMMA SetupIsLawful ==
    ASSUME NEW c, NEW slots, NEW groups, NEW i \in Gaps, Lawful(i, slots[i])
    PROVE  Lawful(i, SetupStep(c, slots, groups)[i])
<1> DEFINE d == SetupStep(c, slots, groups)[i]
<1>1. CASE d = slots[i]
  BY <1>1
<1>2. CASE d # slots[i]
  <2>1. /\ Enabled(U(c), "control_flow") /\ d \in SetupDecisions(c)
        /\ Bids(i, slots[i], d)
    BY <1>2, SetupStepShape
  <2>2. d.rule = "control_flow" /\ d.anchor \in {0, c}
    BY <2>1, SetupShapes
  <2> HIDE DEF d
  <2>3. Lawful(i, d)
    BY <2>1, <2>2, BidIsLawful
  <2> QED
    BY <2>3 DEF d
<1> QED
  BY <1>1, <1>2

LEMMA CappedIsLawful ==
    ASSUME NEW slots, NEW i \in Gaps, Lawful(i, slots[i])
    PROVE  Lawful(i, Capped(slots)[i])
<1> DEFINE d == Separate("layout", 1)
<1>1. \/ Capped(slots)[i] = slots[i]
      \/ Capped(slots)[i] = d /\ Bids(i, slots[i], d)
  BY DEF Capped
<1>2. d.anchor = 0
  BY DEF Separate
<1> HIDE DEF d
<1> QED
  BY <1>1, <1>2, BidIsLawful

\* The list and the configuration are never written.
LEMMA SameInput ==
    ASSUME UNCHANGED <<cfg, list>>, NEW i, NEW slot, Lawful(i, slot)
    PROVE  Gaps' = Gaps /\ Lawful(i, slot)'
<1>1. U(i)' = U(i) /\ U(i + 1)' = U(i + 1) /\ U(At(i, slot))' = U(At(i, slot))
  BY DEF U, At
<1>2. Gaps' = Gaps /\ Blocked(i)' = Blocked(i)
  BY <1>1 DEF Gaps, Size, Blocked
<1>3. EnabledRules' = EnabledRules
  BY DEF EnabledRules
<1>4. /\ Enabled(U(i + 1), slot.rule)' = Enabled(U(i + 1), slot.rule)
      /\ Enabled(U(At(i, slot)), slot.rule)' = Enabled(U(At(i, slot)), slot.rule)
  BY <1>1, <1>3 DEF Enabled
<1> QED
  BY <1>2, <1>4 DEF Lawful

LEMMA InputKept == ASSUME [Next]_vars PROVE UNCHANGED <<cfg, list>>
BY DEF Next, vars, input, Validate, Build, SetupControl, SetupPass, Close, Apply, Done

\* The slots of the next state are lawful for the input, which stays.
LEMMA LawfulStep ==
    ASSUME LawfulSlots, [Next]_vars, NEW i \in Gaps
    PROVE  Lawful(i, decisions'[i]) /\ Lawful(i, plan'[i])
<1>1. Lawful(i, decisions[i]) /\ Lawful(i, plan[i])
  BY DEF LawfulSlots
<1>2. CASE Build
  <2>1. decisions'[i] = Winner(i, GapOffers(i, cohesive')) /\ plan' = plan
    BY <1>2 DEF Build
  <2> QED
    BY <1>1, <2>1, BuiltIsLawful
<1>3. CASE SetupControl
  <2>1. plan' = plan /\ \E c : decisions' = SetupStep(c, decisions, cohesive)
    BY <1>3 DEF SetupControl
  <2> QED
    BY <1>1, <2>1, SetupIsLawful
<1>4. CASE Close
  <2> DEFINE built == Capped(decisions)
  <2>1. Lawful(i, built[i])
    BY <1>1, CappedIsLawful
  <2>2. decisions' = decisions
        /\ (plan' = plan \/ plan' = built \/ plan' = Merged(built))
    BY <1>4 DEF Close, Replan
  <2> HIDE DEF built
  <2>3. Merged(built)[i] = built[i] \/ Merged(built)[i] = plan[i]
    BY DEF Merged
  <2> QED
    BY <1>1, <2>1, <2>2, <2>3
<1>5. CASE Apply
  <2>1. decisions' = decisions /\ plan'[i] = NoDecision
    BY <1>5 DEF Apply, NoDecisions
  <2> QED
    BY <1>1, <2>1 DEF Lawful
<1>6. CASE Validate \/ SetupPass \/ Done \/ UNCHANGED vars
  <2>1. decisions' = decisions /\ plan' = plan
    BY <1>6 DEF Validate, SetupPass, Done, vars
  <2> QED
    BY <1>1, <2>1
<1> QED
  BY <1>2, <1>3, <1>4, <1>5, <1>6 DEF Next

\* Every finding, of every plan for every list and configuration, is about a
\* gap that may change, and its rule is on at both statements it concerns.
THEOREM FindingsAreLicensed == Spec => []Licensed
<1>1. Init => LawfulSlots
  BY DEF Init, LawfulSlots, NoDecisions, Lawful
<1>2. LawfulSlots /\ [Next]_vars => LawfulSlots'
  <2> SUFFICES ASSUME LawfulSlots, [Next]_vars PROVE LawfulSlots'
    OBVIOUS
  <2>1. UNCHANGED <<cfg, list>>
    BY InputKept
  <2>2. Gaps' = Gaps
    BY <2>1 DEF Gaps, Size
  <2>3. ASSUME NEW i \in Gaps
        PROVE  Lawful(i, decisions[i])' /\ Lawful(i, plan[i])'
    BY <2>1, <2>3, LawfulStep, SameInput
  <2> QED
    BY <2>2, <2>3 DEF LawfulSlots
<1>3. LawfulSlots => Licensed
  <2> SUFFICES ASSUME LawfulSlots, NEW i \in Findings
               PROVE  /\ ~Blocked(i)
                      /\ Enabled(U(i + 1), plan[i].rule)
                      /\ Enabled(U(Anchor(i)), plan[i].rule)
    BY DEF Licensed
  <2>1. i \in Gaps /\ plan[i] # NoDecision
    BY DEF Findings
  <2>2. Anchor(i) = At(i, plan[i])
    BY DEF Anchor, At
  <2> QED
    BY <2>1, <2>2 DEF LawfulSlots, Lawful
<1> QED
  BY <1>1, <1>2, <1>3, PTL DEF Spec

-----------------------------------------------------------------------------
(* PairKept.  The join is there when the decisions are built, nothing that *)
(* control statements ask for outbids it, and a later planning can only    *)
(* replace it by itself.                                                   *)

PairInv ==
    /\ round \in Nat
    /\ pc = "planned" => round # 0
    /\ \A i \in Gaps : Pair(i) =>
           /\ pc \in {"setup", "close"} => MandatoryJoin(decisions[i])
           /\ round # 0 => plan[i] # NoDecision /\ plan[i].blanks = 0

LEMMA JoinOutbids ==
    ASSUME NEW c, NEW slots, NEW groups, NEW i \in Gaps, MandatoryJoin(slots[i])
    PROVE  SetupStep(c, slots, groups)[i] = slots[i]
<1> DEFINE d == SetupStep(c, slots, groups)[i]
<1>1. SUFFICES ASSUME d # slots[i] PROVE FALSE
  OBVIOUS
<1>2. d \in SetupDecisions(c) /\ Bids(i, slots[i], d)
  BY <1>1, SetupStepShape
<1> HIDE DEF d
<1>3. d.priority \in {20, 90}
  BY <1>2, SetupShapes
<1>4. slots[i].priority = 100 /\ slots[i].priority < d.priority
  BY <1>2 DEF Bids, MandatoryJoin
<1> QED
  BY <1>3, <1>4

LEMMA JoinIsCapped ==
    ASSUME NEW slots, NEW i \in Gaps, MandatoryJoin(slots[i])
    PROVE  Capped(slots)[i] = slots[i]
BY DEF Capped, Bids, MandatoryJoin, Separate

LEMMA HeldStep == ASSUME [Next]_vars PROVE HeldStaysHeld
<1>1. ASSUME NEW i \in Gaps, pc # "build", MandatoryJoin(decisions[i])
      PROVE  MandatoryJoin(decisions'[i])
  <2>1. CASE SetupControl
    <3>1. \E c : decisions' = SetupStep(c, decisions, cohesive)
      BY <2>1 DEF SetupControl
    <3> QED
      BY <1>1, <3>1, JoinOutbids
  <2>2. CASE ~SetupControl
    <3>1. decisions' = decisions
      BY <1>1, <2>2
         DEF Next, vars, Validate, Build, SetupPass, Close, Apply, Done
    <3> QED
      BY <1>1, <3>1
  <2> QED
    BY <2>1, <2>2
<1> QED BY <1>1 DEF HeldStaysHeld

\* Once built, a join that is not optional stays in the decisions: no control
\* statement takes it apart, in any pass.
THEOREM MandatoryJoinsStay == Spec => [][HeldStaysHeld]_vars
<1>1. [Next]_vars => [HeldStaysHeld]_vars
  BY HeldStep
<1> QED
  BY <1>1, PTL DEF Spec

LEMMA PairStep ==
    ASSUME PairInv, [Next]_vars, NEW i \in Gaps, Pair(i)
    PROVE  /\ pc' \in {"setup", "close"} => MandatoryJoin(decisions'[i])
           /\ round' # 0 => plan'[i] # NoDecision /\ plan'[i].blanks = 0
<1>1. /\ pc \in {"setup", "close"} => MandatoryJoin(decisions[i])
      /\ round # 0 => plan[i] # NoDecision /\ plan[i].blanks = 0
  BY DEF PairInv
<1>2. CASE Build
  <2>1. /\ decisions'[i] = Winner(i, GapOffers(i, cohesive'))
        /\ plan' = plan /\ round' = round
    BY <1>2 DEF Build
  <2> QED
    BY <1>1, <2>1, PairWins
<1>3. CASE SetupControl
  <2>1. /\ pc = "setup" /\ plan' = plan /\ round' = round
        /\ \E c : decisions' = SetupStep(c, decisions, cohesive)
    BY <1>3 DEF SetupControl
  <2> QED
    BY <1>1, <2>1, JoinOutbids
<1>4. CASE SetupPass
  <2>1. pc = "setup" /\ decisions' = decisions /\ plan' = plan /\ round' = round
    BY <1>4 DEF SetupPass
  <2> QED
    BY <1>1, <2>1
<1>5. CASE Close
  <2> DEFINE built == Capped(decisions)
  <2>1. MandatoryJoin(built[i])
    BY <1>1, <1>5, JoinIsCapped DEF Close
  <2>2. /\ pc' \notin {"setup", "close"}
        /\ \/ round # 0 /\ plan' = plan
           \/ plan' = built
           \/ round # 0 /\ plan' = Merged(built)
    BY <1>5 DEF Close, Replan
  <2> HIDE DEF built
  <2>3. built[i] # NoDecision /\ built[i].blanks = 0
    BY <2>1 DEF MandatoryJoin, NoDecision
  <2>4. Merged(built)[i] = built[i] \/ Merged(built)[i] = plan[i]
    BY DEF Merged
  <2> QED
    BY <1>1, <2>2, <2>3, <2>4
<1>6. CASE Apply
  BY <1>6 DEF Apply
<1>7. CASE Validate
  BY <1>1, <1>7 DEF Validate
<1>8. CASE Done \/ UNCHANGED vars
  <2>1. UNCHANGED <<pc, decisions, plan, round>>
    BY <1>8 DEF Done, vars
  <2> QED
    BY <1>1, <2>1
<1> QED
  BY <1>2, <1>3, <1>4, <1>5, <1>6, <1>7, <1>8 DEF Next

\* Whether gap i is a result and its check is fixed by the input.
LEMMA SamePair ==
    ASSUME UNCHANGED <<cfg, list>>, NEW i PROVE Gaps' = Gaps /\ Pair(i)' = Pair(i)
<1>1. U(i)' = U(i) /\ U(i + 1)' = U(i + 1)
  BY DEF U
<1>2. Gaps' = Gaps /\ Blocked(i)' = Blocked(i)
  BY <1>1 DEF Gaps, Size, Blocked
<1>3. ChecksResult(i)' = ChecksResult(i)
  BY <1>1 DEF ChecksResult
<1>4. Enabled(U(i + 1), "result_check")' = Enabled(U(i + 1), "result_check")
  BY <1>1 DEF Enabled, EnabledRules
<1> QED
  BY <1>2, <1>3, <1>4 DEF Pair

\* In every plan a Result or Option and its immediate check are adjacent, for
\* every list and configuration that asks for it.
THEOREM ChecksStayAdjacent == Spec => []PairKept
<1>1. Init => PairInv
  BY DEF Init, PairInv
<1>2. PairInv /\ [Next]_vars => PairInv'
  <2> SUFFICES ASSUME PairInv, [Next]_vars PROVE PairInv'
    OBVIOUS
  <2>1. round' \in Nat /\ (pc' = "planned" => round' # 0)
    <3>1. round \in Nat /\ (pc = "planned" => round # 0)
      BY DEF PairInv
    <3>2. CASE Close
      BY <3>1, <3>2 DEF Close, Replan
    <3>3. CASE ~Close
      BY <3>1, <3>3
         DEF Next, vars, Validate, Build, SetupControl, SetupPass, Apply, Done
    <3> QED
      BY <3>2, <3>3
  <2>2. UNCHANGED <<cfg, list>>
    BY InputKept
  <2>3. Gaps' = Gaps /\ \A i : Pair(i)' = Pair(i)
    BY <2>2, SamePair
  <2> QED
    BY <2>1, <2>3, PairStep DEF PairInv
<1>3. PairInv => PairKept
  <2> SUFFICES ASSUME PairInv, pc = "planned", NEW i \in Gaps, Pair(i)
               PROVE  WithDecisions(plan)[i] = 0
    BY DEF PairKept, Pair
  <2>1. plan[i] # NoDecision /\ plan[i].blanks = 0
    BY DEF PairInv
  <2> QED
    BY <2>1 DEF WithDecisions
<1> QED
  BY <1>1, <1>2, <1>3, PTL DEF Spec

-----------------------------------------------------------------------------
(* SuppressedStaysSilent.  None of the offers for a gap that control flow, *)
(* an exit or a tail owns is one of the rules for bindings and expressions,*)
(* outside of a test, and what is put later never is.                      *)

Owned(i) == OwnsBoundary(U(i + 1)) /\ U(i).tests = -1 /\ U(i + 1).kind # "let"

Silent(slot) == slot.rule \notin {"bindings", "expressions"}
SilentOffers == {d \in Offered : Silent(d)}

LEMMA SilentShapes ==
    ASSUME NEW rule \in Rules \ {"bindings", "expressions"}, NEW n \in 1..100
    PROVE  /\ Separate(rule, n) \in SilentOffers
           /\ Join(rule) \in SilentOffers /\ OptionalJoin(rule) \in SilentOffers
BY OfferedShapes DEF SilentOffers, Silent, Separate, Join, OptionalJoin

LEMMA SilentNames ==
    {"control_flow", "after_block", "exit", "result_check", "item_spacing", "layout"}
        \subseteq Rules \ {"bindings", "expressions"}
BY DEF Rules

LEMMA BothSilent == ASSUME NEW s \in Seq(SilentOffers), NEW t \in Seq(SilentOffers)
                    PROVE  s \o t \in Seq(SilentOffers)
BY ConcatProperties

LEMMA OneSilent ==
    ASSUME NEW d \in SilentOffers
    PROVE  <<d>> \in Seq(SilentOffers) /\ <<>> \in Seq(SilentOffers)
OBVIOUS

\* A condition that is met or not.
LEMMA SilentOffer ==
    ASSUME NEW rule \in Rules \ {"bindings", "expressions"}, NEW n \in 1..100, NEW condition
    PROVE  /\ Offer(condition, Separate(rule, n)) \in Seq(SilentOffers)
           /\ Offer(condition, Join(rule)) \in Seq(SilentOffers)
           /\ Offer(condition, OptionalJoin(rule)) \in Seq(SilentOffers)
BY SilentShapes, OneSilent DEF Offer

LEMMA JoinOffersSilent ==
    ASSUME NEW i, Owned(i) PROVE JoinOffers(i) \in Seq(SilentOffers)
<1> DEFINE a == U(i)
           b == U(i + 1)
           check  == Offer(ChecksResult(i), ImmediateCheckJoin(i))
           gate   == Offer(RejectionGate(i) /\ FeedsGuard(i), Join("control_flow"))
           stage  == Offer(RejectionGate(i) /\ a.known /\ b.known /\ ~FeedsGuard(i),
                           Separate("control_flow", 60))
           repeat == Offer(RepeatsAction(i), Join("control_flow"))
           fresh  == Offer(FreshAfterCheck(a, b), Separate("bindings", 100))
           close  == Offer(RetryContinue(a, b) \/ OkClose(a, b), Join("exit"))
           bind   == Offer(\/ Unpack(a, b) \/ BoolFlagRun(a, b)
                           \/ CleanupCall(a, b) \/ IgnoredEmit(a, b), Join("bindings"))
           leave  == Offer(Passthrough(a, b) \/ TailCall(a, b), Join("exit"))
<1>1. check \in Seq(SilentOffers)
  BY SilentOffer, SilentNames DEF ImmediateCheckJoin
<1>2. gate \in Seq(SilentOffers) /\ repeat \in Seq(SilentOffers)
  BY SilentOffer, SilentNames
<1>3. stage \in Seq(SilentOffers)
  BY SilentOffer, SilentNames
<1>4. close \in Seq(SilentOffers) /\ leave \in Seq(SilentOffers)
  BY SilentOffer, SilentNames
<1>5. b.kind # "let"
  BY DEF Owned
<1>6. fresh = <<>>
  BY <1>5 DEF Offer, FreshAfterCheck
<1>7. bind = <<>>
  BY <1>5 DEF Offer, Unpack, BoolFlagRun, CleanupCall, IgnoredEmit
<1>8. <<>> \in Seq(SilentOffers)
  BY EmptySeq
<1>9. JoinOffers(i) = IF ~list.joinable[i] THEN <<>>
                      ELSE check \o gate \o stage \o repeat \o fresh \o close
                           \o bind \o leave
  BY DEF JoinOffers
<1> HIDE DEF check, gate, stage, repeat, fresh, close, bind, leave
<1>10. check \o gate \o stage \o repeat \in Seq(SilentOffers)
  BY <1>1, <1>2, <1>3, BothSilent
<1>11. check \o gate \o stage \o repeat \o fresh \o close \o bind \o leave
          \in Seq(SilentOffers)
  BY <1>4, <1>6, <1>7, <1>8, <1>10, BothSilent
<1> QED
  BY <1>8, <1>9, <1>11

LEMMA PhaseOffersSilent ==
    ASSUME NEW i, NEW groups, Owned(i) PROVE PhaseOffers(i, groups) \in Seq(SilentOffers)
<1> DEFINE a == U(i)
           b == U(i + 1)
           items == Offer(SeparatesItems(a, b), Separate("item_spacing", 60))
           exit  == Offer(SeparatesExit(i, groups), Separate("exit", 80))
           after == Offer(SeparatesAfterBlock(i, groups), Separate("after_block", 70))
           other == Offer(SeparatesConditional(a, b), Separate("after_block", 95))
           ctrl  == Offer(SeparatesControl(i), Separate("control_flow", 30))
<1>1. items \in Seq(SilentOffers) /\ exit \in Seq(SilentOffers)
  BY SilentOffer, SilentNames
<1>2. after \in Seq(SilentOffers) /\ other \in Seq(SilentOffers)
  BY SilentOffer, SilentNames
<1>3. ctrl \in Seq(SilentOffers) /\ <<>> \in Seq(SilentOffers)
  BY SilentOffer, SilentNames, EmptySeq
<1>4. AssertionPhase(i) = "none"
  <2>1. AssertionBoundary(i) = "none"
    BY DEF AssertionBoundary, Owned
  <2> QED BY <2>1 DEF AssertionPhase
<1>5. OwnsBoundary(b)
  BY DEF Owned
<1>6. PhaseOffers(i, groups) = IF IsItem(a) \/ IsItem(b) THEN items
                               ELSE exit \o after \o other \o ctrl \o <<>>
  BY <1>4, <1>5 DEF PhaseOffers
<1> HIDE DEF items, exit, after, other, ctrl
<1>7. exit \o after \o other \o ctrl \o <<>> \in Seq(SilentOffers)
  BY <1>1, <1>2, <1>3, BothSilent
<1> QED
  BY <1>1, <1>6, <1>7

LEMMA KeepOffersSilent ==
    ASSUME NEW i, Owned(i) PROVE KeepOffers(i) \in Seq(SilentOffers)
<1> DEFINE a == U(i)
           b == U(i + 1)
<1>1. b.kind = "exit" \/ b.kind = "control" \/ (b.tail /\ b.kind # "control")
  BY DEF Owned, OwnsBoundary
<1>2. \A c : /\ Offer(c, OptionalJoin("item_spacing")) \in Seq(SilentOffers)
             /\ Offer(c, OptionalJoin("exit")) \in Seq(SilentOffers)
             /\ Offer(c, OptionalJoin("control_flow")) \in Seq(SilentOffers)
  BY SilentOffer, SilentNames
<1>3. <<>> \in Seq(SilentOffers)
  BY EmptySeq
<1> QED
  BY <1>1, <1>2, <1>3 DEF KeepOffers

\* A nonempty set of natural numbers has a least element.
LEMMA MinIsMember ==
    ASSUME NEW T, T \subseteq Nat, T # {}
    PROVE  Min(T) \in T /\ \A a \in T : Min(T) <= a
<1> DEFINE less == OpToRel(<, Nat)
<1>1. IsWellFoundedOn(less, Nat)
  BY NatLessThanWellFounded
<1>2. \A a, b \in Nat : a < b => <<a, b>> \in less
  BY DEF OpToRel
<1> HIDE DEF less
<1>3. PICK m \in T : \A a \in T : ~(<<a, m>> \in less)
  BY <1>1, WFMin
<1>4. \A a \in T : ~(a < m)
  BY <1>2, <1>3
<1>5. \A a \in T : m <= a
  BY <1>4
<1> QED BY <1>5 DEF Min

\* Preparation is made of related bindings in gaps that can be joined.
LEMMA PreparationIsChained ==
    ASSUME NEW i \in Prepared PROVE Chained(i)
<1>1. PICK c \in {c \in 3..Size : U(c).kind = "control"} :
         i \in LET s == RunStart(1, c - 1, {k \in 1..(c - 2) : Chained(k)})
               IN  IF c - s > 4 THEN {} ELSE s..(c - 2)
  BY DEF Prepared
<1> DEFINE chain == {k \in 1..(c - 2) : Chained(k)}
           starts == {s \in 1..(c - 1) : s..((c - 1) - 1) \subseteq chain}
<1>2. c \in Int /\ c >= 3
  OBVIOUS
<1>3. Min(starts) \in starts
  <2>1. starts \subseteq Nat
    BY <1>2
  <2>2. c - 1 \in starts
    BY <1>2
  <2> HIDE DEF starts
  <2> QED BY <2>1, <2>2, MinIsMember
<1>4. RunStart(1, c - 1, chain) = Min(starts)
  BY DEF RunStart
<1>5. i \in RunStart(1, c - 1, chain)..(c - 2)
  BY <1>1
<1>6. i \in Min(starts)..(c - 2) /\ Min(starts)..((c - 1) - 1) \subseteq chain
  BY <1>3, <1>4, <1>5
<1>7. (c - 1) - 1 = c - 2
  BY <1>2
<1> HIDE DEF starts
<1>8. i \in chain
  BY <1>6, <1>7
<1> QED BY <1>8

LEMMA GapOffersSilent ==
    ASSUME NEW i, NEW groups, Owned(i) PROVE GapOffers(i, groups) \in Seq(SilentOffers)
<1>1. LocalOffers(i, groups) \in Seq(SilentOffers)
  BY JoinOffersSilent, PhaseOffersSilent, KeepOffersSilent, BothSilent DEF LocalOffers
<1>2. Offer(Prepares /\ i \in Prepared, Join("bindings")) = <<>>
  BY PreparationIsChained DEF Chained, OneLineBinding, Owned, Offer
<1>3. <<>> \in Seq(SilentOffers)
  BY EmptySeq
<1>4. AccumulatorOffers(i, groups) \in Seq(SilentOffers)
  <2>1. /\ Offer(Accumulators /\ HeldInRun(i, groups), Join("control_flow"))
              \in Seq(SilentOffers)
        /\ Offer(Accumulators /\ ApartFromRun(i, groups), Separate("control_flow", 90))
              \in Seq(SilentOffers)
    BY SilentOffer, SilentNames
  <2> QED BY <2>1, BothSilent DEF AccumulatorOffers
<1> QED
  BY <1>1, <1>2, <1>3, <1>4, BothSilent DEF GapOffers

LEMMA BuiltIsSilent ==
    ASSUME NEW i, NEW groups, Owned(i) PROVE Silent(Winner(i, GapOffers(i, groups)))
<1> DEFINE offers == GapOffers(i, groups)
<1>1. offers \in Seq(SilentOffers)
  BY GapOffersSilent
<1> HIDE DEF offers
<1>2. Silent(Winner(i, offers))
  <2>1. CASE Leading(i, offers) = {}
    <3>1. Winner(i, offers) = NoDecision
      BY <2>1 DEF Winner
    <3> QED BY <3>1 DEF NoDecision, Silent
  <2>2. CASE Leading(i, offers) # {}
    <3>1. PICK k \in Leading(i, offers) : Winner(i, offers) = offers[k]
      BY <2>2 DEF Winner
    <3>2. k \in DOMAIN offers
      BY <3>1 DEF Leading, Bidders
    <3>3. offers[k] \in SilentOffers
      BY <1>1, <3>2
    <3> QED BY <3>1, <3>3 DEF SilentOffers
  <2> QED BY <2>1, <2>2
<1> QED BY <1>2 DEF offers

LEMMA SetupIsSilent ==
    ASSUME NEW c, NEW slots, NEW groups, NEW i \in Gaps, Silent(slots[i])
    PROVE  Silent(SetupStep(c, slots, groups)[i])
<1> DEFINE d == SetupStep(c, slots, groups)[i]
<1>1. CASE d = slots[i]
  BY <1>1
<1>2. CASE d # slots[i]
  <2>1. d \in SetupDecisions(c)
    BY <1>2, SetupStepShape
  <2> HIDE DEF d
  <2>2. d.rule = "control_flow"
    BY <2>1, SetupShapes
  <2>3. Silent(d)
    BY <2>2 DEF Silent
  <2> QED BY <2>3 DEF d
<1> QED BY <1>1, <1>2

LEMMA CappedIsSilent ==
    ASSUME NEW slots, NEW i \in Gaps, Silent(slots[i]) PROVE Silent(Capped(slots)[i])
BY DEF Capped, Silent, Separate

SilentSlots == \A i \in Gaps : Owned(i) => Silent(decisions[i]) /\ Silent(plan[i])

LEMMA SilentStep ==
    ASSUME SilentSlots, [Next]_vars, NEW i \in Gaps, Owned(i)
    PROVE  Silent(decisions'[i]) /\ Silent(plan'[i])
<1>1. Silent(decisions[i]) /\ Silent(plan[i])
  BY DEF SilentSlots
<1>2. CASE Build
  <2>1. decisions'[i] = Winner(i, GapOffers(i, cohesive')) /\ plan' = plan
    BY <1>2 DEF Build
  <2> QED
    BY <1>1, <2>1, BuiltIsSilent
<1>3. CASE SetupControl
  <2>1. plan' = plan /\ \E c : decisions' = SetupStep(c, decisions, cohesive)
    BY <1>3 DEF SetupControl
  <2> QED
    BY <1>1, <2>1, SetupIsSilent
<1>4. CASE Close
  <2> DEFINE built == Capped(decisions)
  <2>1. Silent(built[i])
    BY <1>1, CappedIsSilent
  <2>2. decisions' = decisions
        /\ (plan' = plan \/ plan' = built \/ plan' = Merged(built))
    BY <1>4 DEF Close, Replan
  <2> HIDE DEF built
  <2>3. Merged(built)[i] = built[i] \/ Merged(built)[i] = plan[i]
    BY DEF Merged
  <2> QED
    BY <1>1, <2>1, <2>2, <2>3
<1>5. CASE Apply
  <2>1. decisions' = decisions /\ plan'[i] = NoDecision
    BY <1>5 DEF Apply, NoDecisions
  <2> QED
    BY <1>1, <2>1 DEF Silent, NoDecision
<1>6. CASE Validate \/ SetupPass \/ Done \/ UNCHANGED vars
  <2>1. decisions' = decisions /\ plan' = plan
    BY <1>6 DEF Validate, SetupPass, Done, vars
  <2> QED
    BY <1>1, <2>1
<1> QED
  BY <1>2, <1>3, <1>4, <1>5, <1>6 DEF Next

\* The gap before control flow, an exit or a tail is never decided by the
\* rules for bindings and expressions, for any list and configuration, also
\* if the rule that owns the gap is off.
THEOREM SuppressedStaysSuppressed == Spec => []SuppressedStaysSilent
<1> DEFINE TailsAreValues == \A i \in Gaps : U(i + 1).tail => U(i + 1).kind # "let"
<1>1. Init => SilentSlots /\ TailsAreValues
  <2> SUFFICES ASSUME Init PROVE SilentSlots /\ TailsAreValues
    OBVIOUS
  <2>1. SilentSlots
    BY DEF Init, SilentSlots, NoDecisions, NoDecision, Silent
  <2>2. PICK inputs \in Inputs : \E in \in inputs : list = in.list
    BY DEF Init
  <2>3. TailsAreValues
    BY <2>2, TailAssumption DEF U, Gaps, Size
  <2> QED BY <2>1, <2>3
<1>2. SilentSlots /\ TailsAreValues /\ [Next]_vars => (SilentSlots /\ TailsAreValues)'
  <2> SUFFICES ASSUME SilentSlots, TailsAreValues, [Next]_vars
               PROVE  SilentSlots' /\ TailsAreValues'
    OBVIOUS
  <2>1. UNCHANGED <<cfg, list>>
    BY InputKept
  <2>2. Gaps' = Gaps /\ Size' = Size
    BY <2>1 DEF Gaps, Size
  <2>3. \A k : U(k)' = U(k)
    BY <2>1 DEF U
  <2>4. \A i : Owned(i)' = Owned(i)
    BY <2>3 DEF Owned, OwnsBoundary
  <2>5. ASSUME NEW i \in Gaps, Owned(i)
        PROVE  Silent(decisions[i])' /\ Silent(plan[i])'
    BY <2>5, SilentStep DEF Silent
  <2>6. SilentSlots'
    BY <2>2, <2>4, <2>5 DEF SilentSlots
  <2> QED BY <2>2, <2>3, <2>6
<1>3. SilentSlots /\ TailsAreValues => SuppressedStaysSilent
  <2> SUFFICES ASSUME SilentSlots, TailsAreValues, NEW i \in Gaps,
                      U(i + 1).kind \in {"control", "exit"} \/ U(i + 1).tail,
                      U(i).tests = -1
               PROVE  plan[i].rule \notin {"bindings", "expressions"}
    BY DEF SuppressedStaysSilent
  <2>1. U(i + 1).kind # "let"
    OBVIOUS
  <2>2. Owned(i)
    BY <2>1 DEF Owned, OwnsBoundary
  <2> QED BY <2>2 DEF SilentSlots, Silent
<1> QED
  BY <1>1, <1>2, <1>3, PTL DEF Spec

-----------------------------------------------------------------------------
(* Numbers.                                                                *)

LEMMA MaxIsMember ==
    ASSUME NEW n \in Nat, NEW T, T \subseteq 0..n, T # {}
    PROVE  Max(T) \in T /\ \A t \in T : t <= Max(T)
<1> DEFINE gaps == {n - t : t \in T}
<1>1. gaps \subseteq Nat /\ gaps # {}
  <2>1. \A t \in T : n - t \in Nat
    OBVIOUS
  <2> QED BY <2>1
<1>2. Min(gaps) \in gaps /\ \A g \in gaps : Min(gaps) <= g
  <2> HIDE DEF gaps
  <2> QED BY <1>1, MinIsMember
<1>3. PICK m \in T : Min(gaps) = n - m
  BY <1>2
<1>4. \A t \in T : n - m <= n - t
  BY <1>2, <1>3
<1>5. m \in T /\ \A t \in T : m >= t
  BY <1>4
<1> QED BY <1>5 DEF Max

LEMMA SetInduction ==
    ASSUME NEW T, T \subseteq Nat, 0 \in T, \A n \in T : n + 1 \in T
    PROVE  T = Nat
<1> SUFFICES ASSUME Nat \ T # {} PROVE FALSE
  OBVIOUS
<1>1. PICK m \in Nat \ T : \A a \in Nat \ T : m <= a
  <2>1. Min(Nat \ T) \in Nat \ T /\ \A a \in Nat \ T : Min(Nat \ T) <= a
    BY MinIsMember
  <2> QED BY <2>1
<1>2. m - 1 \in Nat /\ m - 1 \in T
  BY <1>1
<1> QED BY <1>1, <1>2

-----------------------------------------------------------------------------
(* Groups of calls on one receiver.                                        *)

LEMMA GroupEndFacts ==
    ASSUME NEW s \in 1..Size, Size \in Nat PROVE GroupEnd(s) \in s..Size
<1> DEFINE ends == {s} \cup {j \in (s + 1)..Size :
                               Closes(s, j) /\ \A k \in (s + 1)..j : Continues(s, k)}
<1>1. ends \subseteq 0..Size /\ ends # {} /\ ends \subseteq s..Size
  OBVIOUS
<1>2. Max(ends) \in ends
  <2> HIDE DEF ends
  <2> QED BY <1>1, MaxIsMember
<1>3. GroupEnd(s) = Max(ends)
  BY DEF GroupEnd
<1> HIDE DEF ends
<1> QED BY <1>1, <1>2, <1>3

\* The groups from statement s on, if f has those of every later statement.
GroupsFrom(f, s) ==
    IF s > Size THEN {}
    ELSE IF Anchors(s) /\ GroupEnd(s) > s
    THEN (s..(GroupEnd(s) - 1)) \cup f[GroupEnd(s)]
    ELSE f[s + 1]

\* The recursion of cohesive looks ahead only, so that it has a meaning.
LEMMA GroupsExist ==
    ASSUME Size \in Nat
    PROVE  \E f : f = [s \in 1..(Size + 1) |-> GroupsFrom(f, s)]
<1> DEFINE body(f, k) == [s \in ((Size + 1) - k)..(Size + 1) |-> GroupsFrom(f, s)]
           good == {k \in Nat : k <= Size => \E f : f = body(f, k)}
<1>1. 0 \in good
  <2> DEFINE e == [s \in ((Size + 1) - 0)..(Size + 1) |-> {}]
  <2>1. \A f : \A s \in ((Size + 1) - 0)..(Size + 1) : GroupsFrom(f, s) = {}
    BY DEF GroupsFrom
  <2>2. e = body(e, 0)
    BY <2>1
  <2>3. \E f : f = body(f, 0)
    <3> HIDE DEF e, body
    <3> QED BY <2>2
  <2> HIDE DEF body
  <2> QED BY <2>3
<1>2. ASSUME NEW k \in good PROVE k + 1 \in good
  <2> SUFFICES ASSUME k + 1 <= Size PROVE \E f : f = body(f, k + 1)
    OBVIOUS
  <2>1. k \in Nat
    BY <1>2
  <2>2. PICK c : c = body(c, k)
    BY <1>2, <2>1
  <2> DEFINE low == (Size + 1) - (k + 1)
             d == [s \in low..(Size + 1) |-> IF s = low THEN GroupsFrom(c, s) ELSE c[s]]
  <2>3. /\ low \in 1..Size /\ low + 1 = (Size + 1) - k
        /\ \A s \in low..(Size + 1) : s # low => s \in ((Size + 1) - k)..(Size + 1)
        /\ \A s \in ((Size + 1) - k)..(Size + 1) : s \in low..(Size + 1) /\ s # low
    BY <2>1
  <2>4. \A s \in ((Size + 1) - k)..(Size + 1) : c[s] = GroupsFrom(c, s)
    BY <2>2
  <2>5. \A s \in ((Size + 1) - k)..(Size + 1) : d[s] = c[s]
    BY <2>3
  <2>6. d[low] = GroupsFrom(c, low)
    BY <2>3
  <2> HIDE DEF d
  <2>7. ASSUME NEW s \in low..(Size + 1) PROVE GroupsFrom(c, s) = GroupsFrom(d, s)
    <3>1. CASE s > Size
      BY <3>1 DEF GroupsFrom
    <3>2. CASE ~(s > Size)
      <4>1. s \in 1..Size
        BY <3>2, <2>3
      <4>2. GroupEnd(s) \in s..Size
        BY <4>1, GroupEndFacts
      <4>3. s + 1 \in ((Size + 1) - k)..(Size + 1)
        BY <4>1, <2>1
      <4>4. GroupEnd(s) > s => GroupEnd(s) \in ((Size + 1) - k)..(Size + 1)
        BY <4>1, <4>2, <2>1
      <4> QED BY <4>3, <4>4, <2>5 DEF GroupsFrom
    <3> QED BY <3>1, <3>2
  <2>8. \A s \in low..(Size + 1) : d[s] = GroupsFrom(d, s)
    BY <2>3, <2>4, <2>5, <2>6, <2>7
  <2>9. d = body(d, k + 1)
    <3>1. d = [s \in low..(Size + 1) |-> d[s]]
      BY DEF d
    <3> HIDE DEF low
    <3>2. d = [s \in low..(Size + 1) |-> GroupsFrom(d, s)]
      BY <3>1, <2>8
    <3> QED BY <3>2 DEF low
  <2> HIDE DEF body
  <2> QED BY <2>9
<1>3. good = Nat
  <2>1. good \subseteq Nat
    OBVIOUS
  <2> HIDE DEF good
  <2> QED BY <1>1, <1>2, <2>1, SetInduction
<1>4. \E f : f = body(f, Size)
  <2>1. Size \in good
    BY <1>3
  <2> HIDE DEF body
  <2> QED BY <2>1
<1>5. (Size + 1) - Size = 1
  OBVIOUS
<1> QED BY <1>4, <1>5

LEMMA GroupsAreGaps ==
    ASSUME Size \in Nat \ {0} PROVE CohesiveGaps \subseteq Gaps
<1> DEFINE From == CHOOSE f : f = [s \in 1..(Size + 1) |-> GroupsFrom(f, s)]
<1>1. From = [s \in 1..(Size + 1) |-> GroupsFrom(From, s)]
  <2>1. \E f : f = [s \in 1..(Size + 1) |-> GroupsFrom(f, s)]
    BY GroupsExist
  <2> QED BY <2>1
<1>2. CohesiveGaps = {} \/ CohesiveGaps = From[1]
  BY DEF CohesiveGaps, GroupsFrom
<1> HIDE DEF From
<1>3. \A s \in 1..(Size + 1) : From[s] = GroupsFrom(From, s)
  BY <1>1
<1> DEFINE within == {k \in Nat : k <= Size =>
                        \A s \in ((Size + 1) - k)..(Size + 1) : From[s] \subseteq Gaps}
<1>4. 0 \in within
  <2>1. From[Size + 1] = {}
    <3>1. Size + 1 \in 1..(Size + 1) /\ Size + 1 > Size
      OBVIOUS
    <3>2. From[Size + 1] = GroupsFrom(From, Size + 1)
      BY <1>3, <3>1
    <3> QED BY <3>1, <3>2 DEF GroupsFrom
  <2>2. \A s \in ((Size + 1) - 0)..(Size + 1) : s = Size + 1
    OBVIOUS
  <2> QED BY <2>1, <2>2
<1>5. ASSUME NEW k \in within PROVE k + 1 \in within
  <2> SUFFICES ASSUME k + 1 <= Size, NEW s \in ((Size + 1) - (k + 1))..(Size + 1)
               PROVE  From[s] \subseteq Gaps
    OBVIOUS
  <2>1. /\ k \in Nat
        /\ \A r \in ((Size + 1) - k)..(Size + 1) : From[r] \subseteq Gaps
    BY <1>5
  <2>2. CASE s \in ((Size + 1) - k)..(Size + 1)
    BY <2>1, <2>2
  <2>3. CASE s \notin ((Size + 1) - k)..(Size + 1)
    <3>1. s = Size - k /\ s \in 1..Size
      BY <2>1, <2>3
    <3>2. GroupEnd(s) \in s..Size
      BY <3>1, GroupEndFacts
    <3>3. From[s + 1] \subseteq Gaps
      BY <2>1, <3>1
    <3>4. GroupEnd(s) > s => From[GroupEnd(s)] \subseteq Gaps
      BY <2>1, <3>1, <3>2
    <3>5. s..(GroupEnd(s) - 1) \subseteq Gaps
      BY <3>1, <3>2 DEF Gaps
    <3>6. From[s] = GroupsFrom(From, s)
      BY <1>3, <3>1
    <3> QED BY <3>1, <3>3, <3>4, <3>5, <3>6 DEF GroupsFrom
  <2> QED BY <2>2, <2>3
<1>6. within = Nat
  <2>1. within \subseteq Nat
    OBVIOUS
  <2> HIDE DEF within
  <2> QED BY <1>4, <1>5, <2>1, SetInduction
<1>7. From[1] \subseteq Gaps
  <2>1. Size \in within
    BY <1>6
  <2> QED BY <2>1
<1> QED BY <1>2, <1>7

-----------------------------------------------------------------------------
(* TypeOK.                                                                 *)

LEMMA SlotShapes ==
    /\ \A d \in Offered : d \in Slot
    /\ NoDecision \in Slot
    /\ \A c \in Nat : SetupDecisions(c) \subseteq Slot
    /\ Separate("layout", 1) \in Slot
<1>1. \A d \in Offered : d \in Decision
  BY DEF Offered, Decision
<1>2. Offered \subseteq Slot
  BY <1>1 DEF Slot
<1>3. ASSUME NEW c \in Nat PROVE Excess(c) \in Slot
  BY RuleNames DEF Excess, Slot, Decision
<1>4. /\ Separate("control_flow", 90) \in Offered
      /\ OptionalJoin("control_flow") \in Offered
      /\ Separate("layout", 1) \in Offered
  BY OfferedShapes, RuleNames
<1> QED BY <1>1, <1>2, <1>3, <1>4 DEF Slot, SetupDecisions

LEMMA WinnerType ==
    ASSUME NEW i, NEW groups PROVE Winner(i, GapOffers(i, groups)) \in Slot
BY GapOffersType, WinnerBids, SlotShapes

LEMMA SetupStepType ==
    ASSUME NEW c \in Nat, NEW slots \in [Gaps -> Slot], NEW groups
    PROVE  SetupStep(c, slots, groups) \in [Gaps -> Slot]
<1> DEFINE step == SetupStep(c, slots, groups)
<1>1. \A i \in Gaps : step[i] \in Slot
  <2> SUFFICES ASSUME NEW i \in Gaps PROVE step[i] \in Slot
    OBVIOUS
  <2>1. step[i] = slots[i] \/ step[i] \in SetupDecisions(c)
    BY SetupStepShape
  <2> HIDE DEF step
  <2> QED BY <2>1, SlotShapes
<1>2. step = [i \in Gaps |-> step[i]]
  BY DEF SetupStep
<1> HIDE DEF step
<1>3. step \in [Gaps -> Slot]
  BY <1>1, <1>2
<1> QED BY <1>3 DEF step

LEMMA CappedType ==
    ASSUME NEW slots \in [Gaps -> Slot]
    PROVE  Capped(slots) \in [Gaps -> Slot]
BY SlotShapes DEF Capped

LEMMA PlannedBlanks ==
    ASSUME NEW slots \in [Gaps -> Slot], written \in [Gaps -> Nat]
    PROVE  WithDecisions(slots) \in [Gaps -> Nat]
<1>1. \A slot \in Slot : slot # NoDecision => slot.blanks \in Nat
  BY DEF Slot, Decision
<1> QED BY <1>1 DEF WithDecisions

LEMMA PlannerInit == Init => TypeOK
<1> SUFFICES ASSUME Init PROVE TypeOK
  OBVIOUS
<1>1. PICK inputs \in Inputs :
         \E in \in inputs : /\ cfg = in.cfg /\ list = in.list /\ edge = in.edge
                            /\ written = in.blank /\ blank = in.blank
  BY DEF Init
<1>2. /\ cfg \in Configs /\ IsList(list) /\ edge \in Nat
      /\ written \in [Gaps -> Nat] /\ blank \in [Gaps -> Nat]
  BY <1>1, InputAssumption DEF Gaps, Size
<1>3. Size \in Nat \ {0}
  BY <1>2, LenProperties DEF IsList, Size
<1>4. NoDecisions \in [Gaps -> Slot]
  BY SlotShapes DEF NoDecisions
<1>5. 1 \in 1..(Size + 1) /\ 1 \in 1..Size /\ 0 \in 0..Size
  BY <1>3
<1>6. /\ pc = "validate" /\ decisions = NoDecisions /\ plan = NoDecisions
      /\ cohesive = {} /\ control = 1 /\ changed = FALSE /\ pass = 1
      /\ round = 0 /\ applied = FALSE
  BY DEF Init
<1> QED BY <1>2, <1>4, <1>5, <1>6 DEF TypeOK

LEMMA PlannerStep ==
    ASSUME TypeOK, [Next]_vars PROVE TypeOK'
<1>1. /\ cfg' = cfg /\ list' = list /\ Gaps' = Gaps /\ Size' = Size
      /\ Size \in Nat \ {0}
  <2>1. cfg' = cfg /\ list' = list
    BY InputKept
  <2>2. Size \in Nat \ {0}
    BY LenProperties DEF TypeOK, IsList, Size
  <2> QED BY <2>1, <2>2 DEF Gaps, Size
<1>2. CASE Validate
  BY <1>1, <1>2 DEF Validate, TypeOK, input
<1>3. CASE Build
  <2>1. cohesive' \subseteq Gaps
    BY <1>1, <1>3, GroupsAreGaps DEF Build, Groups
  <2>2. decisions' \in [Gaps -> Slot]
    <3>1. decisions' = [i \in Gaps |-> Winner(i, GapOffers(i, cohesive'))]
      BY <1>3 DEF Build
    <3>2. \A i \in Gaps : Winner(i, GapOffers(i, cohesive')) \in Slot
      BY WinnerType
    <3> QED BY <3>1, <3>2
  <2>3. control' = 1 /\ pass' = 1 /\ changed' = FALSE
    BY <1>3 DEF Build
  <2>4. 1 \in 1..(Size + 1) /\ 1 \in 1..Size
    BY <1>1
  <2> QED BY <1>1, <1>3, <2>1, <2>2, <2>3, <2>4 DEF Build, TypeOK, input
<1>4. CASE SetupControl
  <2> DEFINE c == Min(ControlsFrom(control))
  <2>2. c \in control..Size
    <3>1. ControlsFrom(control) # {} /\ ControlsFrom(control) \subseteq Nat
      BY <1>4 DEF SetupControl, ControlsFrom, TypeOK
    <3>2. c \in ControlsFrom(control)
      BY <3>1, MinIsMember
    <3> QED BY <3>2 DEF ControlsFrom
  <2>3. decisions' = SetupStep(c, decisions, cohesive) /\ control' = c + 1
    BY <1>4 DEF SetupControl
  <2> HIDE DEF c
  <2>4. c \in Nat /\ control' \in 1..(Size + 1)
    BY <1>1, <2>2, <2>3 DEF TypeOK
  <2>5. decisions' \in [Gaps -> Slot]
    BY <2>3, <2>4, SetupStepType DEF TypeOK
  <2>6. changed' \in BOOLEAN
    BY <1>4 DEF SetupControl
  <2> QED BY <1>1, <1>4, <2>4, <2>5, <2>6 DEF SetupControl, TypeOK, input
<1>5. CASE SetupPass
  <2>1. control' \in 1..(Size + 1) /\ pass' \in 1..Size /\ changed' \in BOOLEAN
    <3>1. /\ control \in 1..(Size + 1) /\ pass \in 1..Size /\ changed \in BOOLEAN
          /\ 1 \in 1..(Size + 1)
      BY <1>1 DEF TypeOK
    <3>2. \/ control' = 1 /\ changed' = FALSE /\ pass' = pass + 1 /\ pass < Size
          \/ UNCHANGED <<control, changed, pass>>
      BY <1>5 DEF SetupPass, Again
    <3>3. CASE control' = 1 /\ changed' = FALSE /\ pass' = pass + 1 /\ pass < Size
      <4>1. pass' \in 1..Size
        BY <1>1, <3>1, <3>3
      <4>2. changed' \in BOOLEAN
        BY <3>3, Zenon
      <4> QED BY <3>1, <3>3, <4>1, <4>2
    <3>4. CASE UNCHANGED <<control, changed, pass>>
      <4>1. control' = control /\ changed' = changed /\ pass' = pass
        BY <3>4
      <4> QED BY <3>1, <4>1, Zenon
    <3> QED BY <3>2, <3>3, <3>4
  <2>2. pc' \in {"setup", "close"}
    BY <1>5 DEF SetupPass
  <2> QED BY <1>1, <1>5, <2>1, <2>2 DEF SetupPass, TypeOK, input
<1>6. CASE Close
  <2> DEFINE built == Capped(decisions)
  <2>1. built \in [Gaps -> Slot]
    BY CappedType DEF TypeOK
  <2>2. \/ /\ plan' = built /\ blank' = WithDecisions(built) /\ round' = 1
           /\ pc' = "build"
        \/ /\ plan' = Merged(built) /\ blank' = WithDecisions(Merged(built))
           /\ round' = round + 1 /\ round < Size /\ pc' = "build"
        \/ UNCHANGED <<plan, blank, round>> /\ pc' \in {"planned", "unsettled"}
    BY <1>6 DEF Close, Replan
  <2> HIDE DEF built
  <2>3. Merged(built) \in [Gaps -> Slot]
    BY <2>1 DEF Merged, TypeOK
  <2>4. /\ WithDecisions(built) \in [Gaps -> Nat]
        /\ WithDecisions(Merged(built)) \in [Gaps -> Nat]
    BY <2>1, <2>3, PlannedBlanks DEF TypeOK
  <2>5. plan' \in [Gaps -> Slot] /\ blank' \in [Gaps -> Nat]
    BY <2>1, <2>2, <2>3, <2>4 DEF TypeOK
  <2>6. round' \in 0..Size
    BY <1>1, <2>2 DEF TypeOK
  <2>7. pc' \in {"build", "planned", "unsettled"}
    BY <2>2
  <2> QED BY <1>1, <1>6, <2>5, <2>6, <2>7 DEF Close, TypeOK, input
<1>7. CASE Apply
  <2>1. written' \in [Gaps -> Nat] /\ blank' = written'
    <3>1. \A i \in Findings : plan[i].blanks \in Nat
      BY DEF Findings, TypeOK, Slot, Decision
    <3> QED BY <1>7, <3>1 DEF Apply, TypeOK
  <2>2. plan' \in [Gaps -> Slot]
    BY <1>7, SlotShapes DEF Apply, NoDecisions
  <2>3. edge' \in Nat
    BY <1>7 DEF Apply, TypeOK
  <2>4. round' = 0 /\ applied' = TRUE /\ pc' = "build"
    BY <1>7 DEF Apply
  <2> QED BY <1>1, <1>7, <2>1, <2>2, <2>3, <2>4 DEF Apply, TypeOK
<1>8. CASE Done \/ UNCHANGED vars
  <2>1. UNCHANGED vars
    BY <1>8 DEF Done
  <2> QED BY <1>1, <2>1 DEF vars, TypeOK
<1> QED
  BY <1>2, <1>3, <1>4, <1>5, <1>6, <1>7, <1>8 DEF Next

\* Whatever is planned, decisions have their range, groups are made of gaps of
\* the list, and planning on the planned makes no more rounds and passes than
\* there are statements.
THEOREM PlannerTypes == Spec => []TypeOK
BY PlannerInit, PlannerStep, PTL DEF Spec

-----------------------------------------------------------------------------
(* ClosureReached.  What a control statement puts is in the open group of  *)
(* ordinary statements before it.  No two groups share a gap, and nothing  *)
(* opens a gap: a group that a control statement changes becomes shorter,  *)
(* or the control statement asks for nothing more.                         *)

LEMMA RunStartFacts ==
    ASSUME NEW lo \in Nat, NEW hi \in Nat, lo <= hi, NEW kept
    PROVE  /\ RunStart(lo, hi, kept) \in lo..hi
           /\ RunStart(lo, hi, kept)..(hi - 1) \subseteq kept
           /\ \A s \in lo..hi : s..(hi - 1) \subseteq kept => RunStart(lo, hi, kept) <= s
<1> DEFINE T == {s \in lo..hi : s..(hi - 1) \subseteq kept}
<1>1. T \subseteq Nat
  OBVIOUS
<1>2. hi \in T
  <2>1. hi..(hi - 1) = {}
    OBVIOUS
  <2> QED BY <2>1
<1>3. Min(T) \in T /\ \A s \in T : Min(T) <= s
  <2> HIDE DEF T
  <2> QED BY <1>1, <1>2, MinIsMember
<1>4. RunStart(lo, hi, kept) = Min(T)
  BY DEF RunStart
<1> QED BY <1>3, <1>4

\* The control statements that apply asks, one after the other.
Control(c) == c \in 2..Size /\ U(c).kind = "control"

LEMMA GroupFacts ==
    ASSUME Size \in Nat \ {0}, NEW c, Control(c), NEW slots
    PROVE  /\ GroupStart(c, slots) \in 1..(c - 1)
           /\ \A k \in GroupStart(c, slots)..(c - 2) : Open(slots, k)
           /\ \A s \in 1..(c - 1) :
                 (\A k \in s..(c - 2) : Open(slots, k)) => GroupStart(c, slots) <= s
<1> DEFINE kept == {k \in 1..(c - 2) : Open(slots, k)}
           start == GroupStart(c, slots)
<1>1. c \in Nat /\ c >= 2 /\ c - 1 \in Nat /\ 1 <= c - 1
  BY DEF Control
<1>2. start = RunStart(1, c - 1, kept)
  BY DEF GroupStart
<1>3. /\ RunStart(1, c - 1, kept) \in 1..(c - 1)
      /\ RunStart(1, c - 1, kept)..((c - 1) - 1) \subseteq kept
      /\ \A s \in 1..(c - 1) :
            s..((c - 1) - 1) \subseteq kept => RunStart(1, c - 1, kept) <= s
  <2> HIDE DEF kept
  <2> QED BY <1>1, RunStartFacts
<1>4. (c - 1) - 1 = c - 2
  BY <1>1
<1>5. \A k \in start..(c - 2) : Open(slots, k)
  <2>1. \A k \in start..(c - 2) : k \in kept
    BY <1>2, <1>3, <1>4
  <2> QED BY <2>1
<1>6. ASSUME NEW s \in 1..(c - 1), \A k \in s..(c - 2) : Open(slots, k)
      PROVE  start <= s
  <2>1. s..(c - 2) \subseteq kept
    BY <1>1, <1>6
  <2> QED BY <1>2, <1>3, <1>4, <2>1
<1> QED BY <1>2, <1>3, <1>5, <1>6

\* All gaps of a group that is considered are open.
LEMMA GroupIsOpen ==
    ASSUME Size \in Nat \ {0}, NEW c, Control(c), NEW slots, NEW groups,
           Considered(c, slots, groups)
    PROVE  \A k \in GroupStart(c, slots)..(c - 1) : Open(slots, k)
<1> SUFFICES ASSUME NEW k \in GroupStart(c, slots)..(c - 1) PROVE Open(slots, k)
  OBVIOUS
<1>1. c \in Nat /\ GroupStart(c, slots) \in 1..(c - 1)
  BY GroupFacts DEF Control
<1>2. CASE k = c - 1
  BY <1>2 DEF Considered
<1>3. CASE k # c - 1
  <2>1. k \in GroupStart(c, slots)..(c - 2)
    BY <1>1, <1>3
  <2> QED BY <2>1, GroupFacts
<1> QED BY <1>2, <1>3

-----------------------------------------------------------------------------
LEMMA MovedBackFacts ==
    ASSUME NEW slots, NEW start \in Nat, NEW gap \in Nat, MovedBack(slots, start, gap) # 0
    PROVE  MovedBack(slots, start, gap) \in start..gap
<1> DEFINE T == {k \in start..gap : ~MandatoryJoin(slots[k])}
<1>1. T # {} /\ MovedBack(slots, start, gap) = Max(T)
  BY DEF MovedBack
<1>2. T \subseteq 0..gap
  OBVIOUS
<1>3. Max(T) \in T
  <2> HIDE DEF T
  <2> QED BY <1>1, <1>2, MaxIsMember
<1> QED BY <1>1, <1>3

LEMMA SplitGapFacts ==
    ASSUME Size \in Nat \ {0}, cfg \in Configs, NEW c, Control(c),
           NEW start \in 1..(c - 1), NEW mandatory \in Nat
    PROVE  SplitGap(c, start, mandatory) \in {0} \cup (start..(c - 1))
<1> DEFINE retained == Retained(c, start, mandatory)
<1>1. c \in Nat /\ c >= 2
  BY DEF Control
<1>2. AcceptedStart(c, start) \in start..c /\ AccumulatorStart(c, start) \in start..c
  BY <1>1, RunStartFacts DEF AcceptedStart, AccumulatorStart
<1>3. cfg.max_before_control \in Nat
  BY DEF Configs
<1>4. retained \in Nat
  <2>1. \A x, y \in Nat : Greatest(x, y) \in Nat /\ Least(x, y) \in Nat
    BY DEF Greatest, Least
  <2>2. c - AcceptedStart(c, start) \in Nat /\ c - AccumulatorStart(c, start) \in Nat
    BY <1>1, <1>2
  <2> DEFINE accepted == c - AcceptedStart(c, start)
             limit == cfg.max_before_control
             accumulators == IF SplitsRun(c, c - AccumulatorStart(c, start)) THEN 0
                             ELSE c - AccumulatorStart(c, start)
  <2>3. accumulators \in Nat /\ accepted \in Nat /\ limit \in Nat
    BY <1>3, <2>2
  <2>4. \/ retained = Greatest(Least(accepted, limit), mandatory)
        \/ retained = mandatory
        \/ retained = Greatest(Least(accumulators, limit), mandatory)
    BY DEF Retained
  <2> HIDE DEF accepted, limit, accumulators, retained
  <2>5. Least(accepted, limit) \in Nat /\ Least(accumulators, limit) \in Nat
    BY <2>1, <2>3
  <2>6. /\ Greatest(Least(accepted, limit), mandatory) \in Nat
        /\ Greatest(Least(accumulators, limit), mandatory) \in Nat
    BY <2>1, <2>5
  <2> QED BY <2>4, <2>6
<1>5. \/ SplitGap(c, start, mandatory) = c - retained - 1 /\ c - retained > start
      \/ SplitGap(c, start, mandatory) = c - 1
      \/ SplitGap(c, start, mandatory) = 0
  BY DEF SplitGap
<1> HIDE DEF retained
<1> QED BY <1>1, <1>4, <1>5

\* What is put: a blank line inside the group, or an optional join at its end.
Puts(c, slots, p) ==
    /\ p[1] \in GroupStart(c, slots)..(c - 1)
    /\ \/ p[2] = OptionalJoin("control_flow") /\ p[1] = c - 1
       \/ p[2].blanks = 1

LEMMA GroupPutsFacts ==
    ASSUME Size \in Nat \ {0}, cfg \in Configs, NEW c, Control(c), NEW slots
    PROVE  /\ \A p \in GroupPuts(c, slots) : Puts(c, slots, p)
           /\ \A p, q \in GroupPuts(c, slots) : p[1] = q[1] => p = q
<1> DEFINE start == GroupStart(c, slots)
           atomic == AtomicStart(c, start, slots)
           gap == SplitGap(c, start, c - atomic)
           moved == IF gap = 0 THEN 0 ELSE MovedBack(slots, start, gap)
<1>1. c \in Nat /\ c >= 2 /\ start \in 1..(c - 1)
  BY GroupFacts DEF Control
<1>2. atomic \in start..c
  <2> HIDE DEF start
  <2> QED BY <1>1, RunStartFacts DEF AtomicStart
<1>3. gap \in {0} \cup (start..(c - 1))
  <2>1. c - atomic \in Nat
    BY <1>1, <1>2
  <2> HIDE DEF start, atomic
  <2> QED BY <1>1, <2>1, SplitGapFacts
<1>4. moved = 0 \/ (gap # 0 /\ moved \in start..gap)
  <2> HIDE DEF start, gap
  <2> QED BY <1>1, <1>3, MovedBackFacts
<1>5. \A p \in GroupPuts(c, slots) :
         \/ p = <<c - 1, OptionalJoin("control_flow")>> /\ gap # c - 1
         \/ p = <<moved, Excess(c)>> /\ moved # 0
  BY DEF GroupPuts
<1> HIDE DEF start, atomic, gap, moved
<1>6. Excess(c).blanks = 1
  BY DEF Excess
<1>7. \A p \in GroupPuts(c, slots) : Puts(c, slots, p)
  <2> SUFFICES ASSUME NEW p \in GroupPuts(c, slots) PROVE Puts(c, slots, p)
    OBVIOUS
  <2>1. CASE p = <<c - 1, OptionalJoin("control_flow")>>
    <3>1. p[1] = c - 1 /\ p[2] = OptionalJoin("control_flow")
      BY <2>1
    <3> QED BY <1>1, <3>1 DEF Puts, start
  <2>2. CASE p = <<moved, Excess(c)>> /\ moved # 0
    <3>1. p[1] = moved /\ p[2] = Excess(c)
      BY <2>2
    <3>2. moved \in start..(c - 1)
      BY <1>1, <1>3, <1>4, <2>2
    <3> QED BY <1>6, <3>1, <3>2 DEF Puts, start
  <2> QED BY <1>5, <2>1, <2>2
<1>8. ASSUME NEW p \in GroupPuts(c, slots), NEW q \in GroupPuts(c, slots), p[1] = q[1]
      PROVE  p = q
  <2>1. gap # c - 1 => moved # c - 1
    BY <1>1, <1>3, <1>4
  <2> QED BY <1>5, <1>8, <2>1
<1> QED BY <1>7, <1>8

LEMMA SetupPutsFacts ==
    ASSUME Size \in Nat \ {0}, cfg \in Configs, NEW c, Control(c), NEW slots, NEW groups
    PROVE  /\ \A p \in SetupPuts(c, slots, groups) : Puts(c, slots, p)
           /\ \A p, q \in SetupPuts(c, slots, groups) : p[1] = q[1] => p = q
<1> DEFINE start == GroupStart(c, slots)
           last == <<c - 1, Separate("control_flow", 90)>>
           before == <<c - 2, Separate("control_flow", 90)>>
<1>1. c \in Nat /\ c >= 2 /\ start \in 1..(c - 1)
  BY GroupFacts DEF Control
<1>2. \A rule, n : Separate(rule, n).blanks = 1
  BY DEF Separate
<1>3. Puts(c, slots, last)
  BY <1>1, <1>2 DEF Puts
<1>4. LoopPhase(c, slots) => \A p \in LoopPhasePuts(c, slots) : Puts(c, slots, p)
  <2> SUFFICES ASSUME LoopPhase(c, slots), NEW p \in LoopPhasePuts(c, slots)
               PROVE  Puts(c, slots, p)
    OBVIOUS
  <2>1. c - start > cfg.max_before_control /\ cfg.max_before_control \in Nat
    BY DEF LoopPhase, Configs
  <2>2. p = last \/ (p = before /\ cfg.max_before_control > 0)
    BY DEF LoopPhasePuts
  <2>3. CASE p = before /\ cfg.max_before_control > 0
    <3>1. c - 2 \in start..(c - 1)
      BY <1>1, <2>1, <2>3
    <3> QED BY <1>2, <2>3, <3>1 DEF Puts
  <2> QED BY <1>3, <2>2, <2>3
<1>5. \A p, q \in LoopPhasePuts(c, slots) : p = q
  BY DEF LoopPhasePuts
<1>6. \/ SetupPuts(c, slots, groups) = {}
      \/ SetupPuts(c, slots, groups) = {last}
      \/ LoopPhase(c, slots) /\ SetupPuts(c, slots, groups) = LoopPhasePuts(c, slots)
      \/ SetupPuts(c, slots, groups) = GroupPuts(c, slots)
  BY DEF SetupPuts
<1> HIDE DEF last, before
<1> QED BY <1>3, <1>4, <1>5, <1>6, GroupPutsFacts

-----------------------------------------------------------------------------
\* What c puts is a function of what it sees of the slots in its group.
LEMMA SameView ==
    ASSUME Size \in Nat \ {0}, cfg \in Configs, NEW c, Control(c), NEW groups,
           NEW slots, NEW other, Considered(c, slots, groups),
           \A k \in 1..(c - 1) : Open(other, k) => Open(slots, k),
           \A k \in GroupStart(c, slots)..(c - 1) :
               /\ Open(other, k)
               /\ MandatoryJoin(other[k]) = MandatoryJoin(slots[k])
    PROVE  /\ GroupStart(c, other) = GroupStart(c, slots)
           /\ SetupPuts(c, other, groups) = SetupPuts(c, slots, groups)
<1> DEFINE start == GroupStart(c, slots)
<1>1. c \in Nat /\ c >= 2 /\ start \in 1..(c - 1)
  BY GroupFacts DEF Control
<1>2. GroupStart(c, other) = start
  <2>1. GroupStart(c, other) \in 1..(c - 1)
    BY GroupFacts
  <2>2. GroupStart(c, other) <= start
    <3>1. \A k \in start..(c - 2) : Open(other, k)
      BY <1>1
    <3> QED BY <1>1, <3>1, GroupFacts
  <2>3. start <= GroupStart(c, other)
    <3>1. \A k \in GroupStart(c, other)..(c - 2) : Open(other, k)
      BY GroupFacts
    <3>2. \A k \in GroupStart(c, other)..(c - 2) : Open(slots, k)
      BY <1>1, <2>1, <3>1
    <3> QED BY <2>1, <3>2, GroupFacts
  <2> QED BY <1>1, <2>1, <2>2, <2>3
<1>3. Considered(c, other, groups)
  <2>1. Open(other, c - 1)
    BY <1>1
  <2> QED BY <2>1 DEF Considered
<1> HIDE DEF start
<1>4. /\ LoopPhase(c, other) = LoopPhase(c, slots)
      /\ LoopPhasePuts(c, other) = LoopPhasePuts(c, slots)
  BY <1>2 DEF LoopPhase, LoopPhasePuts, start
<1>5. AtomicStart(c, start, other) = AtomicStart(c, start, slots)
  <2>1. {k \in start..(c - 1) : MandatoryJoin(other[k])}
            = {k \in start..(c - 1) : MandatoryJoin(slots[k])}
    BY DEF start
  <2> QED BY <2>1 DEF AtomicStart
<1>6. AtomicStart(c, start, slots) \in start..c
  BY <1>1, RunStartFacts DEF AtomicStart
<1>7. GroupPuts(c, other) = GroupPuts(c, slots)
  <2> DEFINE gap == SplitGap(c, start, c - AtomicStart(c, start, slots))
  <2>1. gap \in {0} \cup (start..(c - 1))
    <3>1. c - AtomicStart(c, start, slots) \in Nat
      BY <1>1, <1>6
    <3> QED BY <1>1, <3>1, SplitGapFacts
  <2>2. gap # 0 => MovedBack(other, start, gap) = MovedBack(slots, start, gap)
    <3> SUFFICES ASSUME gap # 0
                 PROVE  MovedBack(other, start, gap) = MovedBack(slots, start, gap)
      OBVIOUS
    <3> HIDE DEF gap
    <3>1. \A k \in start..gap : MandatoryJoin(other[k]) = MandatoryJoin(slots[k])
      BY <1>1, <2>1 DEF start
    <3>2. {k \in start..gap : ~MandatoryJoin(other[k])}
              = {k \in start..gap : ~MandatoryJoin(slots[k])}
      BY <3>1
    <3> QED BY <3>2 DEF MovedBack
  <2>3. (IF gap = 0 THEN 0 ELSE MovedBack(other, start, gap))
            = (IF gap = 0 THEN 0 ELSE MovedBack(slots, start, gap))
    BY <2>2
  <2> QED BY <1>2, <1>5, <2>3 DEF GroupPuts, start
<1>8. SetupPuts(c, other, groups) = SetupPuts(c, slots, groups)
  BY <1>3, <1>4, <1>7 DEF SetupPuts
<1> QED BY <1>2, <1>8 DEF start

\* Control statement c asks for nothing on these slots.
Still(c, slots, groups) == SetupStep(c, slots, groups) = slots
NoBids(c, slots, groups) ==
    \A p \in SetupPuts(c, slots, groups) : ~Bids(p[1], slots[p[1]], p[2])

LEMMA PutsAreInGaps ==
    ASSUME Size \in Nat \ {0}, cfg \in Configs, NEW c, Control(c), NEW slots, NEW groups,
           NEW p \in SetupPuts(c, slots, groups)
    PROVE  p[1] \in Gaps
<1>1. c \in 2..Size /\ GroupStart(c, slots) \in 1..(c - 1)
  BY GroupFacts DEF Control
<1>2. p[1] \in GroupStart(c, slots)..(c - 1)
  BY SetupPutsFacts DEF Puts
<1> QED BY <1>1, <1>2 DEF Gaps

\* A step writes each put that bids, and nothing else.
LEMMA StepWrites ==
    ASSUME Size \in Nat \ {0}, cfg \in Configs, NEW c, Control(c), NEW slots, NEW groups
    PROVE  /\ \A p \in SetupPuts(c, slots, groups) :
                 Bids(p[1], slots[p[1]], p[2])
                     => SetupStep(c, slots, groups)[p[1]] = p[2]
           /\ \A i \in Gaps :
                 \/ SetupStep(c, slots, groups)[i] = slots[i]
                 \/ \E p \in SetupPuts(c, slots, groups) :
                       /\ p[1] = i /\ Bids(i, slots[i], p[2])
                       /\ SetupStep(c, slots, groups)[i] = p[2]
<1> DEFINE puts(i) == {p \in SetupPuts(c, slots, groups) :
                          p[1] = i /\ Bids(i, slots[i], p[2])}
           step == SetupStep(c, slots, groups)
<1>1. \A i \in Gaps : step[i] = IF puts(i) = {} THEN slots[i]
                               ELSE (CHOOSE p \in puts(i) : TRUE)[2]
  BY DEF SetupStep
<1>2. ASSUME NEW p \in SetupPuts(c, slots, groups), Bids(p[1], slots[p[1]], p[2])
      PROVE  step[p[1]] = p[2]
  <2>1. p[1] \in Gaps
    BY PutsAreInGaps
  <2>2. p \in puts(p[1])
    BY <1>2
  <2>3. \A q \in puts(p[1]) : q = p
    BY SetupPutsFacts
  <2>4. (CHOOSE q \in puts(p[1]) : TRUE) = p
    BY <2>2, <2>3
  <2> HIDE DEF step, puts
  <2> QED BY <1>1, <2>1, <2>2, <2>4
<1>3. ASSUME NEW i \in Gaps, step[i] # slots[i]
      PROVE  \E p \in SetupPuts(c, slots, groups) :
                 p[1] = i /\ Bids(i, slots[i], p[2]) /\ step[i] = p[2]
  <2> DEFINE q == CHOOSE q \in puts(i) : TRUE
  <2>1. puts(i) # {} /\ step[i] = q[2]
    BY <1>1, <1>3
  <2>2. q \in puts(i)
    BY <2>1
  <2> HIDE DEF q, step
  <2> QED BY <2>1, <2>2
<1> HIDE DEF step
<1> QED BY <1>2, <1>3 DEF step

LEMMA StillIsNoBids ==
    ASSUME Size \in Nat \ {0}, cfg \in Configs, NEW c, Control(c),
           NEW slots \in [Gaps -> Slot], NEW groups
    PROVE  Still(c, slots, groups) <=> NoBids(c, slots, groups)
<1>1. ASSUME NoBids(c, slots, groups) PROVE Still(c, slots, groups)
  <2>1. \A i \in Gaps : SetupStep(c, slots, groups)[i] = slots[i]
    BY <1>1, StepWrites DEF NoBids
  <2>2. SetupStep(c, slots, groups) = [i \in Gaps |-> SetupStep(c, slots, groups)[i]]
    BY DEF SetupStep
  <2>3. slots = [i \in Gaps |-> slots[i]]
    OBVIOUS
  <2> QED BY <2>1, <2>2, <2>3 DEF Still
<1>2. ASSUME Still(c, slots, groups), NEW p \in SetupPuts(c, slots, groups),
             Bids(p[1], slots[p[1]], p[2])
      PROVE  FALSE
  <2>1. slots[p[1]] = p[2]
    BY <1>2, StepWrites DEF Still
  <2>2. p[1] \in Gaps
    BY PutsAreInGaps
  <2>3. slots[p[1]].priority \in Int
    BY <2>2 DEF Slot, Decision, NoDecision
  <2>4. slots[p[1]].priority < p[2].priority
    BY <1>2 DEF Bids
  <2> QED BY <2>1, <2>3, <2>4
<1> QED BY <1>1, <1>2 DEF NoBids

-----------------------------------------------------------------------------
\* What is put on an open gap of the group leaves it open or closes it.
LEMMA StepChanges ==
    ASSUME Size \in Nat \ {0}, cfg \in Configs, NEW c, Control(c), NEW slots, NEW groups,
           NEW i \in Gaps, SetupStep(c, slots, groups)[i] # slots[i]
    PROVE  /\ Considered(c, slots, groups)
           /\ i \in GroupStart(c, slots)..(c - 1)
           /\ Open(slots, i)
<1>1. PICK p \in SetupPuts(c, slots, groups) : p[1] = i
  BY StepWrites
<1>2. Considered(c, slots, groups)
  BY <1>1 DEF SetupPuts
<1>3. i \in GroupStart(c, slots)..(c - 1)
  BY <1>1, SetupPutsFacts DEF Puts
<1> QED BY <1>2, <1>3, GroupIsOpen

LEMMA NothingOpens ==
    ASSUME Size \in Nat \ {0}, cfg \in Configs, NEW c, Control(c), NEW slots, NEW groups,
           NEW i \in Gaps, Open(SetupStep(c, slots, groups), i)
    PROVE  Open(slots, i)
<1> DEFINE step == SetupStep(c, slots, groups)
<1>1. CASE step[i] # slots[i]
  BY <1>1, StepChanges
<1>2. CASE step[i] = slots[i]
  <2> HIDE DEF step
  <2>1. EffectiveBlank(step, i) = EffectiveBlank(slots, i)
    BY <1>2 DEF EffectiveBlank
  <2> QED BY <2>1 DEF Open, step
<1> QED BY <1>1, <1>2

\* A blank line closes its gap.
LEMMA SeparatedIsClosed ==
    ASSUME NEW slots, NEW i, slots[i].blanks = 1 PROVE ~Open(slots, i)
<1>1. slots[i] # NoDecision
  BY DEF NoDecision
<1> QED BY <1>1 DEF Open, EffectiveBlank

\* No two groups share a gap: no control statement is inside a group.
LEMMA GroupsAreApart ==
    ASSUME Size \in Nat \ {0}, NEW c, Control(c), NEW d, Control(d), c # d,
           NEW slots, NEW groups, Considered(c, slots, groups),
           NEW i \in GroupStart(c, slots)..(c - 1), i < d
    PROVE  c < d
<1> SUFFICES ASSUME d < c PROVE FALSE
  BY DEF Control
<1>1. /\ c \in Nat /\ d \in Nat /\ i \in Nat
      /\ GroupStart(c, slots) \in 1..(c - 1)
  BY GroupFacts DEF Control
<1>2. d \in GroupStart(c, slots)..(c - 1)
  BY <1>1
<1>3. Open(slots, d)
  BY <1>2, GroupIsOpen
<1>4. Ordinary(U(d)) /\ U(d).kind = "control"
  BY <1>3 DEF Open, Control
<1> QED BY <1>4 DEF Ordinary

\* A step of d leaves the group of c as it is.
LEMMA OthersKeep ==
    ASSUME Size \in Nat \ {0}, cfg \in Configs,
           NEW c, Control(c), NEW d, Control(d), c # d,
           NEW slots \in [Gaps -> Slot], NEW groups
    PROVE  LET other == SetupStep(d, slots, groups)
           IN  /\ Still(c, slots, groups) => Still(c, other, groups)
               /\ \/ Still(c, other, groups)
                  \/ GroupStart(c, other) = GroupStart(c, slots)
<1> DEFINE other == SetupStep(d, slots, groups)
<1>1. /\ c \in Nat /\ c >= 2 /\ c <= Size /\ d \in Nat
      /\ GroupStart(c, slots) \in 1..(c - 1)
  BY GroupFacts DEF Control
<1>2. other \in [Gaps -> Slot]
  BY <1>1, SetupStepType
<1>3. \A k \in 1..(c - 1) : k \in Gaps
  BY <1>1 DEF Gaps
<1>4. \A k \in 1..(c - 1) : Open(other, k) => Open(slots, k)
  BY <1>3, NothingOpens
<1>5. CASE ~Considered(c, slots, groups)
  <2>1. ~Considered(c, other, groups)
    <3>1. Open(other, c - 1) => Open(slots, c - 1)
      BY <1>1, <1>4
    <3> HIDE DEF other
    <3> QED BY <1>5, <3>1 DEF Considered
  <2>2. SetupPuts(c, other, groups) = {}
    <3> HIDE DEF other
    <3> QED BY <2>1 DEF SetupPuts
  <2>3. NoBids(c, other, groups)
    <3> HIDE DEF other
    <3> QED BY <2>2 DEF NoBids
  <2>4. Still(c, other, groups)
    <3> HIDE DEF other
    <3> QED BY <1>2, <2>3, StillIsNoBids
  <2> QED BY <2>4
<1>6. CASE Considered(c, slots, groups)
  <2>1. ASSUME NEW k \in GroupStart(c, slots)..(c - 1) PROVE other[k] = slots[k]
    <3> SUFFICES ASSUME other[k] # slots[k] PROVE FALSE
      OBVIOUS
    <3>1. k \in Gaps /\ k \in Nat
      BY <1>1, <1>3
    <3>2. Considered(d, slots, groups) /\ k \in GroupStart(d, slots)..(d - 1)
      BY <3>1, StepChanges
    <3>3. GroupStart(d, slots) \in 1..(d - 1)
      BY GroupFacts
    <3>4. k < d /\ k < c
      BY <1>1, <3>1, <3>2, <3>3
    <3>5. c < d
      BY <1>6, <3>4, GroupsAreApart
    <3>6. d < c
      BY <3>2, <3>4, GroupsAreApart
    <3> QED BY <1>1, <3>5, <3>6
  <2> HIDE DEF other
  <2>2. ASSUME NEW k \in GroupStart(c, slots)..(c - 1)
        PROVE  /\ Open(other, k)
               /\ MandatoryJoin(other[k]) = MandatoryJoin(slots[k])
    <3>1. Open(slots, k)
      BY <1>6, GroupIsOpen
    <3>2. EffectiveBlank(other, k) = EffectiveBlank(slots, k)
      BY <2>1 DEF EffectiveBlank
    <3> QED BY <2>1, <3>1, <3>2 DEF Open
  <2>3. /\ GroupStart(c, other) = GroupStart(c, slots)
        /\ SetupPuts(c, other, groups) = SetupPuts(c, slots, groups)
    BY <1>4, <1>6, <2>2, SameView
  <2>4. ASSUME NoBids(c, slots, groups) PROVE NoBids(c, other, groups)
    <3>1. \A p \in SetupPuts(c, slots, groups) : other[p[1]] = slots[p[1]]
      BY <2>1, SetupPutsFacts DEF Puts
    <3> QED BY <2>3, <2>4, <3>1 DEF NoBids
  <2> QED BY <1>2, <2>3, <2>4, StillIsNoBids DEF other
<1> QED BY <1>5, <1>6

\* A step of c is its last, or leaves it a shorter group.
LEMMA OwnStep ==
    ASSUME Size \in Nat \ {0}, cfg \in Configs, NEW c, Control(c),
           NEW slots \in [Gaps -> Slot], NEW groups
    PROVE  LET other == SetupStep(c, slots, groups)
           IN  \/ Still(c, other, groups)
               \/ GroupStart(c, other) > GroupStart(c, slots)
<1> DEFINE other == SetupStep(c, slots, groups)
           start == GroupStart(c, slots)
           puts == SetupPuts(c, slots, groups)
<1>1. /\ c \in Nat /\ c >= 2 /\ c <= Size
      /\ start \in 1..(c - 1) /\ GroupStart(c, other) \in 1..(c - 1)
  BY GroupFacts DEF Control
<1>2. other \in [Gaps -> Slot]
  BY <1>1, SetupStepType
<1>3. \A k \in 1..(c - 1) : k \in Gaps
  BY <1>1 DEF Gaps
<1>4. \A k \in 1..(c - 1) : Open(other, k) => Open(slots, k)
  BY <1>3, NothingOpens
<1>5. CASE NoBids(c, slots, groups)
  <2>1. other = slots
    BY <1>5, StillIsNoBids DEF Still
  <2>2. Still(c, slots, groups)
    BY <1>5, StillIsNoBids
  <2> HIDE DEF other
  <2> QED BY <2>1, <2>2 DEF other
<1>6. CASE \E p \in puts : Bids(p[1], slots[p[1]], p[2]) /\ p[2].blanks = 1
  <2>1. PICK p \in puts : Bids(p[1], slots[p[1]], p[2]) /\ p[2].blanks = 1
    BY <1>6
  <2>2. other[p[1]] = p[2] /\ p[1] \in start..(c - 1)
    BY <2>1, StepWrites, SetupPutsFacts DEF Puts
  <2>3. ~Open(other, p[1])
    <3> HIDE DEF other
    <3> QED BY <2>1, <2>2, SeparatedIsClosed
  <2>4. CASE p[1] = c - 1
    <3> HIDE DEF other
    <3>1. ~Considered(c, other, groups)
      BY <2>3, <2>4 DEF Considered
    <3>2. NoBids(c, other, groups)
      BY <3>1 DEF NoBids, SetupPuts
    <3>3. Still(c, other, groups)
      BY <1>2, <3>2, StillIsNoBids
    <3> QED BY <3>3 DEF other
  <2>5. CASE p[1] # c - 1
    <3> HIDE DEF other
    <3>1. p[1] \in start..(c - 2)
      BY <1>1, <2>2, <2>5
    <3>2. ~(p[1] \in GroupStart(c, other)..(c - 2))
      BY <2>3, GroupFacts
    <3>3. GroupStart(c, other) > start
      BY <1>1, <3>1, <3>2
    <3> QED BY <3>3 DEF other
  <2> QED BY <2>4, <2>5
<1>7. CASE /\ ~NoBids(c, slots, groups)
           /\ \A p \in puts : ~(Bids(p[1], slots[p[1]], p[2]) /\ p[2].blanks = 1)
  <2> DEFINE join == OptionalJoin("control_flow")
  <2>1. Considered(c, slots, groups)
    BY <1>7 DEF NoBids, SetupPuts
  <2>2. \A i \in Gaps : other[i] = slots[i] \/ (i = c - 1 /\ other[i] = join)
    <3> SUFFICES ASSUME NEW i \in Gaps, other[i] # slots[i]
                 PROVE  i = c - 1 /\ other[i] = join
      OBVIOUS
    <3>1. PICK p \in puts : /\ p[1] = i /\ Bids(i, slots[i], p[2])
                            /\ other[i] = p[2]
      BY StepWrites
    <3>2. p[2] = join /\ p[1] = c - 1
      BY <1>7, <3>1, SetupPutsFacts DEF Puts
    <3> QED BY <3>1, <3>2
  <2>3. \A i \in Gaps : MandatoryJoin(other[i]) = MandatoryJoin(slots[i])
    <3>1. ASSUME NEW i \in Gaps, other[i] # slots[i]
          PROVE  ~MandatoryJoin(other[i]) /\ ~MandatoryJoin(slots[i])
      <4>1. ~MandatoryJoin(slots[i])
        BY <3>1, JoinOutbids
      <4>2. other[i] = join /\ join.priority = 20
        BY <2>2, <3>1 DEF OptionalJoin, Join
      <4> HIDE DEF other
      <4>3. ~MandatoryJoin(other[i])
        BY <4>2 DEF MandatoryJoin
      <4> QED BY <4>1, <4>3
    <3> HIDE DEF other, join
    <3>2. ASSUME NEW i \in Gaps PROVE MandatoryJoin(other[i]) = MandatoryJoin(slots[i])
      BY <3>1 DEF MandatoryJoin
    <3> QED BY <3>2
  <2> HIDE DEF other, start, puts
  <2>4. join # NoDecision /\ join.blanks = 0
    BY DEF OptionalJoin, Join, NoDecision
  <2>5. ASSUME NEW k \in start..(c - 1) PROVE Open(other, k)
    <3>1. k \in Gaps /\ Open(slots, k)
      BY <1>1, <1>3, <2>1, GroupIsOpen DEF start
    <3>2. EffectiveBlank(slots, k) = 0
      BY <3>1 DEF Open
    <3>3. EffectiveBlank(other, k) = 0
      <4>1. CASE other[k] = slots[k]
        BY <3>2, <4>1 DEF EffectiveBlank
      <4>2. CASE other[k] = join
        BY <2>4, <4>2 DEF EffectiveBlank
      <4> QED BY <2>2, <3>1, <4>1, <4>2
    <3> QED BY <3>1, <3>3 DEF Open
  <2>6. SetupPuts(c, other, groups) = puts
    <3>1. \A k \in start..(c - 1) : MandatoryJoin(other[k]) = MandatoryJoin(slots[k])
      BY <1>1, <1>3, <2>3
    <3> QED BY <1>4, <2>1, <2>5, <3>1, SameView DEF start, puts
  <2>7. NoBids(c, other, groups)
    <3> SUFFICES ASSUME NEW p \in puts, Bids(p[1], other[p[1]], p[2]) PROVE FALSE
      BY <2>6 DEF NoBids
    <3>1. p[1] \in Gaps
      BY PutsAreInGaps DEF puts
    <3>2. CASE other[p[1]] = slots[p[1]]
      <4>1. other[p[1]] = p[2]
        BY <3>2, StepWrites DEF puts, other
      <4>2. other[p[1]].priority \in Int
        BY <1>2, <3>1 DEF Slot, Decision, NoDecision
      <4>3. other[p[1]].priority < p[2].priority
        BY DEF Bids
      <4> QED BY <4>1, <4>2, <4>3
    <3>3. CASE other[p[1]] # slots[p[1]]
      <4>1. PICK q \in puts : q[1] = p[1] /\ other[p[1]] = q[2]
        BY <3>1, <3>3, StepWrites DEF puts, other
      <4>2. q = p
        BY <4>1, SetupPutsFacts DEF puts
      <4>3. other[p[1]].priority \in Int
        BY <1>2, <3>1 DEF Slot, Decision, NoDecision
      <4>4. other[p[1]].priority < p[2].priority
        BY DEF Bids
      <4> QED BY <4>1, <4>2, <4>3, <4>4
    <3> QED BY <3>2, <3>3
  <2>8. Still(c, other, groups)
    BY <1>2, <2>7, StillIsNoBids
  <2> QED BY <2>8 DEF other
<1> QED BY <1>5, <1>6, <1>7

-----------------------------------------------------------------------------
\* Each pass closes a gap before a control statement that is not done; before
\* the last statement there are fewer gaps than there are passes.
Progress ==
    pc \in {"setup", "close"} =>
        \A c \in 2..Size : Control(c) =>
            /\ \/ Still(c, decisions, cohesive)
               \/ GroupStart(c, decisions) >= pass + (IF c < control THEN 1 ELSE 0)
            /\ c < control /\ ~changed => Still(c, decisions, cohesive)
            /\ pc = "close" => Still(c, decisions, cohesive)

LEMMA ProgressStep ==
    ASSUME TypeOK, Progress, SetupControl
    PROVE  pc' = "setup" /\ pc = "setup" /\
           \A d \in 2..Size : Control(d) =>
            /\ \/ Still(d, decisions', cohesive)
               \/ GroupStart(d, decisions') >= pass + (IF d < control' THEN 1 ELSE 0)
            /\ d < control' /\ ~changed' => Still(d, decisions', cohesive)
<1> DEFINE c == Min(ControlsFrom(control))
<1>1. Size \in Nat \ {0} /\ cfg \in Configs /\ decisions \in [Gaps -> Slot]
  BY LenProperties DEF TypeOK, IsList, Size
<1>2. control \in Nat \ {0} /\ pass \in Nat
  BY <1>1 DEF TypeOK
<1>3. c \in ControlsFrom(control) /\ \A d \in ControlsFrom(control) : c <= d
  <2>1. ControlsFrom(control) # {} /\ ControlsFrom(control) \subseteq Nat
    BY <1>2 DEF SetupControl, ControlsFrom
  <2> QED BY <2>1, MinIsMember
<1>4. /\ decisions' = SetupStep(c, decisions, cohesive) /\ control' = c + 1
      /\ changed' = (changed \/ decisions' # decisions)
      /\ pc = "setup" /\ pc' = pc
  BY DEF SetupControl
<1> HIDE DEF c
<1>5. Control(c) /\ c \in Nat /\ control <= c
  BY <1>1, <1>2, <1>3 DEF Control, ControlsFrom
<1>6. ASSUME NEW d \in 2..Size, Control(d), d < control', d # c PROVE d < control
  <2>1. d < c
    BY <1>4, <1>5, <1>6
  <2>2. d \notin ControlsFrom(control)
    BY <1>3, <1>5, <2>1
  <2> QED BY <1>2, <1>6, <2>2 DEF ControlsFrom, Control
<1>7. ASSUME NEW d \in 2..Size, Control(d)
      PROVE  /\ \/ Still(d, decisions, cohesive)
                \/ GroupStart(d, decisions) >= pass + (IF d < control THEN 1 ELSE 0)
             /\ d < control /\ ~changed => Still(d, decisions, cohesive)
  BY <1>4, <1>7 DEF Progress
<1>8. ASSUME NEW d \in 2..Size, Control(d)
      PROVE  GroupStart(d, decisions) \in Nat /\ GroupStart(d, decisions') \in Nat
  <2>1. \A slots : GroupStart(d, slots) \in 1..(d - 1)
    BY <1>1, <1>8, GroupFacts
  <2> QED BY <2>1
<1>9. ASSUME NEW d \in 2..Size, Control(d)
      PROVE  \/ Still(d, decisions', cohesive)
             \/ GroupStart(d, decisions') >= pass + (IF d < control' THEN 1 ELSE 0)
  <2>1. CASE d = c
    <3>1. \/ Still(c, decisions', cohesive)
          \/ GroupStart(c, decisions') > GroupStart(c, decisions)
      BY <1>1, <1>4, <1>5, OwnStep
    <3>2. Still(c, decisions, cohesive) => Still(c, decisions', cohesive)
      BY <1>4 DEF Still
    <3>3. ~(c < control)
      BY <1>2, <1>5
    <3> QED BY <1>2, <1>7, <1>8, <1>9, <2>1, <3>1, <3>2, <3>3
  <2>2. CASE d # c
    <3>1. /\ Still(d, decisions, cohesive) => Still(d, decisions', cohesive)
          /\ \/ Still(d, decisions', cohesive)
             \/ GroupStart(d, decisions') = GroupStart(d, decisions)
      BY <1>1, <1>4, <1>5, <1>9, <2>2, OthersKeep
    <3>2. d < control' => d < control
      BY <1>6, <1>9, <2>2
    <3> QED BY <1>2, <1>7, <1>8, <1>9, <3>1, <3>2
  <2> QED BY <2>1, <2>2
<1>10. ASSUME NEW d \in 2..Size, Control(d), d < control', ~changed'
       PROVE  Still(d, decisions', cohesive)
  <2>1. decisions' = decisions /\ ~changed
    BY <1>4, <1>10
  <2>2. CASE d = c
    BY <1>4, <2>1, <2>2 DEF Still
  <2>3. CASE d # c
    BY <1>6, <1>7, <1>10, <2>1, <2>3
  <2> QED BY <2>2, <2>3
<1> QED BY <1>4, <1>9, <1>10

\* The end of a pass, in which all control statements were asked.
LEMMA ProgressPass ==
    ASSUME TypeOK, Progress, SetupPass
    PROVE  \A d \in 2..Size : Control(d) =>
            /\ \/ Still(d, decisions, cohesive)
               \/ GroupStart(d, decisions) >= pass' + (IF d < control' THEN 1 ELSE 0)
            /\ d < control' /\ ~changed' => Still(d, decisions, cohesive)
            /\ pc' = "close" => Still(d, decisions, cohesive)
<1>1. Size \in Nat \ {0} /\ control \in Nat \ {0} /\ pass \in 1..Size
  BY LenProperties DEF TypeOK, IsList, Size
<1>2. ControlsFrom(control) = {} /\ pc = "setup"
  BY DEF SetupPass
<1> SUFFICES ASSUME NEW d \in 2..Size, Control(d)
             PROVE  /\ \/ Still(d, decisions, cohesive)
                       \/ GroupStart(d, decisions) >= pass' + (IF d < control' THEN 1 ELSE 0)
                    /\ d < control' /\ ~changed' => Still(d, decisions, cohesive)
                    /\ pc' = "close" => Still(d, decisions, cohesive)
  OBVIOUS
<1>3. d < control
  BY <1>1, <1>2 DEF ControlsFrom, Control
<1>4. GroupStart(d, decisions) \in 1..(d - 1)
  BY <1>1, GroupFacts
<1>5. /\ \/ Still(d, decisions, cohesive)
         \/ GroupStart(d, decisions) >= pass + 1
      /\ ~changed => Still(d, decisions, cohesive)
  BY <1>2, <1>3 DEF Progress
<1>6. CASE changed /\ pass < Size
  <2>1. control' = 1 /\ pass' = pass + 1 /\ pc' = "setup"
    BY <1>2, <1>6 DEF SetupPass, Again
  <2> QED BY <1>1, <1>4, <1>5, <2>1
<1>7. CASE ~(changed /\ pass < Size)
  <2>1. Still(d, decisions, cohesive)
    BY <1>1, <1>4, <1>5, <1>7
  <2> QED BY <2>1
<1> QED BY <1>6, <1>7
-----------------------------------------------------------------------------
(* What the rules ask for depends on the statements, on the configuration, *)
(* and on the blank lines only as far as they make a gap tight or open.    *)

SameSight ==
    /\ cfg' = cfg /\ list' = list /\ Tight' = Tight
    /\ \A slots : \A k \in Gaps : Open(slots, k)' = Open(slots, k)

LEMMA SameBlanks ==
    ASSUME UNCHANGED <<cfg, list, blank>> PROVE SameSight
<1>1. cfg' = cfg /\ list' = list /\ blank' = blank
  OBVIOUS
<1>2. Tight' = Tight
  BY <1>1 DEF Tight, Gaps, Size
<1>3. \A slots, k : Open(slots, k)' = Open(slots, k)
  BY <1>1 DEF Blocked, EffectiveBlank, NoDecision, Open, Ordinary, U
<1> QED BY <1>1, <1>2, <1>3 DEF SameSight

LEMMA SameGroupStart ==
    ASSUME SameSight, NEW c, Control(c), Size \in Nat \ {0}, NEW slots
    PROVE  GroupStart(c, slots)' = GroupStart(c, slots)
<1>1. c \in Nat /\ c <= Size
  BY DEF Control
<1>2. \A k \in 1..(c - 2) : Open(slots, k)' = Open(slots, k)
  BY <1>1 DEF SameSight, Gaps
<1>3. {k \in 1..(c - 2) : Open(slots, k)'} = {k \in 1..(c - 2) : Open(slots, k)}
  BY <1>2
<1> QED BY <1>3 DEF GroupStart, RunStart

LEMMA SameGroupPuts ==
    ASSUME SameSight, NEW c, Control(c), Size \in Nat \ {0}, NEW slots
    PROVE  GroupPuts(c, slots)' = GroupPuts(c, slots)
<1>0. cfg' = cfg /\ list' = list
  BY DEF SameSight
<1>1. GroupStart(c, slots)' = GroupStart(c, slots)
  BY SameGroupStart
<1>2. \A start : AtomicStart(c, start, slots)' = AtomicStart(c, start, slots)
  BY DEF AtomicStart, MandatoryJoin, RunStart
<1>3. ASSUME NEW start, NEW m PROVE SplitGap(c, start, m)' = SplitGap(c, start, m)
  BY <1>0 DEF AcceptedStart, Accepts, AccumulatorStart, CompactItems,
         CompactPolicy, ConditionalSplit, ControlInputs, CoveredBy,
         ExecutableCount, Fresh, Greatest, InitializesState, IsItem,
         ItemKinds, Least, Meets, Multiline, Outputs, PlacesOverlap,
         Provided, Retained, RunStart, Size, SplitGap, Splits, SplitsRun,
         SubstantialLoop, TraversalSplit, U, UpdatedBy
<1>4. \A start, gap : MovedBack(slots, start, gap)' = MovedBack(slots, start, gap)
  BY DEF MandatoryJoin, MovedBack
<1>5. \A start : AcceptedStart(c, start)' = AcceptedStart(c, start)
  BY <1>0 DEF AcceptedStart, Accepts, CompactPolicy, ControlInputs,
         InitializesState, Meets, Outputs, PlacesOverlap, Provided,
         RunStart, U, UpdatedBy
<1>6. \A start : JoinsAccumulator(c, start)' = JoinsAccumulator(c, start)
  BY <1>0 DEF Accepts, AccumulatorStart, CompactItems, CompactPolicy,
         ControlInputs, ExecutableCount, Fresh, InitializesState, IsItem,
         ItemKinds, JoinsAccumulator, Meets, Outputs, PlacesOverlap,
         Provided, RunStart, Size, SubstantialLoop, U, UpdatedBy
<1>7. UnknownSetup(c)' = UnknownSetup(c)
  BY <1>0 DEF CompactPolicy, InitializesState, Meets, Outputs, PlacesOverlap, U,
         UnknownSetup, UpdatedBy
<1>8. UnrelatedDespiteUnknown(c)' = UnrelatedDespiteUnknown(c)
  BY <1>0 DEF Meets, Outputs, PlacesOverlap, U, UnrelatedDespiteUnknown
<1>9. PICK start : start = GroupStart(c, slots)
  OBVIOUS
<1>10. PICK atomic : atomic = AtomicStart(c, start, slots)
  OBVIOUS
<1>11. PICK gap : gap = SplitGap(c, start, c - atomic)
  OBVIOUS
<1> DEFINE puts ==
        IF /\ UnknownSetup(c) /\ AcceptedStart(c, start) = c
           /\ cfg.max_before_control # 0 /\ ~UnrelatedDespiteUnknown(c)
        THEN {}
        ELSE (IF JoinsAccumulator(c, start) /\ gap # c - 1
              THEN {<<c - 1, OptionalJoin("control_flow")>>} ELSE {})
             \cup (IF (IF gap = 0 THEN 0 ELSE MovedBack(slots, start, gap)) = 0 THEN {}
                   ELSE {<<IF gap = 0 THEN 0 ELSE MovedBack(slots, start, gap), Excess(c)>>})
<1>12. GroupPuts(c, slots) = puts
  BY <1>9, <1>10, <1>11 DEF GroupPuts
<1>13. GroupPuts(c, slots)' = puts'
  <2>1. GroupStart(c, slots)' = start
    BY <1>1, <1>9
  <2>2. AtomicStart(c, start, slots)' = atomic
    BY <1>2, <1>10
  <2>3. SplitGap(c, start, c - atomic)' = gap
    BY <1>3, <1>11
  <2> QED BY <2>1, <2>2, <2>3 DEF GroupPuts
<1>14. puts' = puts
  <2>1. Excess(c)' = Excess(c) /\ OptionalJoin("control_flow")' = OptionalJoin("control_flow")
    BY DEF Excess, OptionalJoin, Join
  <2> QED BY <1>0, <1>4, <1>5, <1>6, <1>7, <1>8, <2>1
<1> QED
  BY <1>12, <1>13, <1>14

LEMMA SameLoopPhase ==
    ASSUME SameSight, NEW c, Control(c), Size \in Nat \ {0}, NEW slots
    PROVE  /\ LoopPhase(c, slots)' = LoopPhase(c, slots)
           /\ LoopPhasePuts(c, slots)' = LoopPhasePuts(c, slots)
<1>1. cfg' = cfg /\ list' = list
  BY DEF SameSight
<1>2. GroupStart(c, slots)' = GroupStart(c, slots)
  BY SameGroupStart
<1>3. LoopPhase(c, slots)' = LoopPhase(c, slots)
  BY <1>1, <1>2 DEF IsBinding, LoopPhase, U
<1> DEFINE scalars(s) == {k \in s..(c - 1) :
                             U(k).kind = "let" /\ U(k).mutable /\ U(k).form = "literal"}
<1>4. ASSUME NEW s PROVE scalars(s)' = scalars(s)
  BY <1>1 DEF U
<1>5. ASSUME NEW run PROVE SplitsRun(c, run)' = SplitsRun(c, run)
  BY <1>1 DEF CompactItems, ExecutableCount, IsItem, ItemKinds, Size, SplitsRun,
              SubstantialLoop, U
<1>6. Meets(U(c - 1).definitions, UpdatedBy(U(c)))'
          = Meets(U(c - 1).definitions, UpdatedBy(U(c)))
  BY <1>1 DEF Meets, PlacesOverlap, U, UpdatedBy
<1>7. LoopPhasePuts(c, slots)' = LoopPhasePuts(c, slots)
  <2>1. PICK s : s = GroupStart(c, slots)
    OBVIOUS
  <2>2. GroupStart(c, slots)' = s
    BY <1>2, <2>1
  <2>3. PICK S : S = scalars(s)
    OBVIOUS
  <2>4. scalars(GroupStart(c, slots)) = S
    BY <2>1, <2>3
  <2>5. scalars(GroupStart(c, slots))' = S
    <3>1. scalars(s)' = S
      BY <1>4, <2>3
    <3> QED BY <2>2, <3>1
  <2> HIDE DEF scalars
  <2>6. Cardinality(scalars(GroupStart(c, slots)))'
            = Cardinality(scalars(GroupStart(c, slots)))
    BY <2>4, <2>5
  <2>7. SplitsRun(c, c - GroupStart(c, slots))' = SplitsRun(c, c - GroupStart(c, slots))
    <3>1. PICK run : run = c - s
      OBVIOUS
    <3>2. SplitsRun(c, run)' = SplitsRun(c, run)
      BY <1>5
    <3> QED BY <2>1, <2>2, <3>1, <3>2
  <2>8. U(c - 1)' = U(c - 1) /\ cfg.max_before_control' = cfg.max_before_control
    BY <1>1 DEF U
  <2> QED BY <1>6, <2>6, <2>7, <2>8 DEF LoopPhasePuts, scalars, Separate
<1> QED BY <1>3, <1>7

LEMMA SameSetup ==
    ASSUME SameSight, NEW c, Control(c), Size \in Nat \ {0}, NEW slots, NEW groups
    PROVE  SetupStep(c, slots, groups)' = SetupStep(c, slots, groups)
<1>1. cfg' = cfg /\ list' = list
  BY DEF SameSight
<1>2. Considered(c, slots, groups)' = Considered(c, slots, groups)
  <2>1. c - 1 \in Gaps
    BY DEF Control, Gaps
  <2>2. Open(slots, c - 1)' = Open(slots, c - 1)
    BY <2>1 DEF SameSight
  <2> QED
    BY <1>1, <2>2 DEF CompactPolicy, Considered, Enabled, EnabledRules, GuardPair, Mutates, U
<1>3. ValidatesOperation(c)' = ValidatesOperation(c)
  BY <1>1 DEF CompactPolicy, Meets, PlacesOverlap, U, ValidatesOperation
<1>4. ValidationStages' = ValidationStages
  BY <1>1 DEF Size, U, ValidationStages
<1>5. /\ LoopPhase(c, slots)' = LoopPhase(c, slots)
      /\ LoopPhasePuts(c, slots)' = LoopPhasePuts(c, slots)
  BY SameLoopPhase
<1>6. GroupPuts(c, slots)' = GroupPuts(c, slots)
  BY SameGroupPuts
<1>7. SetupPuts(c, slots, groups)' = SetupPuts(c, slots, groups)
  BY <1>1, <1>2, <1>3, <1>4, <1>5, <1>6 DEF SetupPuts, U, UpdatedBy, Separate
<1>8. \A i, slot, d : Bids(i, slot, d)' = Bids(i, slot, d)
  BY <1>1 DEF Bids, Blocked, Enabled, EnabledRules, U
<1>9. Gaps' = Gaps
  BY <1>1 DEF Gaps, Size
<1> DEFINE puts(i) == {p \in SetupPuts(c, slots, groups) :
                          p[1] = i /\ Bids(i, slots[i], p[2])}
           slot(i) == IF puts(i) = {} THEN slots[i] ELSE (CHOOSE p \in puts(i) : TRUE)[2]
<1>10. ASSUME NEW i PROVE puts(i)' = puts(i)
  BY <1>7, <1>8
<1>11. SetupStep(c, slots, groups) = [i \in Gaps |-> slot(i)]
  BY DEF SetupStep
<1>12. SetupStep(c, slots, groups)' = [i \in Gaps' |-> slot(i)']
  BY DEF SetupStep
<1>13. ASSUME NEW i PROVE slot(i)' = slot(i)
  <2> DEFINE taken(S) == IF S = {} THEN slots[i] ELSE (CHOOSE p \in S : TRUE)[2]
  <2>1. PICK S : S = puts(i)
    OBVIOUS
  <2>2. puts(i)' = S
    BY <1>10, <2>1
  <2> HIDE DEF puts
  <2>3. slot(i) = taken(S) /\ slot(i)' = taken(S)
    BY <2>1, <2>2
  <2> QED BY <2>3
<1> HIDE DEF slot
<1> QED BY <1>9, <1>11, <1>12, <1>13

LEMMA ProgressNext ==
    ASSUME TypeOK, Progress, [Next]_vars PROVE Progress'
<1>1. cfg' = cfg /\ list' = list /\ Size' = Size
  BY InputKept DEF Size
<1>2. \A c : Control(c)' <=> Control(c)
  BY <1>1 DEF Control, Size, U
<1>3. Size \in Nat \ {0}
  BY LenProperties DEF TypeOK, IsList, Size
<1>4. CASE SetupControl
  <2>1. UNCHANGED <<cfg, list, blank>> /\ pass' = pass /\ cohesive' = cohesive
    BY <1>1, <1>4 DEF SetupControl
  <2>2. /\ pc' = "setup"
        /\ \A d \in 2..Size : Control(d) =>
              /\ \/ Still(d, decisions', cohesive)
                 \/ GroupStart(d, decisions') >= pass + (IF d < control' THEN 1 ELSE 0)
              /\ d < control' /\ ~changed' => Still(d, decisions', cohesive)
    BY <1>4, ProgressStep
  <2>3. ASSUME NEW d, Control(d)
        PROVE  /\ GroupStart(d, decisions)' = GroupStart(d, decisions')
               /\ Still(d, decisions, cohesive)' = Still(d, decisions', cohesive)
    BY <1>3, <2>1, <2>3, SameBlanks, SameGroupStart, SameSetup DEF Still
  <2> QED BY <1>1, <1>2, <2>1, <2>2, <2>3 DEF Progress
<1>5. CASE SetupPass
  <2>1. /\ UNCHANGED <<cfg, list, blank>> /\ cohesive' = cohesive
        /\ decisions' = decisions
    BY <1>1, <1>5 DEF SetupPass
  <2>2. \A d \in 2..Size : Control(d) =>
            /\ \/ Still(d, decisions, cohesive)
               \/ GroupStart(d, decisions) >= pass' + (IF d < control' THEN 1 ELSE 0)
            /\ d < control' /\ ~changed' => Still(d, decisions, cohesive)
            /\ pc' = "close" => Still(d, decisions, cohesive)
    BY <1>5, ProgressPass
  <2>3. ASSUME NEW d, Control(d)
        PROVE  /\ GroupStart(d, decisions)' = GroupStart(d, decisions)
               /\ Still(d, decisions, cohesive)' = Still(d, decisions, cohesive)
    BY <1>3, <2>1, <2>3, SameBlanks, SameGroupStart, SameSetup DEF Still
  <2> QED BY <1>1, <1>2, <2>1, <2>2, <2>3 DEF Progress
<1>6. CASE Build
  <2>1. UNCHANGED <<cfg, list, blank>> /\ control' = 1 /\ pass' = 1 /\ pc' = "setup"
    BY <1>1, <1>6 DEF Build
  <2>2. ASSUME NEW d \in 2..Size, Control(d)
        PROVE  GroupStart(d, decisions)' >= 1
    <3>1. \A slots : GroupStart(d, slots) \in 1..(d - 1)
      BY <1>3, <2>2, GroupFacts
    <3>2. GroupStart(d, decisions)' = GroupStart(d, decisions')
      BY <1>3, <2>1, <2>2, SameBlanks, SameGroupStart
    <3> QED BY <3>1, <3>2
  <2>3. \A d \in 2..Size : ~(d < control') /\ pass' + 0 = 1
    BY <2>1
  <2> QED BY <1>1, <1>2, <2>1, <2>2, <2>3 DEF Progress
<1>7. CASE Validate \/ Close \/ Apply
  <2>1. pc' \notin {"setup", "close"}
    BY <1>7 DEF Validate, Close, Replan, Apply
  <2> QED BY <2>1 DEF Progress
<1>8. CASE Done \/ UNCHANGED vars
  <2>1. /\ UNCHANGED <<cfg, list, blank>>
        /\ UNCHANGED <<pc, decisions, cohesive, control, changed, pass>>
    BY <1>8 DEF Done, vars
  <2>2. ASSUME NEW d, Control(d)
        PROVE  /\ GroupStart(d, decisions)' = GroupStart(d, decisions)
               /\ Still(d, decisions, cohesive)' = Still(d, decisions, cohesive)
    BY <1>3, <2>1, <2>2, SameBlanks, SameGroupStart, SameSetup DEF Still
  <2> QED BY <1>1, <1>2, <2>1, <2>2 DEF Progress
<1> QED BY <1>4, <1>5, <1>6, <1>7, <1>8 DEF Next

\* For every list, configuration and plan: setup::apply ends because no control
\* statement asks for anything any more; the passes that it may make are enough.
THEOREM PassesSuffice == Spec => []ClosureReached
<1>1. Init => Progress
  BY DEF Init, Progress
<1>2. TypeOK /\ Progress => ClosureReached
  <2> SUFFICES ASSUME TypeOK, Progress, pc = "close", NEW c \in ControlsFrom(1)
               PROVE  SetupStep(c, decisions, cohesive) = decisions
    BY DEF ClosureReached
  <2>1. c \in 2..Size /\ Control(c)
    BY LenProperties DEF ControlsFrom, Control, TypeOK, IsList, Size
  <2> QED BY <2>1 DEF Progress, Still
<1> QED
  BY <1>1, <1>2, PlannerTypes, ProgressNext, PTL DEF Spec

-----------------------------------------------------------------------------
(* Idempotent.  A build is one computation on what is planned: from the    *)
(* first decisions, step by step, to its only end.  The blank lines that   *)
(* the fixes leave are those of the last build, which asked for no others. *)

FirstDecisions == [i \in Gaps |-> Winner(i, GapOffers(i, CohesiveGaps))]
Stage(slots, ctl, chg, pas, at) ==
    [slots |-> slots, control |-> ctl, changed |-> chg, pass |-> pas, pc |-> at]
FirstStage == Stage(FirstDecisions, 1, FALSE, 1, "setup")
NextControl(r) == Min(ControlsFrom(r.control))
NextSlots(r) == SetupStep(NextControl(r), r.slots, CohesiveGaps)
NextStage(r) ==
    IF ControlsFrom(r.control) # {}
    THEN Stage(NextSlots(r), NextControl(r) + 1, r.changed \/ NextSlots(r) # r.slots,
               r.pass, "setup")
    ELSE IF r.changed /\ r.pass < Size
    THEN Stage(r.slots, 1, FALSE, r.pass + 1, "setup")
    ELSE Stage(r.slots, r.control, r.changed, r.pass, "close")

\* The n first stages of a build.
Stages(n, t) ==
    /\ t[0] = FirstStage
    /\ \A k \in 0..(n - 1) : t[k].pc = "setup" /\ t[k + 1] = NextStage(t[k])
Built(r) == \E n \in Nat : \E t : Stages(n, t) /\ t[n] = r

LEMMA FirstIsBuilt == Built(FirstStage)
<1> DEFINE t == [k \in {0} |-> FirstStage]
<1>1. t[0] = FirstStage /\ 0 \in Nat /\ 0..(0 - 1) = {}
  OBVIOUS
<1>2. Stages(0, t)
  BY <1>1 DEF Stages
<1> QED BY <1>1, <1>2 DEF Built

LEMMA NextIsBuilt ==
    ASSUME NEW r, Built(r), r.pc = "setup" PROVE Built(NextStage(r))
<1>a. PICK n \in Nat : \E t : Stages(n, t) /\ t[n] = r
  BY DEF Built
<1>1. PICK t : Stages(n, t) /\ t[n] = r
  BY <1>a
<1> DEFINE next == NextStage(r)
           u == [k \in 0..(n + 1) |-> IF k = n + 1 THEN next ELSE t[k]]
<1> HIDE DEF next
<1>2. u[0] = t[0] /\ u[n + 1] = next /\ \A k \in 0..n : u[k] = t[k]
  OBVIOUS
<1>3. ASSUME NEW k \in 0..((n + 1) - 1)
      PROVE  u[k].pc = "setup" /\ u[k + 1] = NextStage(u[k])
  <2>1. CASE k = n
    BY <1>1, <1>2, <2>1 DEF next
  <2>2. CASE k # n
    <3>1. k \in 0..(n - 1) /\ k \in 0..n /\ k + 1 \in 0..n
      BY <2>2
    <3>2. t[k].pc = "setup" /\ t[k + 1] = NextStage(t[k])
      BY <1>1, <3>1 DEF Stages
    <3> HIDE DEF u
    <3> QED BY <1>2, <3>1, <3>2
  <2> QED BY <2>1, <2>2
<1> HIDE DEF u
<1>4. Stages(n + 1, u)
  BY <1>1, <1>2, <1>3 DEF Stages
<1>5. n + 1 \in Nat
  OBVIOUS
<1> QED BY <1>2, <1>4, <1>5 DEF Built, next

\* A build has one end.
LEMMA BuiltOnce ==
    ASSUME NEW r, Built(r), r.pc = "close", NEW q, Built(q), q.pc = "close"
    PROVE  r = q
<1>a. PICK n \in Nat : \E t : Stages(n, t) /\ t[n] = r
  BY DEF Built
<1>1. PICK t : Stages(n, t) /\ t[n] = r
  BY <1>a
<1>b. PICK m \in Nat : \E u : Stages(m, u) /\ u[m] = q
  BY DEF Built
<1>2. PICK u : Stages(m, u) /\ u[m] = q
  BY <1>b
<1> DEFINE alike == {k \in Nat : k <= n /\ k <= m => t[k] = u[k]}
<1>3. 0 \in alike
  BY <1>1, <1>2 DEF Stages
<1>4. ASSUME NEW k \in alike PROVE k + 1 \in alike
  <2>1. k \in Nat
    BY <1>4
  <2>2. SUFFICES ASSUME k + 1 <= n, k + 1 <= m PROVE t[k + 1] = u[k + 1]
    BY <2>1
  <2>3. t[k] = u[k] /\ k \in 0..(n - 1) /\ k \in 0..(m - 1)
    BY <1>4, <2>1, <2>2
  <2> QED BY <1>1, <1>2, <2>3 DEF Stages
<1>5. alike = Nat
  <2>1. alike \subseteq Nat
    OBVIOUS
  <2> HIDE DEF alike
  <2> QED BY <1>3, <1>4, <2>1, SetInduction
<1>6. \A k \in Nat : k <= n /\ k <= m => t[k] = u[k]
  BY <1>5
<1>7. ~(n < m)
  <2> SUFFICES ASSUME n < m PROVE FALSE
    OBVIOUS
  <2>1. n \in 0..(m - 1) /\ t[n] = u[n]
    BY <1>6
  <2> QED BY <1>1, <1>2, <2>1 DEF Stages
<1>8. ~(m < n)
  <2> SUFFICES ASSUME m < n PROVE FALSE
    OBVIOUS
  <2>1. m \in 0..(n - 1) /\ t[m] = u[m]
    BY <1>6
  <2> QED BY <1>1, <1>2, <2>1 DEF Stages
<1>9. n = m /\ t[n] = u[n]
  BY <1>6, <1>7, <1>8
<1> QED BY <1>1, <1>2, <1>9

LEMMA SameGroups ==
    ASSUME cfg' = cfg, list' = list, Tight' = Tight PROVE CohesiveGaps' = CohesiveGaps
BY DEF Adjacent, Anchors, Blocked, Closes, CohesiveGaps, Continues,
       GroupEnd, HasControl, Introduced, Meets, OnReceiver, PlacesOverlap,
       Size, U, UsesGroup

LEMMA SameBoundary ==
    ASSUME cfg' = cfg, list' = list, Tight' = Tight, NEW i
    PROVE  Boundary(i)' = Boundary(i)
<1>1. U(i)' = U(i) /\ U(i + 1)' = U(i + 1)
  BY DEF U
<1>2. ASSUME NEW a, NEW b PROVE ConditionalConfiguration(a, b)' = ConditionalConfiguration(a, b)
  BY DEF Conditional, ConditionalConfiguration, Dispatch, DispatchRun,
         IsBinding, MatchContinuation, Meets, Multiline, PlacesOverlap
<1>3. ASSUME NEW a, NEW b PROVE MultilineProduction(a, b)' = MultilineProduction(a, b)
  BY DEF BoolFlagRun, CoveredBy, Dispatch, DispatchRefinement, DispatchRun,
         IsBinding, Meets, Multiline, MultilineProduction, Ordinary,
         PlacesOverlap, PlainStep, ProducedUse
<1>4. ASSUME NEW a, NEW b PROVE ShortContinuation(a, b)' = ShortContinuation(a, b)
  BY DEF CompactItems, ExecutableCount, IsBinding, IsItem, ItemKinds, Meets,
         Multiline, Mutates, PlacesOverlap, ShortContinuation, Size, U
<1>5. ASSUME NEW a, NEW b PROVE UnfedControl(a, b)' = UnfedControl(a, b)
  BY DEF Meets, PlacesOverlap, UnfedControl
<1>6. ASSUME NEW a, NEW b PROVE Unrelated(a, b)' = Unrelated(a, b)
  BY DEF Connected, Meets, Mutates, ObjectAccesses, Outputs, PlacesOverlap,
         SameObject, Unrelated
<1>7. ASSUME NEW a, NEW b PROVE RelatedJoin(a, b)' = RelatedJoin(a, b)
  BY DEF Adapters, Changed, Connected, CoveredBy, Initializes, IsBinding,
         LocalsOf, Meets, Multiline, Mutates, ObjectAccesses, Ordinary,
         Outputs, PlacesOverlap, Related, RelatedJoin, ResourcePair,
         SameHandler, SameObject, SharedOperation, ShortProducer
<1>8. ASSUME NEW a, NEW b PROVE SameHandler(a, b)' = SameHandler(a, b)
  BY DEF Meets, PlacesOverlap, SameHandler
<1>9. ASSUME NEW a, NEW b PROVE Initializes(a, b)' = Initializes(a, b)
  BY DEF Initializes, Meets, PlacesOverlap
<1>10. ASSUME NEW a, NEW b PROVE Changed(a, b)' = Changed(a, b)
  BY DEF Changed, Meets, Ordinary, PlacesOverlap
<1>11. ASSUME NEW k PROVE Sandwiched(k)' = Sandwiched(k)
  BY DEF Meets, PlacesOverlap, ResourcePair, Sandwiched, Size, U
<1>12. ASSUME NEW P, NEW Q PROVE Meets(P, Q)' = Meets(P, Q)
  BY DEF Meets, PlacesOverlap
<1>13. EarlierMultiline(i)' = EarlierMultiline(i)
  BY DEF EarlierMultiline, IsBinding, Meets, Multiline, PlacesOverlap, U
<1>14. BindingContinues(i)' = BindingContinues(i)
  BY DEF BindingContinues, Dispatch, Meets, Multiline, Mutates,
         PlacesOverlap, SameString, U
<1>15. OperationBoundary(i)' = OperationBoundary(i)
  BY <1>1, <1>6, <1>7, <1>14 DEF OperationBoundary, IsBinding
<1>16. KeptTogether(i)' = KeptTogether(i)
  BY <1>1, <1>7, <1>8, <1>9, <1>10, <1>11, <1>12 DEF KeptTogether, IsBinding
<1> QED
  BY <1>1, <1>2, <1>3, <1>4, <1>5, <1>13, <1>15, <1>16 DEF Boundary

LEMMA SameOffers ==
    ASSUME cfg' = cfg, list' = list, Tight' = Tight, NEW i, NEW groups
    PROVE  GapOffers(i, groups)' = GapOffers(i, groups)
<1>1. U(i)' = U(i) /\ U(i + 1)' = U(i + 1)
  BY DEF U
<1>2. JoinOffers(i)' = JoinOffers(i)
  BY DEF ChecksResult, CompactExits, CoveredBy, FeedsGuard, FreshAfterCheck,
         Grouped, IgnoredEmit, JoinOffers, Meets, OkClose, Passthrough,
         PlacesOverlap, RejectionGate, RepeatsAction, RetryContinue,
         StepPlaces, TailCall, U, Unpack
<1>3. KeepOffers(i)' = KeepOffers(i)
  BY DEF Changed, Connected, CoveredBy, Grouped, Initializes, KeepOffers,
         KeepsExit, KeepsItems, KeepsOrdinary, KeepsSetup, Meets,
         ObjectAccesses, PlacesOverlap, Related, RelatedJoin, ResourcePair,
         SameHandler, SameObject, SharedOperation, ShortProducer,
         ShortSetup, Size, U, ValidationStages
<1>4. AccumulatorOffers(i, groups)' = AccumulatorOffers(i, groups)
  BY DEF Accumulates, AccumulatorOffers, Accumulators, Adjacent,
         ApartFromRun, Attaches, Blocked, CompactItems, CoveredBy,
         ExecutableCount, FeedsRun, Grouped, HeldInRun, IsBinding, IsItem,
         ItemKinds, Join, Meets, Multiline, Offer, PlacesOverlap, RunOf,
         RunStart, Runs, Separate, Size, SplitsRun, SubstantialLoop, U,
         UniqueFeederBefore, UpdatedBy
<1>5. Prepares' = Prepares /\ Prepared' = Prepared
  <2>1. Prepares' = Prepares
    BY DEF Grouped, Prepares
  <2>2. Prepared' = Prepared
    BY DEF Adjacent, Blocked, Chained, Connected, Meets, Multiline, Mutates,
           ObjectAccesses, OneLineBinding, Outputs, PlacesOverlap, Prepared,
           Related, RunStart, SameObject, Size, U
  <2> QED BY <2>1, <2>2
<1>6. SeparatesExit(i, groups)' = SeparatesExit(i, groups)
  BY DEF AttachedExit, CachedExit, CleanupExit, CompactExit, CompactPolicy,
         CompactShape, CompactTail, ContinuesStep, Delegates,
         DirectProducer, ExecutableCount, FailureReport, GuardContinues,
         GuardExit, Meets, MergesFlows, PlacesOverlap, SeparatesExit, Size,
         U, VisualTail
<1>7. SeparatesAfterBlock(i, groups)' = SeparatesAfterBlock(i, groups)
  BY DEF AttachesAfterBlock, CleanupExit, CompactExit, CompactPolicy,
         CompactShape, CompactTail, CompletionExit, Connected,
         DataContinuation, DirectProducer, DrainChain, ExecutableCount,
         GuardContinues, GuardPair, Meets, ObjectAccesses, PlacesOverlap,
         ReceiverContinuation, Related, SameObject, SeparatesAfterBlock,
         Size, U, UnsafeContinuation, VisualTail
<1>8. Boundary(i)' = Boundary(i)
  BY SameBoundary
<1>9. AssertionPhase(i)' = AssertionPhase(i)
  BY DEF AssertionBoundary, AssertionPhase, CallCheck, CoveredBy,
         FixturePreparation, Gaps, Meets, MutationCheck, OperationCheck,
         PlacesOverlap, Reexamination, ScenarioCheck, Size, U, Verification
<1>10. SeparatesControl(i)' = SeparatesControl(i)
  BY <1>1, <1>8 DEF SeparatesControl, Ordinary, IsBinding
<1>11. ASSUME NEW a, NEW b
       PROVE  /\ SeparatesItems(a, b)' = SeparatesItems(a, b)
              /\ SeparatesConditional(a, b)' = SeparatesConditional(a, b)
              /\ SeparatesMacro(a, b)' = SeparatesMacro(a, b)
  <2>1. SeparatesItems(a, b)' = SeparatesItems(a, b)
    BY DEF SeparatesItems
  <2>2. SeparatesConditional(a, b)' = SeparatesConditional(a, b)
    BY DEF SeparatesConditional
  <2>3. SeparatesMacro(a, b)' = SeparatesMacro(a, b)
    BY DEF Meets, PlacesOverlap, SeparatesMacro
  <2> QED BY <2>1, <2>2, <2>3
<1>12. SeparatesOrdinary(i, groups)' = SeparatesOrdinary(i, groups)
  <2>1. ASSUME NEW a, NEW b
        PROVE  Unrelated(a, b)' = Unrelated(a, b) /\ RelatedJoin(a, b)' = RelatedJoin(a, b)
    <3>1. Unrelated(a, b)' = Unrelated(a, b)
      BY DEF Connected, Meets, Mutates, ObjectAccesses, Outputs,
             PlacesOverlap, SameObject, Unrelated
    <3>2. RelatedJoin(a, b)' = RelatedJoin(a, b)
      BY DEF Adapters, Changed, Connected, CoveredBy, Initializes,
             IsBinding, LocalsOf, Meets, Multiline, Mutates, ObjectAccesses,
             Ordinary, Outputs, PlacesOverlap, Related, RelatedJoin,
             ResourcePair, SameHandler, SameObject, SharedOperation,
             ShortProducer
    <3> QED BY <3>1, <3>2
  <2> QED BY <1>1, <1>8, <2>1
          DEF SeparatesOrdinary, SeparatesBindings, SeparatesOperations, Ordinary, IsBinding
<1>13. PhaseOffers(i, groups)' = PhaseOffers(i, groups)
  BY <1>1, <1>6, <1>7, <1>9, <1>10, <1>11, <1>12
     DEF PhaseOffers, IsItem, Offer, Separate, Join, BindingRule, IsBinding, OwnsBoundary
<1> QED
  BY <1>2, <1>3, <1>4, <1>5, <1>13 DEF GapOffers, LocalOffers, Offer, Join

LEMMA SameWinner ==
    ASSUME cfg' = cfg, list' = list, Tight' = Tight, NEW i, NEW offers
    PROVE  Winner(i, offers)' = Winner(i, offers)
BY DEF Bidders, Bids, Blocked, Enabled, EnabledRules, Leading, NoDecision,
       U, Winner

LEMMA NextIsControl ==
    ASSUME Size \in Nat \ {0}, NEW r, r.control \in Nat \ {0}, ControlsFrom(r.control) # {}
    PROVE  Control(NextControl(r))
<1>1. ControlsFrom(r.control) \subseteq Nat
  BY DEF ControlsFrom
<1>2. NextControl(r) \in ControlsFrom(r.control)
  BY <1>1, MinIsMember DEF NextControl
<1> QED BY <1>2 DEF ControlsFrom, Control

\* The control statement to ask next is always one of the list.
LEMMA StagesFrom ==
    ASSUME Size \in Nat \ {0}, NEW n \in Nat, NEW t, Stages(n, t)
    PROVE  \A k \in 0..n : t[k].control \in Nat \ {0}
<1> DEFINE sound == {k \in Nat : k <= n => t[k].control \in Nat \ {0}}
<1>1. 0 \in sound
  BY DEF Stages, FirstStage, Stage
<1>2. ASSUME NEW k \in sound PROVE k + 1 \in sound
  <2>1. SUFFICES ASSUME k \in Nat, k + 1 <= n PROVE t[k + 1].control \in Nat \ {0}
    BY <1>2
  <2>2. t[k].control \in Nat \ {0} /\ t[k + 1] = NextStage(t[k])
    BY <1>2, <2>1 DEF Stages
  <2>3. ControlsFrom(t[k].control) # {} => NextControl(t[k]) \in Nat
    BY <2>2, NextIsControl DEF Control
  <2> QED BY <2>2, <2>3 DEF NextStage, Stage
<1>3. sound = Nat
  <2>1. sound \subseteq Nat
    OBVIOUS
  <2> HIDE DEF sound
  <2> QED BY <1>1, <1>2, <2>1, SetInduction
<1> QED BY <1>3

LEMMA SameFirst ==
    ASSUME cfg' = cfg, list' = list, Tight' = Tight
    PROVE  FirstDecisions' = FirstDecisions
<1>1. CohesiveGaps' = CohesiveGaps
  BY SameGroups
<1>2. Gaps' = Gaps
  BY DEF Gaps, Size
<1>3. ASSUME NEW i PROVE Winner(i, GapOffers(i, CohesiveGaps))'
                            = Winner(i, GapOffers(i, CohesiveGaps))
  <2>1. PICK groups : groups = CohesiveGaps
    OBVIOUS
  <2>2. PICK offers : offers = GapOffers(i, groups)
    OBVIOUS
  <2>3. GapOffers(i, CohesiveGaps)' = offers
    BY <1>1, <2>1, <2>2, SameOffers
  <2>4. Winner(i, offers)' = Winner(i, offers)
    BY SameWinner
  <2> QED BY <2>1, <2>2, <2>3, <2>4
<1> QED BY <1>2, <1>3 DEF FirstDecisions

LEMMA SameStages ==
    ASSUME SameSight, Size \in Nat \ {0}
    PROVE  /\ FirstStage' = FirstStage
           /\ \A r : r.control \in Nat \ {0} => NextStage(r)' = NextStage(r)
<1>1. cfg' = cfg /\ list' = list /\ Tight' = Tight
  BY DEF SameSight
<1>2. CohesiveGaps' = CohesiveGaps
  BY <1>1, SameGroups
<1>3. Size' = Size
  BY <1>1 DEF Size
<1>4. FirstStage' = FirstStage
  BY <1>1, SameFirst DEF FirstStage, Stage
<1>5. ASSUME NEW n PROVE ControlsFrom(n)' = ControlsFrom(n)
  BY <1>1 DEF ControlsFrom, Size, U
<1>6. ASSUME NEW r PROVE NextControl(r)' = NextControl(r)
  BY <1>5 DEF NextControl
<1>7. ASSUME NEW r, r.control \in Nat \ {0} PROVE NextStage(r)' = NextStage(r)
  <2>1. CASE ControlsFrom(r.control) # {}
    <3>1. Control(NextControl(r))
      BY <1>7, <2>1, NextIsControl
    <3>2. NextSlots(r)' = NextSlots(r)
      BY <1>2, <1>6, <3>1, SameSetup DEF NextSlots
    <3> QED BY <1>5, <1>6, <2>1, <3>2 DEF NextStage, Stage
  <2>2. CASE ControlsFrom(r.control) = {}
    BY <1>3, <1>5, <2>2 DEF NextStage, Stage
  <2> QED BY <2>1, <2>2
<1> QED BY <1>4, <1>7

LEMMA SameBuilt ==
    ASSUME SameSight, Size \in Nat \ {0}, NEW r, Built(r) PROVE Built(r)'
<1>a. PICK n \in Nat : \E t : Stages(n, t) /\ t[n] = r
  BY DEF Built
<1>1. PICK t : Stages(n, t) /\ t[n] = r
  BY <1>a
<1>2. \A k \in 0..n : t[k].control \in Nat \ {0}
  BY <1>1, StagesFrom
<1>3. Stages(n, t)'
  <2>1. t[0] = FirstStage'
    BY <1>1, SameStages DEF Stages
  <2>2. ASSUME NEW k \in 0..(n - 1) PROVE t[k].pc = "setup" /\ t[k + 1] = NextStage(t[k])'
    <3>1. k \in 0..n
      OBVIOUS
    <3>2. NextStage(t[k])' = NextStage(t[k])
      BY <1>2, <3>1, SameStages
    <3> QED BY <1>1, <3>2 DEF Stages
  <2> QED BY <2>1, <2>2 DEF Stages
<1> QED BY <1>1, <1>3 DEF Built

\* The build in work is where the computation is.
Now == Stage(decisions, control, changed, pass, pc)
\* A build on these blank lines asks for no others.
Stable == \E r : Built(r) /\ r.pc = "close" /\ Unstable(Capped(r.slots)) = {}

\* The build in work is at a stage of the one build there is; from the first
\* planning on, the blank lines are those planned; those that the fixes left
\* ask for no others.
Replays ==
    /\ pc \in {"setup", "close"} => cohesive = CohesiveGaps /\ Built(Now)
    /\ round > 0 => blank = WithDecisions(plan)
    /\ pc = "planned" => round > 0 /\ Stable
    /\ applied => Stable /\ ~Padded /\ blank = written

LEMMA SameStable ==
    ASSUME UNCHANGED <<cfg, list, blank>>, Size \in Nat \ {0}, Stable PROVE Stable'
<1>1. cfg' = cfg /\ list' = list /\ blank' = blank
  OBVIOUS
<1>2. ASSUME NEW slots PROVE Unstable(Capped(slots))' = Unstable(Capped(slots))
  <2>1. Gaps' = Gaps
    BY <1>1 DEF Gaps, Size
  <2>2. ASSUME NEW i, NEW slot, NEW d PROVE Bids(i, slot, d)' = Bids(i, slot, d)
    BY <1>1 DEF Bids, Blocked, Enabled, EnabledRules, U
  <2>3. Capped(slots)' = Capped(slots)
    BY <1>1, <2>1, <2>2 DEF Capped, Separate
  <2> QED BY <1>1, <2>1, <2>3 DEF Unstable
<1>3. ASSUME NEW r, Built(r) PROVE Built(r)'
  BY <1>3, SameBlanks, SameBuilt
<1> QED BY <1>2, <1>3 DEF Stable

\* On blank lines that ask for no others, nothing is unstable at the end.
LEMMA StableClose ==
    ASSUME Stable, Built(Now), pc = "close" PROVE Unstable(Capped(decisions)) = {}
<1>1. PICK r : Built(r) /\ r.pc = "close" /\ Unstable(Capped(r.slots)) = {}
  BY DEF Stable
<1>2. Now.pc = "close" /\ Now.slots = decisions
  BY DEF Now, Stage
<1>3. r = Now
  BY <1>1, <1>2, BuiltOnce
<1> QED BY <1>1, <1>2, <1>3

LEMMA CloseIsStable ==
    ASSUME Built(Now), pc = "close", Unstable(Capped(decisions)) = {} PROVE Stable
<1>1. Now.pc = "close" /\ Now.slots = decisions
  BY DEF Now, Stage
<1> QED BY <1>1 DEF Stable

\* A plan that changes nothing on blank lines plans these blank lines.
LEMMA SettledBlanks ==
    ASSUME TypeOK, NEW slots, Unstable(slots) = {}, blank = written
    PROVE  WithDecisions(slots) = blank
<1>1. \A i \in Gaps : WithDecisions(slots)[i] = blank[i]
  BY DEF Unstable, WithDecisions
<1>2. /\ WithDecisions(slots) = [i \in Gaps |-> WithDecisions(slots)[i]]
      /\ blank = [i \in Gaps |-> blank[i]]
  BY DEF WithDecisions, TypeOK
<1> QED BY <1>1, <1>2

LEMMA ReplaysStep ==
    ASSUME TypeOK, Replays, [Next]_vars PROVE Replays'
<1>1. cfg' = cfg /\ list' = list /\ Size' = Size /\ Gaps' = Gaps
  BY InputKept DEF Size, Gaps
<1>0. Size \in Nat \ {0}
  BY LenProperties DEF TypeOK, IsList, Size
<1>2. ASSUME UNCHANGED <<written, plan>>
      PROVE  WithDecisions(plan)' = WithDecisions(plan)
  BY <1>1, <1>2 DEF WithDecisions
<1>3. Padded' <=> (edge' > 0 /\ "layout" \in EnabledRules)
  BY <1>1 DEF Padded, EnabledRules
<1>4. CASE Validate
  <2>1. /\ UNCHANGED <<cfg, list, blank, written, plan, edge, round, applied>>
        /\ pc' \in {"build", "invalid"}
    BY <1>4 DEF Validate, input
  <2> QED BY <1>2, <1>3, <2>1, <1>0, SameStable DEF Replays, Padded
<1>5. CASE Build
  <2>1. /\ UNCHANGED <<cfg, list, blank, written, plan, edge, round, applied>>
        /\ pc' = "setup"
    BY <1>5 DEF Build, input
  <2>2. cfg' = cfg /\ list' = list /\ blank' = blank
    BY <2>1
  <2>3. cohesive' = CohesiveGaps
    <3>1. cohesive' = Groups
      BY <1>5 DEF Build
    <3> QED BY <3>1 DEF Groups
  <2>4. CohesiveGaps' = CohesiveGaps
    BY <2>2, SameBlanks, SameGroups DEF SameSight
  <2>5. Now' = FirstStage
    <3>1. decisions' = [i \in Gaps |-> Winner(i, GapOffers(i, cohesive'))]
      BY <1>5 DEF Build
    <3>2. decisions' = FirstDecisions
      BY <2>3, <3>1 DEF FirstDecisions
    <3>3. control' = 1 /\ changed' = FALSE /\ pass' = 1
      BY <1>5 DEF Build
    <3> QED BY <2>1, <3>2, <3>3 DEF Now, FirstStage, Stage
  <2>6. Built(FirstStage)'
    <3>1. PICK r : r = FirstStage
      OBVIOUS
    <3>2. Built(r)'
      BY <1>0, <2>1, <3>1, FirstIsBuilt, SameBlanks, SameBuilt
    <3>3. FirstStage' = r
      BY <1>0, <2>1, <3>1, SameBlanks, SameStages
    <3> QED BY <3>2, <3>3
  <2>7. Built(Now)'
    <3>1. FirstStage' = FirstStage
      BY <1>0, <2>1, SameBlanks, SameStages
    <3> QED BY <2>5, <2>6, <3>1
  <2> QED BY <1>2, <1>3, <2>1, <2>3, <2>4, <2>7, <1>0, SameStable DEF Replays, Padded
<1>6. ASSUME SetupControl \/ SetupPass
      PROVE  Now' = NextStage(Now) /\ pc = "setup"
  <2>1. pc = "setup" /\ cohesive = CohesiveGaps
    BY <1>6 DEF SetupControl, SetupPass, Replays
  <2>2. /\ Now.slots = decisions /\ Now.control = control
        /\ Now.changed = changed /\ Now.pass = pass
    BY DEF Now, Stage
  <2>3. CASE SetupControl
    <3>1. /\ ControlsFrom(control) # {}
          /\ decisions' = SetupStep(Min(ControlsFrom(control)), decisions, cohesive)
          /\ control' = Min(ControlsFrom(control)) + 1
          /\ changed' = (changed \/ decisions' # decisions)
          /\ pass' = pass /\ pc' = "setup"
      BY <2>1, <2>3 DEF SetupControl
    <3>2. NextSlots(Now) = decisions' /\ NextControl(Now) + 1 = control'
      BY <2>1, <2>2, <3>1 DEF NextSlots, NextControl
    <3>3. NextStage(Now) = Stage(decisions', control', changed', pass', pc')
      BY <2>2, <3>1, <3>2 DEF NextStage
    <3> QED BY <2>1, <3>3 DEF Now, Stage
  <2>4. CASE SetupPass
    <3>1. ControlsFrom(control) = {} /\ decisions' = decisions
      BY <2>4 DEF SetupPass
    <3>2. CASE changed /\ pass < Size
      <4>1. control' = 1 /\ changed' = FALSE /\ pass' = pass + 1 /\ pc' = "setup"
        BY <2>1, <2>4, <3>2 DEF SetupPass, Again
      <4>2. NextStage(Now) = Stage(decisions', control', changed', pass', pc')
        BY <2>2, <3>1, <3>2, <4>1 DEF NextStage
      <4> QED BY <2>1, <4>2 DEF Now, Stage
    <3>3. CASE ~(changed /\ pass < Size)
      <4>1. control' = control /\ changed' = changed /\ pass' = pass /\ pc' = "close"
        BY <2>1, <2>4, <3>3 DEF SetupPass, Again
      <4>2. NextStage(Now) = Stage(decisions', control', changed', pass', pc')
        BY <2>2, <3>1, <3>3, <4>1 DEF NextStage
      <4> QED BY <2>1, <4>2 DEF Now, Stage
    <3> QED BY <3>2, <3>3
  <2> QED BY <1>6, <2>3, <2>4
<1>7. CASE SetupControl \/ SetupPass
  <2>1. /\ UNCHANGED <<cfg, list, blank, written, plan, edge, round, applied, cohesive>>
        /\ pc' \in {"setup", "close"}
    BY <1>7 DEF SetupControl, SetupPass, input
  <2>2. cfg' = cfg /\ list' = list /\ blank' = blank
    BY <2>1
  <2>3. cohesive' = CohesiveGaps'
    <3>1. CohesiveGaps' = CohesiveGaps
      BY <2>2, SameBlanks, SameGroups DEF SameSight
    <3>2. cohesive = CohesiveGaps
      BY <1>6, <1>7 DEF Replays
    <3> QED BY <2>1, <3>1, <3>2
  <2>4. Built(Now)'
    <3>1. Built(Now) /\ Now.pc = "setup"
      BY <1>6, <1>7 DEF Replays, Now, Stage
    <3>2. PICK r : r = NextStage(Now)
      OBVIOUS
    <3>3. Built(r)
      BY <3>1, <3>2, NextIsBuilt
    <3>4. Built(r)'
      BY <1>0, <2>1, <3>3, SameBlanks, SameBuilt
    <3>5. Now' = r
      BY <1>6, <1>7, <3>2
    <3> QED BY <3>4, <3>5
  <2> QED BY <1>2, <1>3, <2>1, <2>3, <2>4, <1>0, SameStable DEF Replays, Padded
<1>8. CASE Close
  <2> DEFINE built == Capped(decisions)
  <2>1. /\ pc = "close" /\ Built(Now)
        /\ UNCHANGED <<cfg, list, written, edge, applied>>
    BY <1>8 DEF Close, Replays, input
  <2>2. \/ /\ round = 0 /\ plan' = built /\ blank' = WithDecisions(built)
           /\ round' = round + 1 /\ pc' = "build"
        \/ /\ round # 0 /\ Unstable(built) = {} /\ pc' = "planned"
           /\ UNCHANGED <<plan, blank, round>>
        \/ /\ round # 0 /\ Unstable(built) # {} /\ plan' = Merged(built)
           /\ blank' = WithDecisions(Merged(built))
           /\ round' = round + 1 /\ pc' = "build"
        \/ /\ round # 0 /\ Unstable(built) # {} /\ pc' = "unsettled"
           /\ UNCHANGED <<plan, blank, round>>
    BY <1>8 DEF Close, Replan
  <2>3. round \in Nat
    BY DEF TypeOK
  <2>4. applied => Unstable(built) = {}
    BY <2>1, StableClose DEF Replays
  <2>5. round # 0 /\ Unstable(built) = {} => Stable
    BY <2>1, CloseIsStable
  <2>6. applied => blank' = blank
    <3> SUFFICES ASSUME applied PROVE blank' = blank
      OBVIOUS
    <3>1. WithDecisions(built) = blank
      <4> HIDE DEF built
      <4> QED BY <2>4, SettledBlanks DEF Replays
    <3> HIDE DEF built
    <3> QED BY <2>2, <2>4, <3>1
  <2> HIDE DEF built
  <2>7. plan' = built \/ plan' = Merged(built) \/ plan' = plan
    BY <2>2
  <2>8. WithDecisions(plan)' = WithDecisions(plan')
    BY <1>1, <2>1 DEF WithDecisions
  <2>9. round' > 0 => blank' = WithDecisions(plan)'
    <3>1. CASE UNCHANGED <<plan, blank, round>>
      BY <2>8, <3>1 DEF Replays
    <3>2. CASE ~UNCHANGED <<plan, blank, round>>
      BY <2>2, <2>8, <3>2
    <3> QED BY <3>1, <3>2
  <2>10. applied' => Stable' /\ ~Padded' /\ blank' = written'
    BY <1>0, <1>3, <2>1, <2>6, SameStable DEF Replays, Padded
  <2>11. pc' = "planned" => round' > 0 /\ Stable'
    <3> SUFFICES ASSUME pc' = "planned" PROVE round' > 0 /\ Stable'
      OBVIOUS
    <3>1. round # 0 /\ Unstable(built) = {} /\ UNCHANGED <<plan, blank, round>>
      BY <2>2
    <3>2. Stable
      BY <2>5, <3>1
    <3> QED BY <2>1, <2>3, <3>1, <3>2, <1>0, SameStable
  <2>12. pc' \notin {"setup", "close"}
    BY <2>2
  <2> QED BY <2>9, <2>10, <2>11, <2>12 DEF Replays
<1>9. CASE Apply
  <2>1. /\ pc = "planned" /\ round' = 0 /\ pc' = "build" /\ UNCHANGED <<cfg, list>>
        /\ blank' = written' /\ edge' = IF Padded THEN 0 ELSE edge
        /\ written' = [i \in Gaps |-> IF i \in Findings THEN plan[i].blanks
                                      ELSE written[i]]
    BY <1>9 DEF Apply
  <2>2. round > 0 /\ Stable /\ blank = WithDecisions(plan)
    BY <2>1 DEF Replays
  <2>3. written' = WithDecisions(plan)
    <3>1. \A i \in Gaps : (IF i \in Findings THEN plan[i].blanks ELSE written[i])
              = (IF plan[i] = NoDecision THEN written[i] ELSE plan[i].blanks)
      BY DEF Findings
    <3> QED BY <2>1, <3>1 DEF WithDecisions
  <2>4. blank' = blank
    BY <2>1, <2>2, <2>3
  <2>5. Stable'
    BY <2>1, <2>2, <2>4, <1>0, SameStable
  <2>6. ~Padded'
    BY <1>3, <2>1 DEF Padded
  <2> QED BY <2>1, <2>5, <2>6 DEF Replays
<1>10. CASE Done \/ UNCHANGED vars
  <2>1. UNCHANGED vars
    BY <1>10 DEF Done
  <2>2. /\ UNCHANGED <<cfg, list, blank, written, plan, edge, round, applied, cohesive, pc>>
        /\ UNCHANGED <<decisions, control, changed, pass>>
    BY <2>1 DEF vars, input
  <2>3. cfg' = cfg /\ list' = list /\ blank' = blank
    BY <2>2
  <2>4. CohesiveGaps' = CohesiveGaps
    BY <2>3, SameBlanks, SameGroups DEF SameSight
  <2>5. Built(Now) => Built(Now)'
    <3>1. PICK r : r = Now
      OBVIOUS
    <3>2. Now' = r
      BY <2>2, <3>1 DEF Now, Stage
    <3>3. Built(r) => Built(r)'
      BY <1>0, <2>2, SameBlanks, SameBuilt
    <3> QED BY <3>1, <3>2, <3>3
  <2> QED BY <1>2, <1>3, <2>2, <2>4, <2>5, <1>0, SameStable DEF Replays, Padded
<1> QED BY <1>4, <1>5, <1>7, <1>8, <1>9, <1>10 DEF Next

\* For every list, configuration and text: planning the fixed text finds nothing.
THEOREM FixedIsAccepted == Spec => []Idempotent
<1>1. Init => Replays
  BY DEF Init, Replays
<1>2. TypeOK /\ Replays => Idempotent
  <2> SUFFICES ASSUME Replays, TypeOK, pc = "planned", applied
               PROVE  Findings = {} /\ ~Padded
    BY DEF Idempotent
  <2>1. blank = WithDecisions(plan) /\ blank = written /\ ~Padded
    BY DEF Replays
  <2>2. ASSUME NEW i \in Gaps, plan[i] # NoDecision PROVE plan[i].blanks = written[i]
    BY <2>1, <2>2 DEF WithDecisions
  <2> QED BY <2>1, <2>2 DEF Findings
<1> QED
  BY <1>1, <1>2, PlannerTypes, ReplaysStep, PTL DEF Spec

-----------------------------------------------------------------------------
(* What wins where several rules offer.                                    *)

OfferLists == Seq(Offered)
Rank(offers, k) == offers[k].priority

LEMMA LeadingIs ==
    ASSUME NEW i, NEW s
    PROVE  Leading(i, s) = {k \in Bidders(i, s) : \A j \in Bidders(i, s) :
                                \/ Rank(s, j) < Rank(s, k)
                                \/ Rank(s, j) = Rank(s, k) /\ k <= j}
BY DEF Leading, Rank

LEMMA BidderFacts ==
    ASSUME NEW i, NEW s \in OfferLists, NEW k \in Bidders(i, s)
    PROVE  /\ k \in DOMAIN s /\ k \in Nat /\ k >= 1
           /\ Bids(i, NoDecision, s[k]) /\ s[k] \in Offered
           /\ Rank(s, k) \in 1..100
<1>1. k \in DOMAIN s /\ Bids(i, NoDecision, s[k])
  BY DEF Bidders
<1>2. s[k] \in Offered /\ k \in Nat /\ k >= 1
  BY <1>1 DEF OfferLists
<1>3. s[k].priority \in 1..100
  BY <1>2 DEF Offered
<1> QED BY <1>1, <1>2, <1>3 DEF Rank

\* Of those who bid, there is a first one of the greatest priority.
LEMMA LeadingExists ==
    ASSUME NEW i, NEW s \in OfferLists, Bidders(i, s) # {}
    PROVE  Leading(i, s) # {}
<1> DEFINE bidders == Bidders(i, s)
           ranks == {Rank(s, k) : k \in bidders}
           first == {k \in bidders : Rank(s, k) = Max(ranks)}
<1>1. ASSUME NEW k \in bidders PROVE k \in Nat /\ Rank(s, k) \in 0..100
  BY BidderFacts
<1> HIDE DEF bidders
<1>2. bidders # {}
  BY DEF bidders
<1>3. Max(ranks) \in ranks /\ \A p \in ranks : p <= Max(ranks)
  <2>1. ranks \subseteq 0..100 /\ ranks # {}
    BY <1>1, <1>2
  <2> HIDE DEF ranks
  <2> QED BY <2>1, MaxIsMember
<1>4. first \subseteq Nat /\ first # {}
  BY <1>1, <1>3
<1>5. PICK k \in first : \A j \in first : k <= j
  <2> HIDE DEF first
  <2> QED BY <1>4, MinIsMember
<1>6. ASSUME NEW j \in bidders
      PROVE  Rank(s, j) < Rank(s, k) \/ (Rank(s, j) = Rank(s, k) /\ k <= j)
  <2>1. Rank(s, j) \in 0..100 /\ Rank(s, k) \in 0..100
    BY <1>1, <1>5
  <2>2. Rank(s, j) <= Rank(s, k)
    BY <1>3, <1>5
  <2>3. Rank(s, j) = Rank(s, k) => j \in first
    BY <1>5
  <2> HIDE DEF first
  <2> QED BY <1>5, <2>1, <2>2, <2>3
<1>7. k \in Leading(i, s)
  BY <1>5, <1>6, LeadingIs DEF bidders
<1> QED BY <1>7

LEMMA LeaderWins ==
    ASSUME NEW i, NEW s \in OfferLists, NEW k \in Leading(i, s)
    PROVE  Winner(i, s) = s[k]
<1>1. ASSUME NEW j \in Leading(i, s) PROVE j = k
  <2>1. j \in Bidders(i, s) /\ k \in Bidders(i, s)
    BY DEF Leading
  <2>2. /\ Rank(s, j) < Rank(s, k) \/ (Rank(s, j) = Rank(s, k) /\ k <= j)
        /\ Rank(s, k) < Rank(s, j) \/ (Rank(s, k) = Rank(s, j) /\ j <= k)
    BY <2>1, LeadingIs
  <2>3. /\ j \in Nat /\ k \in Nat
        /\ Rank(s, j) \in 1..100 /\ Rank(s, k) \in 1..100
    BY <2>1, BidderFacts
  <2> QED BY <2>2, <2>3
<1>2. (CHOOSE j \in Leading(i, s) : TRUE) = k
  BY <1>1
<1> QED BY <1>2 DEF Winner

LEMMA NoBidders ==
    ASSUME NEW i, NEW s \in OfferLists
    PROVE  Winner(i, s) = NoDecision <=> Bidders(i, s) = {}
<1>1. ASSUME Bidders(i, s) = {} PROVE Winner(i, s) = NoDecision
  BY <1>1 DEF Winner, Leading
<1>2. ASSUME Bidders(i, s) # {} PROVE Winner(i, s) # NoDecision
  <2>1. PICK k \in Leading(i, s) : TRUE
    BY <1>2, LeadingExists
  <2>2. k \in Bidders(i, s)
    BY DEF Leading
  <2>3. s[k].rule \in Rules /\ "none" \notin Rules
    BY <2>2, BidderFacts DEF Offered, Rules
  <2>4. s[k] # NoDecision
    BY <2>3 DEF NoDecision
  <2> QED BY <2>1, <2>4, LeaderWins
<1> QED BY <1>1, <1>2

\* The priority of what wins.
LEMMA WinnerRank ==
    ASSUME NEW i, NEW s \in OfferLists
    PROVE  /\ Bidders(i, s) = {} => Winner(i, s).priority = 0
           /\ \A k \in Leading(i, s) : /\ k \in Bidders(i, s)
                                       /\ Winner(i, s) = s[k]
                                       /\ Winner(i, s).priority = Rank(s, k)
<1>1. Bidders(i, s) = {} => Winner(i, s).priority = 0
  BY NoBidders DEF NoDecision
<1>2. \A k \in Leading(i, s) : Winner(i, s) = s[k] /\ k \in Bidders(i, s)
  BY LeaderWins DEF Leading
<1> QED BY <1>1, <1>2 DEF Rank

\* What wins among all that is offered: later offers must outbid earlier ones.
LEMMA WinnerOfBoth ==
    ASSUME NEW i, NEW s \in OfferLists, NEW t \in OfferLists
    PROVE  Winner(i, s \o t) = IF Winner(i, s).priority < Winner(i, t).priority
                               THEN Winner(i, t) ELSE Winner(i, s)
<1> DEFINE n == Len(s)
           both == s \o t
<1>1. /\ both \in OfferLists /\ n \in Nat
      /\ DOMAIN s = 1..n /\ DOMAIN t = 1..Len(t) /\ DOMAIN both = 1..(n + Len(t))
      /\ \A k \in DOMAIN s : both[k] = s[k]
      /\ \A k \in DOMAIN t : both[n + k] = t[k]
  BY ConcatProperties DEF OfferLists
<1> HIDE DEF n, both
<1>2. ASSUME NEW k \in Bidders(i, s)
      PROVE  /\ k \in Bidders(i, both) /\ both[k] = s[k] /\ Rank(both, k) = Rank(s, k)
             /\ k \in Nat /\ k <= n /\ Rank(s, k) \in 1..100
  <2>1. k \in DOMAIN s /\ k \in DOMAIN both /\ k \in Nat /\ k <= n
    BY <1>1, BidderFacts
  <2>2. both[k] = s[k]
    BY <1>1, <2>1
  <2> QED BY <2>1, <2>2, BidderFacts DEF Bidders, Rank
<1>3. ASSUME NEW k \in Bidders(i, t)
      PROVE  /\ n + k \in Bidders(i, both) /\ both[n + k] = t[k]
             /\ Rank(both, n + k) = Rank(t, k)
             /\ k \in Nat /\ k >= 1 /\ Rank(t, k) \in 1..100
  <2>1. k \in DOMAIN t /\ k \in Nat /\ k >= 1
    BY BidderFacts
  <2>2. both[n + k] = t[k] /\ n + k \in DOMAIN both
    BY <1>1, <2>1
  <2> QED BY <2>1, <2>2, BidderFacts DEF Bidders, Rank
<1>4. ASSUME NEW k \in Bidders(i, both)
      PROVE  k \in Bidders(i, s) \/ (\E m \in Bidders(i, t) : k = n + m)
  <2>1. k \in DOMAIN both /\ k \in Nat /\ k >= 1 /\ Bids(i, NoDecision, both[k])
    BY <1>1, BidderFacts
  <2>2. CASE k <= n
    <3>1. k \in DOMAIN s
      BY <1>1, <2>1, <2>2
    <3> QED BY <1>1, <2>1, <3>1 DEF Bidders
  <2>3. CASE k > n
    <3>1. k - n \in DOMAIN t /\ n + (k - n) = k
      BY <1>1, <2>1, <2>3
    <3>2. k - n \in Bidders(i, t)
      BY <1>1, <2>1, <3>1 DEF Bidders
    <3> QED BY <3>1, <3>2
  <2> QED BY <1>1, <2>1, <2>2, <2>3
<1>5. ASSUME NEW u \in OfferLists, NEW k \in Leading(i, u), NEW j \in Bidders(i, u)
      PROVE  Rank(u, j) < Rank(u, k) \/ (Rank(u, j) = Rank(u, k) /\ k <= j)
  BY <1>5, LeadingIs
<1>6. CASE Bidders(i, t) = {} /\ Bidders(i, s) = {}
  <2>1. Bidders(i, both) = {}
    BY <1>4, <1>6
  <2> QED BY <1>1, <1>6, <2>1, NoBidders DEF both, NoDecision
<1>7. CASE \E m \in Leading(i, t) : \A k \in Bidders(i, s) : Rank(s, k) < Rank(t, m)
  <2>1. PICK m \in Leading(i, t) : \A k \in Bidders(i, s) : Rank(s, k) < Rank(t, m)
    BY <1>7
  <2>2. m \in Bidders(i, t) /\ Winner(i, t) = t[m] /\ Winner(i, t).priority = Rank(t, m)
    BY WinnerRank
  <2>3. ASSUME NEW j \in Bidders(i, both)
        PROVE  \/ Rank(both, j) < Rank(both, n + m)
               \/ Rank(both, j) = Rank(both, n + m) /\ n + m <= j
    <3>1. CASE j \in Bidders(i, s)
      BY <1>2, <1>3, <2>1, <2>2, <3>1
    <3>2. CASE \E k \in Bidders(i, t) : j = n + k
      <4>1. PICK k \in Bidders(i, t) : j = n + k
        BY <3>2
      <4>2. Rank(t, k) < Rank(t, m) \/ (Rank(t, k) = Rank(t, m) /\ m <= k)
        BY <1>5, <2>1
      <4>3. Rank(both, j) = Rank(t, k) /\ Rank(both, n + m) = Rank(t, m)
        BY <1>3, <2>2, <4>1
      <4>4. n \in Nat /\ k \in Nat /\ m \in Nat /\ (m <= k => n + m <= n + k)
        BY <1>1, <1>3, <2>2
      <4> QED BY <4>1, <4>2, <4>3, <4>4
    <3> QED BY <1>4, <3>1, <3>2
  <2>4. n + m \in Leading(i, both)
    BY <1>3, <2>2, <2>3, LeadingIs
  <2>5. Winner(i, both) = t[m]
    BY <1>1, <1>3, <2>2, <2>4, LeaderWins
  <2>6. Winner(i, s).priority < Rank(t, m)
    <3>1. CASE Bidders(i, s) = {}
      BY <1>3, <2>2, <3>1, WinnerRank
    <3>2. CASE Bidders(i, s) # {}
      <4>1. PICK k \in Leading(i, s) : TRUE
        BY <3>2, LeadingExists
      <4>2. k \in Bidders(i, s) /\ Winner(i, s).priority = Rank(s, k)
        BY WinnerRank
      <4> QED BY <2>1, <4>2
    <3> QED BY <3>1, <3>2
  <2> QED BY <2>2, <2>5, <2>6 DEF both
<1>8. CASE \E k \in Leading(i, s) : \A m \in Bidders(i, t) : Rank(t, m) <= Rank(s, k)
  <2>1. PICK k \in Leading(i, s) : \A m \in Bidders(i, t) : Rank(t, m) <= Rank(s, k)
    BY <1>8
  <2>2. k \in Bidders(i, s) /\ Winner(i, s) = s[k] /\ Winner(i, s).priority = Rank(s, k)
    BY WinnerRank
  <2>3. ASSUME NEW j \in Bidders(i, both)
        PROVE  \/ Rank(both, j) < Rank(both, k)
               \/ Rank(both, j) = Rank(both, k) /\ k <= j
    <3>1. CASE j \in Bidders(i, s)
      BY <1>2, <1>5, <2>1, <2>2, <3>1
    <3>2. CASE \E m \in Bidders(i, t) : j = n + m
      <4>1. PICK m \in Bidders(i, t) : j = n + m
        BY <3>2
      <4>2. Rank(t, m) <= Rank(s, k)
        BY <2>1
      <4>3. Rank(both, j) = Rank(t, m) /\ Rank(both, k) = Rank(s, k)
        BY <1>2, <1>3, <2>2, <4>1
      <4>4. Rank(t, m) \in 1..100 /\ Rank(s, k) \in 1..100 /\ k <= n + m
        BY <1>1, <1>2, <1>3, <2>2
      <4> QED BY <4>1, <4>2, <4>3, <4>4
    <3> QED BY <1>4, <3>1, <3>2
  <2>4. k \in Leading(i, both)
    BY <1>2, <2>2, <2>3, LeadingIs
  <2>5. Winner(i, both) = s[k]
    BY <1>1, <1>2, <2>2, <2>4, LeaderWins
  <2>6. ~(Rank(s, k) < Winner(i, t).priority)
    <3>1. CASE Bidders(i, t) = {}
      BY <1>2, <2>2, <3>1, WinnerRank
    <3>2. CASE Bidders(i, t) # {}
      <4>1. PICK m \in Leading(i, t) : TRUE
        BY <3>2, LeadingExists
      <4>2. m \in Bidders(i, t) /\ Winner(i, t).priority = Rank(t, m)
        BY WinnerRank
      <4>3. Rank(t, m) <= Rank(s, k) /\ Rank(t, m) \in 1..100 /\ Rank(s, k) \in 1..100
        BY <1>2, <1>3, <2>1, <2>2, <4>2
      <4> QED BY <4>2, <4>3
    <3> QED BY <3>1, <3>2
  <2> QED BY <2>2, <2>5, <2>6 DEF both
<1>9. CASE Bidders(i, t) # {} /\ Bidders(i, s) # {}
  <2>1. PICK m \in Leading(i, t), k \in Leading(i, s) : TRUE
    BY <1>9, LeadingExists
  <2>2. m \in Bidders(i, t) /\ k \in Bidders(i, s)
    BY WinnerRank
  <2>3. Rank(t, m) \in 1..100 /\ Rank(s, k) \in 1..100
    BY <1>2, <1>3, <2>2
  <2>4. CASE Rank(s, k) < Rank(t, m)
    <3>1. ASSUME NEW j \in Bidders(i, s) PROVE Rank(s, j) < Rank(t, m)
      <4>1. Rank(s, j) < Rank(s, k) \/ (Rank(s, j) = Rank(s, k) /\ k <= j)
        BY <1>5
      <4>2. Rank(s, j) \in 1..100
        BY <1>2
      <4> QED BY <2>3, <2>4, <4>1, <4>2
    <3> QED BY <1>7, <3>1
  <2>5. CASE Rank(t, m) <= Rank(s, k)
    <3>1. ASSUME NEW j \in Bidders(i, t) PROVE Rank(t, j) <= Rank(s, k)
      <4>1. Rank(t, j) < Rank(t, m) \/ (Rank(t, j) = Rank(t, m) /\ m <= j)
        BY <1>5
      <4>2. Rank(t, j) \in 1..100
        BY <1>3
      <4> QED BY <2>3, <2>5, <4>1, <4>2
    <3> QED BY <1>8, <3>1
  <2> QED BY <2>3, <2>4, <2>5
<1>10. CASE Bidders(i, t) # {} /\ Bidders(i, s) = {}
  <2>1. PICK m \in Leading(i, t) : TRUE
    BY <1>10, LeadingExists
  <2> QED BY <1>7, <1>10, <2>1
<1>11. CASE Bidders(i, t) = {} /\ Bidders(i, s) # {}
  <2>1. PICK k \in Leading(i, s) : TRUE
    BY <1>11, LeadingExists
  <2> QED BY <1>8, <1>11, <2>1
<1> QED BY <1>6, <1>9, <1>10, <1>11

LEMMA WinnerOfOne ==
    ASSUME NEW i, NEW condition, NEW d \in Offered
    PROVE  Winner(i, Offer(condition, d))
               = IF condition /\ Bids(i, NoDecision, d) THEN d ELSE NoDecision
<1>1. CASE ~condition
  <2>1. Offer(condition, d) = <<>>
    BY <1>1 DEF Offer
  <2>2. Bidders(i, <<>>) = {} /\ <<>> \in OfferLists
    BY DEF Bidders, OfferLists
  <2> QED BY <1>1, <2>1, <2>2, NoBidders
<1>2. CASE condition /\ ~Bids(i, NoDecision, d)
  <2>1. Offer(condition, d) = <<d>>
    BY <1>2 DEF Offer
  <2>2. Bidders(i, <<d>>) = {} /\ <<d>> \in OfferLists
    BY <1>2 DEF Bidders, OfferLists
  <2> QED BY <1>2, <2>1, <2>2, NoBidders
<1>3. CASE condition /\ Bids(i, NoDecision, d)
  <2>1. Offer(condition, d) = <<d>>
    BY <1>3 DEF Offer
  <2>2. Bidders(i, <<d>>) = {1} /\ <<d>> \in OfferLists /\ <<d>>[1] = d
    BY <1>3 DEF Bidders, OfferLists
  <2>3. 1 \in Leading(i, <<d>>)
    BY <2>2, LeadingIs
  <2>4. Winner(i, <<d>>) = d
    BY <2>2, <2>3, LeaderWins
  <2> QED BY <1>3, <2>1, <2>4
<1> QED BY <1>1, <1>2, <1>3

-----------------------------------------------------------------------------
(* Which gaps stay as planned.  Without join_related some joins do not     *)
(* depend on the blank lines: they always win their gap, and where none of *)
(* them does, a gap that is not tight is never joined.  Under join_related *)
(* all that is offered is independent of the blank lines, and a gap that   *)
(* cannot be joined is never opened.                                       *)

Asks(i, rule) == ~Blocked(i) /\ Enabled(U(i + 1), rule)

\* A join wins gap i that no blank line matters to.
FixedJoin(i) ==
    LET a == U(i)
        b == U(i + 1)
    IN  /\ list.joinable[i]
        /\ \/ ChecksResult(i) /\ Asks(i, "result_check")
           \/ /\ ~(FreshAfterCheck(a, b) /\ Asks(i, "bindings"))
              /\ \/ /\ Asks(i, "exit")
                    /\ \/ RetryContinue(a, b) \/ OkClose(a, b)
                       \/ Passthrough(a, b) \/ TailCall(a, b)
                 \/ /\ Asks(i, "bindings")
                    /\ \/ Unpack(a, b) \/ BoolFlagRun(a, b)
                       \/ CleanupCall(a, b) \/ IgnoredEmit(a, b)

\* Nothing is joined here.
Parted(slot) == slot = NoDecision \/ slot.blanks = 1

\* The rules of the first pass, one after the other: what each finds, and leaves.
Outbid(x, y) == IF x.priority < y.priority THEN y ELSE x
Bid(i, condition, d) == IF condition /\ Bids(i, NoDecision, d) THEN d ELSE NoDecision

LEMMA WinnerOn ==
    ASSUME NEW i, NEW s \in Seq(Offered), NEW condition, NEW d \in Offered
    PROVE  /\ s \o Offer(condition, d) \in Seq(Offered)
           /\ Winner(i, s \o Offer(condition, d))
                  = Outbid(Winner(i, s), Bid(i, condition, d))
<1>1. Offer(condition, d) \in Seq(Offered)
  BY One DEF Offer
<1>2. Winner(i, Offer(condition, d)) = Bid(i, condition, d)
  BY WinnerOfOne DEF Bid
<1>3. Winner(i, s \o Offer(condition, d))
          = Outbid(Winner(i, s), Winner(i, Offer(condition, d)))
  BY <1>1, WinnerOfBoth DEF OfferLists, Outbid
<1> QED BY <1>1, <1>2, <1>3, Both

LEMMA BidFacts ==
    ASSUME NEW i, NEW condition, NEW rule \in Rules
    PROVE  /\ LET x == Bid(i, condition, Join(rule))
              IN  IF condition /\ Asks(i, rule)
                  THEN x.priority = 100 /\ x.blanks = 0 /\ MandatoryJoin(x)
                  ELSE x = NoDecision /\ x.priority = 0
           /\ \A n \in 1..100 :
                 LET x == Bid(i, condition, Separate(rule, n))
                 IN  IF condition /\ Asks(i, rule)
                     THEN x.priority = n /\ x.blanks = 1 /\ ~MandatoryJoin(x)
                     ELSE x = NoDecision /\ x.priority = 0
BY DEF Bid, Bids, Asks, NoDecision, Join, Separate, MandatoryJoin

LEMMA JoinsWin ==
    ASSUME NEW i
    PROVE  /\ FixedJoin(i) => MandatoryJoin(Winner(i, JoinOffers(i)))
           /\ i \notin Tight \/ ~list.joinable[i] =>
                 \/ FixedJoin(i)
                 \/ Parted(Winner(i, JoinOffers(i)))
<1> DEFINE a == U(i)
           b == U(i + 1)
           closes == RetryContinue(a, b) \/ OkClose(a, b)
           binds == \/ Unpack(a, b) \/ BoolFlagRun(a, b)
                    \/ CleanupCall(a, b) \/ IgnoredEmit(a, b)
           leaves == Passthrough(a, b) \/ TailCall(a, b)
           gate == RejectionGate(i) /\ FeedsGuard(i)
           stage == RejectionGate(i) /\ a.known /\ b.known /\ ~FeedsGuard(i)
           s1 == Offer(ChecksResult(i), ImmediateCheckJoin(i))
           s2 == s1 \o Offer(gate, Join("control_flow"))
           s3 == s2 \o Offer(stage, Separate("control_flow", 60))
           s4 == s3 \o Offer(RepeatsAction(i), Join("control_flow"))
           s5 == s4 \o Offer(FreshAfterCheck(a, b), Separate("bindings", 100))
           s6 == s5 \o Offer(closes, Join("exit"))
           s7 == s6 \o Offer(binds, Join("bindings"))
           s8 == s7 \o Offer(leaves, Join("exit"))
           x1 == Bid(i, ChecksResult(i), Join("result_check"))
           x2 == Bid(i, gate, Join("control_flow"))
           x3 == Bid(i, stage, Separate("control_flow", 60))
           x4 == Bid(i, RepeatsAction(i), Join("control_flow"))
           x5 == Bid(i, FreshAfterCheck(a, b), Separate("bindings", 100))
           x6 == Bid(i, closes, Join("exit"))
           x7 == Bid(i, binds, Join("bindings"))
           x8 == Bid(i, leaves, Join("exit"))
<1>1. CASE ~list.joinable[i]
  <2>1. JoinOffers(i) = <<>>
    BY <1>1 DEF JoinOffers
  <2>2. Winner(i, <<>>) = NoDecision
    <3>1. Bidders(i, <<>>) = {} /\ <<>> \in OfferLists
      BY DEF Bidders, OfferLists
    <3> QED BY <3>1, NoBidders
  <2> QED BY <1>1, <2>1, <2>2 DEF Parted, FixedJoin
<1>2. CASE list.joinable[i]
  <2>1. {"result_check", "control_flow", "exit", "bindings"} \subseteq Rules
    BY RuleNames
  <2>2. JoinOffers(i) = s8
    BY <1>2 DEF JoinOffers
  <2>3. FixedJoin(i) <=>
            \/ ChecksResult(i) /\ Asks(i, "result_check")
            \/ /\ ~(FreshAfterCheck(a, b) /\ Asks(i, "bindings"))
               /\ \/ closes /\ Asks(i, "exit")
                  \/ binds /\ Asks(i, "bindings")
                  \/ leaves /\ Asks(i, "exit")
    BY <1>2 DEF FixedJoin
  <2>4. i \notin Tight => ~gate /\ ~stage /\ ~RepeatsAction(i)
    BY DEF RejectionGate, RepeatsAction
  <2> HIDE DEF closes, binds, leaves, gate, stage
  <2>5. /\ Join("result_check") \in Offered /\ Join("control_flow") \in Offered
        /\ Join("exit") \in Offered /\ Join("bindings") \in Offered
        /\ Separate("control_flow", 60) \in Offered
        /\ Separate("bindings", 100) \in Offered
    BY OfferedShapes, RuleNames
  <2>6. s1 \in Seq(Offered) /\ Winner(i, s1) = x1
    <3>1. s1 \in Seq(Offered)
      BY <2>5, One DEF Offer, ImmediateCheckJoin
    <3> QED BY <2>5, <3>1, WinnerOfOne DEF Bid, ImmediateCheckJoin
  <2> HIDE DEF s1, x1
  <2>7. s2 \in Seq(Offered) /\ Winner(i, s2) = Outbid(Winner(i, s1), x2)
    BY <2>5, <2>6, WinnerOn
  <2> HIDE DEF s2, x2
  <2>8. s3 \in Seq(Offered) /\ Winner(i, s3) = Outbid(Winner(i, s2), x3)
    BY <2>5, <2>7, WinnerOn
  <2> HIDE DEF s3, x3
  <2>9. s4 \in Seq(Offered) /\ Winner(i, s4) = Outbid(Winner(i, s3), x4)
    BY <2>5, <2>8, WinnerOn
  <2> HIDE DEF s4, x4
  <2>10. s5 \in Seq(Offered) /\ Winner(i, s5) = Outbid(Winner(i, s4), x5)
    BY <2>5, <2>9, WinnerOn
  <2> HIDE DEF s5, x5
  <2>11. s6 \in Seq(Offered) /\ Winner(i, s6) = Outbid(Winner(i, s5), x6)
    BY <2>5, <2>10, WinnerOn
  <2> HIDE DEF s6, x6
  <2>12. s7 \in Seq(Offered) /\ Winner(i, s7) = Outbid(Winner(i, s6), x7)
    BY <2>5, <2>11, WinnerOn
  <2> HIDE DEF s7, x7
  <2>13. Winner(i, s8) = Outbid(Winner(i, s7), x8)
    BY <2>5, <2>12, WinnerOn
  <2> HIDE DEF s8, x8
  <2> DEFINE joins(x, condition, rule) ==
                 IF condition /\ Asks(i, rule)
                 THEN x.priority = 100 /\ x.blanks = 0 /\ MandatoryJoin(x)
                 ELSE x = NoDecision /\ x.priority = 0
  <2>14. /\ joins(x1, ChecksResult(i), "result_check")
         /\ joins(x2, gate, "control_flow") /\ joins(x4, RepeatsAction(i), "control_flow")
    <3>1. joins(x1, ChecksResult(i), "result_check")
      BY <2>1, BidFacts DEF x1
    <3>2. joins(x2, gate, "control_flow")
      BY <2>1, BidFacts DEF x2
    <3>3. joins(x4, RepeatsAction(i), "control_flow")
      BY <2>1, BidFacts DEF x4
    <3> QED BY <3>1, <3>2, <3>3
  <2>15. joins(x6, closes, "exit") /\ joins(x7, binds, "bindings") /\ joins(x8, leaves, "exit")
    <3>1. joins(x6, closes, "exit")
      BY <2>1, BidFacts DEF x6
    <3>2. joins(x7, binds, "bindings")
      BY <2>1, BidFacts DEF x7
    <3>3. joins(x8, leaves, "exit")
      BY <2>1, BidFacts DEF x8
    <3> QED BY <3>1, <3>2, <3>3
  <2>16. /\ IF stage /\ Asks(i, "control_flow")
            THEN x3.priority = 60 /\ x3.blanks = 1 /\ ~MandatoryJoin(x3)
            ELSE x3 = NoDecision /\ x3.priority = 0
         /\ IF FreshAfterCheck(a, b) /\ Asks(i, "bindings")
            THEN x5.priority = 100 /\ x5.blanks = 1 /\ ~MandatoryJoin(x5)
            ELSE x5 = NoDecision /\ x5.priority = 0
    <3>1. IF stage /\ Asks(i, "control_flow")
          THEN x3.priority = 60 /\ x3.blanks = 1 /\ ~MandatoryJoin(x3)
          ELSE x3 = NoDecision /\ x3.priority = 0
      <4>1. 60 \in 1..100
        OBVIOUS
      <4> QED BY <2>1, <4>1, BidFacts DEF x3
    <3>2. IF FreshAfterCheck(a, b) /\ Asks(i, "bindings")
          THEN x5.priority = 100 /\ x5.blanks = 1 /\ ~MandatoryJoin(x5)
          ELSE x5 = NoDecision /\ x5.priority = 0
      <4>1. 100 \in 1..100
        OBVIOUS
      <4> QED BY <2>1, <4>1, BidFacts DEF x5
    <3> QED BY <3>1, <3>2
  <2> HIDE DEF a, b
  <2>17. FixedJoin(i) => MandatoryJoin(Winner(i, s8))
    <3>1. CASE ChecksResult(i) /\ Asks(i, "result_check")
      <4>1. x1.priority = 100 /\ MandatoryJoin(x1)
        BY <2>14, <3>1
      <4> QED BY <2>6, <2>7, <2>8, <2>9, <2>10, <2>11, <2>12, <2>13, <2>14, <2>15, <2>16,
                 <4>1 DEF Outbid
    <3>2. CASE /\ ~(FreshAfterCheck(a, b) /\ Asks(i, "bindings"))
               /\ \/ closes /\ Asks(i, "exit")
                  \/ binds /\ Asks(i, "bindings")
                  \/ leaves /\ Asks(i, "exit")
      BY <2>6, <2>7, <2>8, <2>9, <2>10, <2>11, <2>12, <2>13, <2>14, <2>15, <2>16,
         <3>2 DEF Outbid
    <3> QED BY <2>3, <3>1, <3>2
  <2>18. i \notin Tight => FixedJoin(i) \/ Parted(Winner(i, s8))
    BY <2>6, <2>7, <2>8, <2>9, <2>10, <2>11, <2>12, <2>13, <2>14, <2>15, <2>16, <2>3,
       <2>4 DEF Outbid, Parted
  <2> QED BY <1>2, <2>2, <2>17, <2>18 DEF s8
<1> QED BY <1>1, <1>2

Separations == {d \in Offered : d.blanks = 1}

LEMMA SeparationShapes ==
    ASSUME NEW rule \in Rules, NEW n \in 1..100, NEW condition
    PROVE  /\ <<Separate(rule, n)>> \in Seq(Separations)
           /\ Offer(condition, Separate(rule, n)) \in Seq(Separations)
<1>1. Separate(rule, n) \in Separations
  BY OfferedShapes DEF Separations, Separate
<1>2. \A d \in Separations : <<d>> \in Seq(Separations)
  OBVIOUS
<1>3. <<>> \in Seq(Separations)
  OBVIOUS
<1> QED BY <1>1, <1>2, <1>3 DEF Offer

LEMMA BothSeparate ==
    ASSUME NEW s \in Seq(Separations), NEW t \in Seq(Separations)
    PROVE  s \o t \in Seq(Separations)
BY ConcatProperties

LEMMA SeparationWins ==
    ASSUME NEW i, NEW s \in Seq(Separations)
    PROVE  s \in Seq(Offered) /\ Parted(Winner(i, s))
<1>1. s \in Seq(Offered)
  BY DEF Separations
<1>2. CASE Leading(i, s) = {}
  BY <1>1, <1>2 DEF Winner, Parted
<1>3. CASE Leading(i, s) # {}
  <2>1. PICK k \in Leading(i, s) : Winner(i, s) = s[k]
    BY <1>3 DEF Winner
  <2>2. k \in DOMAIN s
    BY DEF Leading, Bidders
  <2>3. s[k] \in Separations
    BY <2>2
  <2> QED BY <1>1, <2>1, <2>3 DEF Separations, Parted
<1> QED BY <1>2, <1>3

\* The second pass joins only the parts of an assertion phase, in gaps that
\* can be joined.
LEMMA PhaseSeparates ==
    ASSUME NEW i, NEW groups, ~cfg.join_related \/ ~list.joinable[i]
    PROVE  PhaseOffers(i, groups) \in Seq(Separations)
<1> DEFINE a == U(i)
           b == U(i + 1)
           phase == AssertionPhase(i)
           items == Offer(SeparatesItems(a, b), Separate("item_spacing", 60))
           held  == Offer(list.joinable[i], Join(BindingRule(a, b)))
           exit  == Offer(SeparatesExit(i, groups), Separate("exit", 80))
           after == Offer(SeparatesAfterBlock(i, groups), Separate("after_block", 70))
           other == Offer(SeparatesConditional(a, b), Separate("after_block", 95))
           ctrl  == Offer(SeparatesControl(i), Separate("control_flow", 30))
           macro == Offer(SeparatesMacro(a, b), Separate("bindings", 30))
           rest  == Offer(SeparatesOrdinary(i, groups), Separate(BindingRule(a, b), 30))
           plain == IF OwnsBoundary(b) THEN <<>> ELSE macro \o rest
<1>1. items \in Seq(Separations) /\ exit \in Seq(Separations) /\ after \in Seq(Separations)
  BY SeparationShapes, RuleNames
<1>2. other \in Seq(Separations) /\ ctrl \in Seq(Separations)
  BY SeparationShapes, RuleNames
<1>3. macro \in Seq(Separations) /\ rest \in Seq(Separations)
  BY SeparationShapes, RuleNames
<1>4. <<Separate(BindingRule(a, b), 90)>> \in Seq(Separations)
  BY SeparationShapes, RuleNames
<1>5. phase = "together" => held = <<>>
  BY DEF AssertionPhase, Offer
<1>6. PhaseOffers(i, groups) =
        IF IsItem(a) \/ IsItem(b) THEN items
        ELSE IF phase = "boundary" THEN <<Separate(BindingRule(a, b), 90)>>
        ELSE IF phase = "together" THEN held
        ELSE exit \o after \o other \o ctrl \o plain
  BY DEF PhaseOffers
<1>7. <<>> \in Seq(Separations)
  OBVIOUS
<1> HIDE DEF items, held, exit, after, other, ctrl, macro, rest, phase
<1>8. plain \in Seq(Separations)
  BY <1>3, <1>7, BothSeparate
<1> HIDE DEF plain
<1>9. exit \o after \o other \o ctrl \o plain \in Seq(Separations)
  BY <1>1, <1>2, <1>8, BothSeparate
<1> QED BY <1>1, <1>4, <1>5, <1>6, <1>7, <1>9

\* Runs of accumulators are made of gaps that a join may span.
LEMMA RunIsAdjacent ==
    ASSUME Size \in Nat \ {0}, NEW i, NEW groups, HeldInRun(i, groups) PROVE Adjacent(i)
<1>1. PICK c \in Runs(groups) : i \in RunOf(c, groups)..(c - 1)
  BY DEF HeldInRun
<1> DEFINE kept == {k \in 1..(c - 1) : Accumulates(k, c)}
<1>2. c \in Nat /\ 1 <= c /\ RunOf(c, groups) # 0
  BY DEF Runs
<1>3. RunOf(c, groups) = RunStart(1, c, kept)
  BY <1>2 DEF RunOf
<1>4. RunStart(1, c, kept)..(c - 1) \subseteq kept
  <2> HIDE DEF kept
  <2> QED BY <1>2, RunStartFacts
<1>5. i \in kept
  BY <1>1, <1>3, <1>4
<1> QED BY <1>5 DEF Accumulates

\* Firm gaps, once separated, stay so; held gaps are always joined.
Firm(i) == IF cfg.join_related THEN ~list.joinable[i] ELSE ~FixedJoin(i)
Held(i) == IF cfg.join_related THEN MandatoryJoin(FirstDecisions[i]) ELSE FixedJoin(i)

LEMMA OutbidParted ==
    ASSUME NEW x, NEW y, Parted(x), Parted(y) PROVE Parted(Outbid(x, y))
BY DEF Outbid

LEMMA FirmIsParted ==
    ASSUME Size \in Nat \ {0}, NEW i \in Gaps, NEW groups, Firm(i), blank[i] # 0
    PROVE  Parted(Winner(i, GapOffers(i, groups)))
<1> DEFINE first == JoinOffers(i)
           second == PhaseOffers(i, groups)
           third == KeepOffers(i)
           prepared == Offer(Prepares /\ i \in Prepared, Join("bindings"))
           runs == AccumulatorOffers(i, groups)
<1>1. ~cfg.join_related \/ ~list.joinable[i]
  BY DEF Firm
<1>2. i \notin Tight \/ ~list.joinable[i]
  BY <1>1 DEF Tight
<1>3. first \in Seq(Offered) /\ Parted(Winner(i, first))
  <2>1. ~FixedJoin(i)
    BY DEF Firm, FixedJoin
  <2> QED BY <1>2, <2>1, JoinsWin, JoinOffersType
<1>4. second \in Seq(Separations)
  BY <1>1, PhaseSeparates
<1>5. third \in Seq(Separations)
  BY <1>1 DEF KeepOffers
<1>6. ~Adjacent(i)
  BY <1>2 DEF Adjacent
<1>7. prepared \in Seq(Separations)
  <2>1. i \notin Prepared
    BY <1>6, PreparationIsChained DEF Chained
  <2> QED BY <2>1 DEF Offer
<1>8. runs \in Seq(Separations)
  <2>1. Offer(Accumulators /\ HeldInRun(i, groups), Join("control_flow")) = <<>>
    BY <1>6, RunIsAdjacent DEF Offer
  <2>2. Offer(Accumulators /\ ApartFromRun(i, groups), Separate("control_flow", 90))
            \in Seq(Separations)
    BY SeparationShapes, RuleNames
  <2>3. <<>> \in Seq(Separations)
    OBVIOUS
  <2> QED BY <2>1, <2>2, <2>3, BothSeparate DEF AccumulatorOffers
<1>9. GapOffers(i, groups) = first \o second \o third \o prepared \o runs
  BY DEF GapOffers, LocalOffers
<1> HIDE DEF first, second, third, prepared, runs
<1> DEFINE good(s) == s \in Seq(Offered) /\ Parted(Winner(i, s))
<1>10. ASSUME NEW s, NEW t, good(s), t \in Seq(Separations) PROVE good(s \o t)
  <2>1. t \in Seq(Offered) /\ Parted(Winner(i, t)) /\ s \o t \in Seq(Offered)
    BY <1>10, SeparationWins, Both
  <2>2. Winner(i, s \o t) = Outbid(Winner(i, s), Winner(i, t))
    BY <1>10, <2>1, WinnerOfBoth DEF OfferLists, Outbid
  <2> QED BY <1>10, <2>1, <2>2, OutbidParted
<1>11. good(first)
  BY <1>3
<1> HIDE DEF good
<1>12. good(first \o second \o third)
  BY <1>4, <1>5, <1>10, <1>11
<1>13. good(first \o second \o third \o prepared \o runs)
  BY <1>7, <1>8, <1>10, <1>12
<1> QED BY <1>9, <1>13 DEF good

LEMMA WinnerRange ==
    ASSUME NEW i, NEW s \in Seq(Offered) PROVE Winner(i, s).priority \in 0..100
<1>1. Winner(i, s) = NoDecision \/ Winner(i, s) \in Offered
  BY WinnerBids
<1> QED BY <1>1 DEF NoDecision, Offered

LEMMA HeldWins ==
    ASSUME NEW i, NEW groups, FixedJoin(i)
    PROVE  MandatoryJoin(Winner(i, GapOffers(i, groups)))
<1> DEFINE first == JoinOffers(i)
           second == PhaseOffers(i, groups)
           third == KeepOffers(i)
           prepared == Offer(Prepares /\ i \in Prepared, Join("bindings"))
           runs == AccumulatorOffers(i, groups)
           held(s) == s \in Seq(Offered) /\ MandatoryJoin(Winner(i, s))
<1>1. held(first)
  BY JoinsWin, JoinOffersType
<1>2. /\ second \in Seq(Offered) /\ third \in Seq(Offered) /\ runs \in Seq(Offered)
      /\ prepared \in Seq(Offered)
  <2>1. prepared \in Seq(Offered)
    BY One, OfferedShapes, RuleNames DEF Offer
  <2> QED BY <2>1, PhaseOffersType, KeepOffersType, AccumulatorOffersType
<1>3. GapOffers(i, groups) = first \o second \o third \o prepared \o runs
  BY DEF GapOffers, LocalOffers
<1> HIDE DEF first, second, third, prepared, runs
<1>4. ASSUME NEW s, NEW t, held(s), t \in Seq(Offered) PROVE held(s \o t)
  <2>1. Winner(i, s \o t) = Outbid(Winner(i, s), Winner(i, t))
    BY <1>4, WinnerOfBoth DEF OfferLists, Outbid
  <2>2. Winner(i, s).priority = 100 /\ Winner(i, t).priority \in 0..100
    BY <1>4, WinnerRange DEF MandatoryJoin
  <2>3. ~(Winner(i, s).priority < Winner(i, t).priority)
    BY <2>2
  <2> QED BY <1>4, <2>1, <2>3, Both DEF Outbid
<1> HIDE DEF held
<1>5. held(first \o second \o third \o prepared \o runs)
  BY <1>1, <1>2, <1>4
<1> QED BY <1>3, <1>5 DEF held

LEMMA HeldIsJoined ==
    ASSUME NEW i \in Gaps, Held(i) PROVE MandatoryJoin(FirstDecisions[i])
BY HeldWins DEF Held, FirstDecisions

\* What control statements put: no join that the rules do not let them.
LEMMA PutsParted ==
    ASSUME Size \in Nat \ {0}, cfg \in Configs, NEW c, Control(c), NEW slots, NEW groups,
           NEW i \in Gaps
    PROVE  LET new == SetupStep(c, slots, groups)[i]
           IN  /\ Firm(i) /\ Parted(slots[i]) => Parted(new)
               /\ MandatoryJoin(new) <=> MandatoryJoin(slots[i])
<1> DEFINE new == SetupStep(c, slots, groups)[i]
<1>1. CASE new = slots[i]
  BY <1>1
<1>2. CASE new # slots[i]
  <2>1. PICK p \in SetupPuts(c, slots, groups) : p[1] = i /\ new = p[2]
    BY <1>2, StepWrites
  <2>2. new \in SetupDecisions(c)
    BY <1>2, SetupStepShape
  <2>3. ~MandatoryJoin(new)
    BY <2>2, SetupShapes DEF MandatoryJoin
  <2>4. ~MandatoryJoin(slots[i])
    BY <1>2, JoinOutbids
  <2>5. Firm(i) => new.blanks = 1
    <3> SUFFICES ASSUME Firm(i) PROVE p[2].blanks = 1
      BY <2>1
    <3>1. \/ p[2].blanks = 1
          \/ p \in GroupPuts(c, slots) /\ p[1] = c - 1 /\ \E s : JoinsAccumulator(c, s)
      <4>1. \/ p = <<c - 1, Separate("control_flow", 90)>>
            \/ p \in LoopPhasePuts(c, slots)
            \/ p \in GroupPuts(c, slots)
        BY DEF SetupPuts
      <4>2. p \in LoopPhasePuts(c, slots) => p[2] = Separate("control_flow", 90)
        BY DEF LoopPhasePuts
      <4>3. ASSUME p \in GroupPuts(c, slots)
            PROVE  \/ p[2] = Excess(c)
                   \/ p[1] = c - 1 /\ \E s : JoinsAccumulator(c, s)
        BY <4>3 DEF GroupPuts
      <4> QED BY <4>1, <4>2, <4>3 DEF Separate, Excess
    <3>2. ~(p[1] = c - 1 /\ \E s : JoinsAccumulator(c, s))
      BY <2>1 DEF JoinsAccumulator, Firm
    <3> QED BY <3>1, <3>2
  <2> HIDE DEF new
  <2> QED BY <2>3, <2>4, <2>5 DEF Parted, new
<1> QED BY <1>1, <1>2

-----------------------------------------------------------------------------
(* Settles.  Under join_related the rules see no more of the blank lines   *)
(* than the firm gaps that have some, and these never lose them all: each  *)
(* planning on the result adds one, or is the last.  Otherwise what holds  *)
(* regardless of the blank lines is settled by the first planning; of the  *)
(* rest, each further planning separates a gap more.                       *)

FirmlyApart == {i \in Gaps : Firm(i) /\ blank[i] # 0}
Apart == {i \in Gaps : blank[i] = 1}

LEMMA SameHeld ==
    ASSUME cfg' = cfg, list' = list
    PROVE  /\ Gaps' = Gaps /\ Size' = Size
           /\ \A i : Held(i)' = Held(i) /\ Firm(i)' = Firm(i)
<1>1. Gaps' = Gaps /\ Size' = Size
  BY DEF Gaps, Size
<1>2. ASSUME NEW i PROVE FixedJoin(i)' = FixedJoin(i)
  <2>1. ASSUME NEW rule PROVE Asks(i, rule)' = Asks(i, rule)
    BY DEF Asks, Blocked, Enabled, EnabledRules, U
  <2>2. U(i)' = U(i) /\ U(i + 1)' = U(i + 1) /\ ChecksResult(i)' = ChecksResult(i)
    BY DEF ChecksResult, U
  <2>3. ASSUME NEW a, NEW b
        PROVE  /\ FreshAfterCheck(a, b)' = FreshAfterCheck(a, b)
               /\ RetryContinue(a, b)' = RetryContinue(a, b)
               /\ OkClose(a, b)' = OkClose(a, b)
               /\ Passthrough(a, b)' = Passthrough(a, b)
               /\ TailCall(a, b)' = TailCall(a, b)
               /\ Unpack(a, b)' = Unpack(a, b)
               /\ IgnoredEmit(a, b)' = IgnoredEmit(a, b)
    BY DEF CompactExits, CoveredBy, FreshAfterCheck, Grouped, IgnoredEmit, Meets,
           OkClose, Passthrough, PlacesOverlap, RetryContinue, StepPlaces, TailCall,
           Unpack
  <2> QED BY <2>1, <2>2, <2>3 DEF FixedJoin
<1>3. cfg.join_related => FirstDecisions' = FirstDecisions
  <2>1. cfg.join_related => Tight' = Tight
    BY <1>1 DEF Tight
  <2> QED BY <2>1, SameFirst
<1> QED BY <1>1, <1>2, <1>3 DEF Held, Firm, MandatoryJoin

\* Under join_related the rules see only which firm gaps have blank lines.
LEMMA FirmSight ==
    ASSUME cfg' = cfg, list' = list, cfg.join_related,
           \A i \in Gaps : Firm(i) => (blank'[i] = 0 <=> blank[i] = 0)
    PROVE  SameSight
<1>1. Gaps' = Gaps /\ Tight' = Tight
  BY DEF Gaps, Size, Tight
<1>2. ASSUME NEW slots, NEW k \in Gaps PROVE Open(slots, k)' = Open(slots, k)
  <2>1. U(k)' = U(k) /\ Blocked(k)' = Blocked(k)
    BY DEF U, Blocked
  <2>2. Ordinary(U(k))' = Ordinary(U(k))
    BY <2>1 DEF Ordinary
  <2>3. ~Blocked(k) => ((EffectiveBlank(slots, k) = 0)' <=> EffectiveBlank(slots, k) = 0)
    BY <2>1 DEF EffectiveBlank, Firm, NoDecision
  <2> QED BY <2>1, <2>2, <2>3 DEF Open
<1> QED BY <1>1, <1>2 DEF SameSight

-----------------------------------------------------------------------------
\* What planning on the result leaves of the blank lines.
Asked(slots, i) == IF slots[i] # NoDecision THEN slots[i].blanks ELSE blank[i]

LEMMA ClosingBlanks ==
    ASSUME TypeOK, Replays, round = 0 => blank = written, Close, pc' = "build",
           NEW i \in Gaps
    PROVE  /\ blank'[i] = Asked(Capped(decisions), i)
           /\ plan'[i] = Capped(decisions)[i] \/ (round > 0 /\ plan'[i] = plan[i])
<1> DEFINE built == Capped(decisions)
<1>1. \/ round = 0 /\ plan' = built /\ blank' = WithDecisions(built)
      \/ round # 0 /\ plan' = Merged(built) /\ blank' = WithDecisions(Merged(built))
  BY DEF Close, Replan
<1>2. round \in Nat
  BY DEF TypeOK
<1> HIDE DEF built
<1>3. CASE round = 0
  BY <1>1, <1>3 DEF WithDecisions, Asked, built
<1>4. CASE round # 0
  <2>1. blank = WithDecisions(plan)
    BY <1>2, <1>4 DEF Replays
  <2>2. Merged(built)[i] = IF i \in Unstable(built) THEN built[i] ELSE plan[i]
    BY DEF Merged
  <2>3. blank'[i] = IF Merged(built)[i] = NoDecision THEN written[i]
                    ELSE Merged(built)[i].blanks
    BY <1>1, <1>4 DEF WithDecisions
  <2>4. blank[i] = IF plan[i] = NoDecision THEN written[i] ELSE plan[i].blanks
    BY <2>1 DEF WithDecisions
  <2>5. i \in Unstable(built) <=> built[i] # NoDecision /\ built[i].blanks # blank[i]
    BY DEF Unstable
  <2> QED BY <1>1, <1>2, <1>4, <2>2, <2>3, <2>4, <2>5 DEF Asked, built
<1> QED BY <1>3, <1>4


\* Nothing more is asked for where planning on the result sees what it saw.
LEMMA SeenBefore ==
    ASSUME TypeOK, SameSight, pc = "close", Built(Now), Size \in Nat \ {0},
           \A i \in Gaps : blank'[i] = Asked(Capped(decisions), i)
    PROVE  Stable'
<1>1. cfg' = cfg /\ list' = list
  BY DEF SameSight
<1>2. Gaps' = Gaps
  BY <1>1 DEF Gaps, Size
<1> DEFINE layout == Separate("layout", 1)
<1>3. PICK slots : slots = decisions
  OBVIOUS
<1>4. Unstable(Capped(slots))' = {}
  <2>1. ASSUME NEW i \in Gaps
        PROVE  \/ Capped(slots)[i]' = NoDecision
               \/ Capped(slots)[i]'.blanks = blank'[i]
    <3> DEFINE x == slots[i]
               bid == Bids(i, x, layout)
    <3>1. x \in Slot /\ blank[i] \in Nat
      BY <1>3 DEF TypeOK
    <3>2. bid' = bid
      BY <1>1 DEF Bids, Blocked, Enabled, EnabledRules, U, Separate
    <3>3. bid => x = NoDecision
      BY <3>1 DEF Bids, Separate, Slot, Decision
    <3>4. Capped(slots)[i] = IF blank[i] > 1 /\ bid THEN layout ELSE x
      BY DEF Capped
    <3>5. Capped(slots)[i]' = IF blank'[i] > 1 /\ bid THEN layout ELSE x
      BY <1>2, <3>2 DEF Capped, Separate
    <3>6. blank'[i] = Asked(Capped(slots), i)
      BY <1>3
    <3>7. x # NoDecision => x.blanks \in 0..1
      BY <3>1 DEF Slot, Decision
    <3>8. layout # NoDecision /\ layout.blanks = 1
      BY DEF Separate, NoDecision
    <3> HIDE DEF x, bid, layout
    <3> QED BY <3>1, <3>3, <3>4, <3>5, <3>6, <3>7, <3>8 DEF Asked
  <2>2. NoDecision' = NoDecision
    BY DEF NoDecision
  <2> QED BY <1>2, <2>1, <2>2 DEF Unstable
<1>5. Now.pc = "close" /\ Now.slots = slots
  BY <1>3 DEF Now, Stage
<1>6. PICK r : r = Now
  OBVIOUS
<1>7. Built(r)'
  BY <1>6, SameBuilt
<1>8. r.pc = "close" /\ r.slots = slots
  BY <1>5, <1>6
<1> QED BY <1>4, <1>7, <1>8 DEF Stable

LEMMA GapsAreCounted ==
    ASSUME Size \in Nat \ {0}, NEW S, S \subseteq Gaps
    PROVE  /\ Cardinality(S) \in Nat /\ Cardinality(S) <= Size - 1
           /\ Cardinality(S) = Size - 1 => S = Gaps
           /\ \A T : T \subseteq S => /\ Cardinality(T) <= Cardinality(S)
                                      /\ T # S => Cardinality(T) + 1 <= Cardinality(S)
<1>1. IsFiniteSet(Gaps) /\ Cardinality(Gaps) = Size - 1
  <2>1. 1 \in Int /\ Size - 1 \in Int
    OBVIOUS
  <2>2. IsFiniteSet(1..(Size - 1))
        /\ Cardinality(1..(Size - 1)) = IF 1 > Size - 1 THEN 0 ELSE (Size - 1) - 1 + 1
    BY <2>1, FS_Interval
  <2> QED BY <2>2 DEF Gaps
<1>2. IsFiniteSet(S) /\ Cardinality(S) <= Cardinality(Gaps)
      /\ (Cardinality(Gaps) = Cardinality(S) => Gaps = S)
  BY <1>1, FS_Subset
<1>3. Cardinality(S) \in Nat
  BY <1>2, FS_CardinalityType
<1>4. ASSUME NEW T, T \subseteq S
      PROVE  /\ Cardinality(T) <= Cardinality(S)
             /\ T # S => Cardinality(T) + 1 <= Cardinality(S)
  <2>1. IsFiniteSet(T) /\ Cardinality(T) <= Cardinality(S)
        /\ (Cardinality(S) = Cardinality(T) => S = T)
    BY <1>2, <1>4, FS_Subset
  <2>2. Cardinality(T) \in Nat
    BY <2>1, FS_CardinalityType
  <2> QED BY <1>3, <2>1, <2>2
<1> QED BY <1>1, <1>2, <1>3, <1>4

Settling ==
    /\ pc # "unsettled"
    /\ round = 0 => blank = written /\ plan = NoDecisions
    /\ \A i \in Gaps :
           /\ pc \in {"setup", "close"} =>
                  /\ Held(i) => MandatoryJoin(decisions[i])
                  /\ cfg.join_related /\ MandatoryJoin(decisions[i]) => Held(i)
                  /\ Firm(i) /\ blank[i] # 0 => Parted(decisions[i])
           /\ round > 0 /\ Held(i) => blank[i] = 0
           /\ cfg.join_related /\ MandatoryJoin(plan[i]) => Held(i)
    /\ IF cfg.join_related THEN Stable \/ Cardinality(FirmlyApart) >= round
       ELSE Cardinality(Apart) + 1 >= round

\* What the end of a build makes of one gap.
LEMMA ClosingSlot ==
    ASSUME TypeOK, Settling, pc = "close", NEW i \in Gaps
    PROVE  LET slot == Capped(decisions)[i]
           IN  /\ Held(i) => MandatoryJoin(slot) /\ Asked(Capped(decisions), i) = 0
               /\ cfg.join_related /\ MandatoryJoin(slot) => Held(i)
               /\ Firm(i) /\ blank[i] # 0 => Parted(slot)
               /\ slot # NoDecision => slot.blanks \in 0..1
<1>1. /\ Held(i) => MandatoryJoin(decisions[i])
      /\ cfg.join_related /\ MandatoryJoin(decisions[i]) => Held(i)
      /\ Firm(i) /\ blank[i] # 0 => Parted(decisions[i])
  BY DEF Settling
<1>2. Capped(decisions)[i] \in {decisions[i], Separate("layout", 1)}
  BY DEF Capped
<1>3. MandatoryJoin(decisions[i]) => Capped(decisions)[i] = decisions[i]
  BY JoinIsCapped
<1>4. decisions[i] \in Slot
  BY DEF TypeOK
<1>5. decisions[i] # NoDecision => decisions[i].blanks \in 0..1
  BY <1>4 DEF Slot, Decision
<1> DEFINE slot == Capped(decisions)[i]
<1>6. Separate("layout", 1).blanks = 1
  BY DEF Separate
<1>7. \A x : MandatoryJoin(x) => x # NoDecision /\ x.blanks = 0
  BY DEF MandatoryJoin, NoDecision
<1> HIDE DEF slot
<1>8. slot = decisions[i] \/ slot.blanks = 1
  BY <1>2, <1>6 DEF slot
<1>9. Asked(Capped(decisions), i) = IF slot # NoDecision THEN slot.blanks ELSE blank[i]
  BY DEF Asked, slot
<1>10. MandatoryJoin(slot) => slot = decisions[i]
  BY <1>7, <1>8
<1> QED BY <1>1, <1>3, <1>5, <1>7, <1>8, <1>9, <1>10 DEF slot, Parted

\* Blank lines of a gap that is firm, or that is not held, once there stay.
LEMMA OpenStays ==
    ASSUME TypeOK, Settling, pc = "close", NEW i \in Gaps, Firm(i), blank[i] # 0
    PROVE  Asked(Capped(decisions), i) \in {1, blank[i]}
BY ClosingSlot DEF Asked, Parted

\* The three ends of a build.
LEMMA ClosingCases ==
    ASSUME TypeOK, Replays, Settling, Close
    PROVE  /\ pc = "close" /\ cfg' = cfg /\ list' = list /\ written' = written
           /\ Gaps' = Gaps /\ Size' = Size /\ Size \in Nat \ {0} /\ round \in 0..Size
           /\ \A i : Held(i)' = Held(i) /\ Firm(i)' = Firm(i)
           /\ \/ /\ pc' = "build" /\ round' = round + 1
                 /\ round = 0 \/ Unstable(Capped(decisions)) # {}
                 /\ \A i \in Gaps :
                       /\ blank'[i] = Asked(Capped(decisions), i)
                       /\ \/ plan'[i] = Capped(decisions)[i]
                          \/ round > 0 /\ plan'[i] = plan[i]
              \/ /\ pc' = "planned" /\ round > 0 /\ Unstable(Capped(decisions)) = {}
                 /\ UNCHANGED <<blank, round, plan>>
              \/ /\ pc' = "unsettled" /\ round = Size /\ Unstable(Capped(decisions)) # {}
                 /\ UNCHANGED <<blank, round, plan>>
<1>1. pc = "close" /\ cfg' = cfg /\ list' = list /\ written' = written
  BY DEF Close, input
<1>2. Size \in Nat \ {0} /\ round \in 0..Size
  BY LenProperties DEF TypeOK, IsList, Size
<1>3. round = 0 => blank = written
  BY DEF Settling
<1> DEFINE built == Capped(decisions)
<1>4. \/ /\ round = 0 \/ Unstable(built) # {}
         /\ round' = round + 1 /\ pc' = "build"
      \/ /\ round # 0 /\ Unstable(built) = {} /\ pc' = "planned"
         /\ UNCHANGED <<blank, round, plan>>
      \/ /\ round # 0 /\ Unstable(built) # {} /\ ~(round < Size) /\ pc' = "unsettled"
         /\ UNCHANGED <<blank, round, plan>>
  BY DEF Close, Replan
<1>5. pc' = "build" =>
          \A i \in Gaps : /\ blank'[i] = Asked(built, i)
                          /\ plan'[i] = built[i] \/ (round > 0 /\ plan'[i] = plan[i])
  BY <1>3, ClosingBlanks
<1> HIDE DEF built
<1>6. Gaps' = Gaps /\ Size' = Size /\ \A i : Held(i)' = Held(i) /\ Firm(i)' = Firm(i)
  BY <1>1, SameHeld
<1> QED BY <1>1, <1>2, <1>4, <1>5, <1>6 DEF built

LEMMA ClosingRelated ==
    ASSUME TypeOK, Replays, Settling, Close, cfg.join_related
    PROVE  pc' # "unsettled" /\ (Stable' \/ Cardinality(FirmlyApart') >= round')
<1> DEFINE built == Capped(decisions)
<1>1. /\ pc = "close" /\ cfg' = cfg /\ list' = list /\ Gaps' = Gaps
      /\ Size \in Nat \ {0} /\ round \in 0..Size
  BY ClosingCases
<1>2. FirmlyApart \subseteq Gaps /\ FirmlyApart' \subseteq Gaps
  BY <1>1 DEF FirmlyApart
<1>3. Built(Now)
  BY <1>1 DEF Replays
<1>4. CASE Stable
  <2>1. Unstable(built) = {}
    BY <1>1, <1>3, <1>4, StableClose
  <2>2. pc' # "unsettled"
    BY <2>1, ClosingCases
  <2>3. UNCHANGED <<cfg, list, blank>>
    <3>1. CASE pc' = "planned"
      BY <1>1, <3>1, ClosingCases
    <3>2. CASE pc' # "planned"
      <4>1. round = 0 /\ plan' = built /\ blank' = WithDecisions(built)
        BY <2>1, <3>2 DEF Close, Replan
      <4>2. WithDecisions(built) = blank
        <5>1. blank = written
          BY <4>1 DEF Settling
        <5> HIDE DEF built
        <5> QED BY <2>1, <5>1, SettledBlanks
      <4> QED BY <1>1, <4>1, <4>2
    <3> QED BY <3>1, <3>2
  <2>4. Stable'
    BY <1>1, <1>4, <2>3, SameStable
  <2> QED BY <2>2, <2>4
<1>5. CASE ~Stable
  <2>1. Cardinality(FirmlyApart) >= round
    BY <1>5 DEF Settling
  <2>2. pc' # "unsettled"
    <3>1. Cardinality(FirmlyApart) \in Nat /\ Cardinality(FirmlyApart) <= Size - 1
      BY <1>1, <1>2, GapsAreCounted
    <3>2. round # Size
      BY <1>1, <2>1, <3>1
    <3> QED BY <3>2, ClosingCases
  <2>3. CASE pc' = "planned"
    <3>1. Unstable(Capped(decisions)) = {}
      BY <2>3, ClosingCases
    <3> QED BY <1>1, <1>3, <1>5, <3>1, CloseIsStable
  <2>4. CASE pc' = "build"
    <3>1. round' = round + 1 /\ \A i \in Gaps : blank'[i] = Asked(Capped(decisions), i)
      BY <2>4, ClosingCases
    <3>2. FirmlyApart' = {i \in Gaps : Firm(i) /\ blank'[i] # 0}
      BY ClosingCases DEF FirmlyApart
    <3>3. ASSUME NEW i \in FirmlyApart PROVE i \in FirmlyApart'
      <4>1. i \in Gaps /\ Firm(i) /\ blank[i] # 0
        BY DEF FirmlyApart
      <4>2. blank'[i] \in {1, blank[i]}
        BY <1>1, <3>1, <4>1, OpenStays
      <4> QED BY <3>2, <4>1, <4>2
    <3>4. CASE FirmlyApart' = FirmlyApart
      <4>1. \A i \in Gaps : Firm(i) => (blank'[i] = 0 <=> blank[i] = 0)
        BY <3>2, <3>4 DEF FirmlyApart
      <4>2. SameSight
        BY <1>1, <4>1, FirmSight
      <4>3. Stable'
        BY <1>1, <1>3, <3>1, <4>2, SeenBefore
      <4> QED BY <2>2, <4>3
    <3>5. CASE FirmlyApart' # FirmlyApart
      <4>1. PICK more : more = FirmlyApart'
        OBVIOUS
      <4>2. FirmlyApart \subseteq more /\ more # FirmlyApart /\ more \subseteq Gaps
        BY <1>2, <3>3, <3>5, <4>1
      <4>3. /\ Cardinality(more) \in Nat
            /\ Cardinality(FirmlyApart) + 1 <= Cardinality(more)
        BY <1>1, <4>2, GapsAreCounted
      <4>4. Cardinality(FirmlyApart) \in Nat
        BY <1>1, <1>2, GapsAreCounted
      <4>5. Cardinality(more) >= round'
        BY <1>1, <2>1, <3>1, <4>3, <4>4
      <4> QED BY <2>2, <4>1, <4>5
    <3> QED BY <3>4, <3>5
  <2> QED BY <2>2, <2>3, <2>4, ClosingCases
<1> QED BY <1>4, <1>5

LEMMA ClosingOther ==
    ASSUME TypeOK, Replays, Settling, Close, ~cfg.join_related
    PROVE  /\ pc' # "unsettled" /\ Cardinality(Apart') + 1 >= round'
           /\ round > 0 => Apart \subseteq Apart'
<1> DEFINE built == Capped(decisions)
<1>1. pc = "close" /\ Gaps' = Gaps /\ Size \in Nat \ {0} /\ round \in 0..Size
  BY ClosingCases
<1>2. Apart \subseteq Gaps /\ Apart' = {i \in Gaps : blank'[i] = 1}
  BY <1>1 DEF Apart
<1>3. Cardinality(Apart) + 1 >= round
  BY DEF Settling
<1>4. \A i \in Gaps : Held(i) <=> ~Firm(i)
  BY DEF Held, Firm
<1>5. ASSUME round > 0, NEW i \in Apart PROVE Asked(Capped(decisions), i) = 1
  <2>1. i \in Gaps /\ blank[i] = 1
    BY DEF Apart
  <2>2. Firm(i)
    BY <1>4, <1>5, <2>1 DEF Settling
  <2> QED BY <1>1, <2>1, <2>2, OpenStays
<1>6. ASSUME round > 0, NEW i \in Unstable(built)
      PROVE  i \in Gaps \ Apart /\ Asked(Capped(decisions), i) = 1
  <2>1. i \in Gaps /\ built[i] # NoDecision /\ built[i].blanks # blank[i]
    BY DEF Unstable
  <2>2. Asked(Capped(decisions), i) = built[i].blanks
    BY <2>1 DEF Asked
  <2>3. i \notin Apart
    <3>1. i \in Apart => Asked(Capped(decisions), i) = 1 /\ blank[i] = 1
      BY <1>5, <1>6 DEF Apart
    <3> QED BY <2>1, <2>2, <3>1
  <2>4. built[i].blanks \in 0..1
    BY <1>1, <2>1, ClosingSlot
  <2>5. built[i].blanks # 0
    <3>1. CASE blank[i] = 0
      BY <2>1, <3>1
    <3>2. CASE blank[i] # 0
      <4>1. Firm(i)
        BY <1>4, <1>6, <2>1, <3>2 DEF Settling
      <4>2. Asked(Capped(decisions), i) \in {1, blank[i]}
        BY <1>1, <2>1, <3>2, <4>1, OpenStays
      <4> HIDE DEF built
      <4> QED BY <2>2, <3>2, <4>2
    <3> QED BY <3>1, <3>2
  <2> HIDE DEF built
  <2> QED BY <2>1, <2>2, <2>3, <2>4, <2>5
<1>7. CASE pc' = "planned"
  <2>1. UNCHANGED <<blank, round>>
    BY <1>7, ClosingCases
  <2>2. Apart' = Apart
    BY <1>1, <2>1 DEF Apart
  <2> QED BY <1>3, <1>7, <2>1, <2>2
<1>8. CASE pc' = "unsettled"
  <2>1. round = Size /\ Unstable(built) # {}
    BY <1>8, ClosingCases
  <2>2. PICK i : i \in Unstable(built)
    BY <2>1
  <2>3. i \in Gaps \ Apart
    BY <1>1, <1>6, <2>1, <2>2
  <2>4. Cardinality(Apart) \in Nat /\ Cardinality(Apart) <= Size - 1
        /\ (Cardinality(Apart) = Size - 1 => Apart = Gaps)
    BY <1>1, <1>2, GapsAreCounted
  <2>5. Cardinality(Apart) = Size - 1
    BY <1>1, <1>3, <2>1, <2>4
  <2> QED BY <2>3, <2>4, <2>5
<1>9. CASE pc' = "build"
  <2>1. /\ round' = round + 1 /\ \A i \in Gaps : blank'[i] = Asked(Capped(decisions), i)
        /\ round = 0 \/ Unstable(built) # {}
    BY <1>9, ClosingCases
  <2>2. PICK more : more = Apart'
    OBVIOUS
  <2>3. more \subseteq Gaps /\ \A i \in Gaps : i \in more <=> blank'[i] = 1
    BY <1>2, <2>2
  <2>4. Cardinality(more) \in Nat /\ Cardinality(Apart) \in Nat
    BY <1>1, <1>2, <2>3, GapsAreCounted
  <2>5. CASE round = 0
    BY <1>9, <2>1, <2>2, <2>4, <2>5
  <2>6. CASE round > 0
    <3>1. Apart \subseteq more
      BY <1>2, <1>5, <2>1, <2>3, <2>6
    <3>2. PICK i : i \in Unstable(built)
      BY <2>1, <2>6
    <3>3. i \in Gaps \ Apart /\ i \in more
      BY <1>6, <2>1, <2>3, <2>6, <3>2
    <3>4. Cardinality(Apart) + 1 <= Cardinality(more)
      BY <1>1, <2>3, <3>1, <3>3, GapsAreCounted
    <3>5. Cardinality(more) + 1 >= round'
      BY <1>1, <1>3, <2>1, <2>4, <3>4
    <3> QED BY <1>9, <2>2, <3>1, <3>5
  <2> QED BY <1>1, <2>5, <2>6
<1> QED BY <1>7, <1>8, <1>9, ClosingCases

LEMMA ClosingSettles ==
    ASSUME TypeOK, Replays, Settling, Close PROVE Settling'
<1>1. /\ pc = "close" /\ cfg' = cfg /\ Gaps' = Gaps /\ round \in Nat
      /\ \A i : Held(i)' = Held(i) /\ Firm(i)' = Firm(i)
  BY ClosingCases
<1>2. pc' # "unsettled"
  BY ClosingRelated, ClosingOther
<1>3. IF cfg'.join_related THEN Stable' \/ Cardinality(FirmlyApart') >= round'
      ELSE Cardinality(Apart') + 1 >= round'
  BY <1>1, ClosingRelated, ClosingOther
<1>4. round' # 0 /\ pc' \notin {"setup", "close"}
  BY <1>1, ClosingCases
<1>5. ASSUME NEW i \in Gaps
      PROVE  /\ Held(i) => blank'[i] = 0
             /\ cfg.join_related /\ MandatoryJoin(plan'[i]) => Held(i)
  <2>1. /\ Held(i) => Asked(Capped(decisions), i) = 0
        /\ cfg.join_related /\ MandatoryJoin(Capped(decisions)[i]) => Held(i)
    BY <1>1, ClosingSlot
  <2>2. /\ round > 0 /\ Held(i) => blank[i] = 0
        /\ cfg.join_related /\ MandatoryJoin(plan[i]) => Held(i)
    BY DEF Settling
  <2>3. \/ /\ blank'[i] = Asked(Capped(decisions), i)
           /\ plan'[i] = Capped(decisions)[i] \/ plan'[i] = plan[i]
        \/ round > 0 /\ blank' = blank /\ plan' = plan
    BY <1>2, ClosingCases
  <2> QED BY <2>1, <2>2, <2>3
<1>6. \A i \in Gaps : (MandatoryJoin(plan[i]))' = MandatoryJoin(plan'[i])
  BY DEF MandatoryJoin
<1> QED BY <1>1, <1>2, <1>3, <1>4, <1>5, <1>6 DEF Settling

\* A step that leaves the blank lines and the plan keeps what they settle.
LEMMA SettlingKept ==
    ASSUME TypeOK, Settling, UNCHANGED <<cfg, list, blank, written, round, plan>>,
           pc' # "unsettled",
           pc' \in {"setup", "close"} =>
               \A i \in Gaps : /\ Held(i) => MandatoryJoin(decisions'[i])
                               /\ cfg.join_related /\ MandatoryJoin(decisions'[i]) => Held(i)
                               /\ Firm(i) /\ blank[i] # 0 => Parted(decisions'[i])
    PROVE  Settling'
<1>1. /\ cfg' = cfg /\ list' = list /\ blank' = blank /\ written' = written
      /\ round' = round /\ plan' = plan
  OBVIOUS
<1>2. /\ Gaps' = Gaps /\ Size' = Size
      /\ \A i : Held(i)' = Held(i) /\ Firm(i)' = Firm(i)
  BY <1>1, SameHeld
<1>3. FirmlyApart' = FirmlyApart /\ Apart' = Apart /\ NoDecisions' = NoDecisions
  BY <1>1, <1>2 DEF FirmlyApart, Apart, NoDecisions, NoDecision
<1>4. Size \in Nat \ {0}
  BY LenProperties DEF TypeOK, IsList, Size
<1>5. Stable => Stable'
  BY <1>4, SameStable
<1>6. /\ \A i : MandatoryJoin(decisions[i])' = MandatoryJoin(decisions'[i])
      /\ \A i : MandatoryJoin(plan[i])' = MandatoryJoin(plan[i])
      /\ \A i : Parted(decisions[i])' = Parted(decisions'[i])
  BY <1>1 DEF MandatoryJoin, Parted, NoDecision
<1>7. \A i \in Gaps : /\ pc' \in {"setup", "close"} =>
                            /\ Held(i) => MandatoryJoin(decisions'[i])
                            /\ cfg.join_related /\ MandatoryJoin(decisions'[i]) => Held(i)
                            /\ Firm(i) /\ blank[i] # 0 => Parted(decisions'[i])
                      /\ round > 0 /\ Held(i) => blank[i] = 0
                      /\ cfg.join_related /\ MandatoryJoin(plan[i]) => Held(i)
  BY DEF Settling
<1>8. IF cfg.join_related THEN Stable' \/ Cardinality(FirmlyApart) >= round
      ELSE Cardinality(Apart) + 1 >= round
  BY <1>5 DEF Settling
<1>9. round = 0 => blank = written /\ plan = NoDecisions
  BY DEF Settling
<1> QED BY <1>1, <1>2, <1>3, <1>6, <1>7, <1>8, <1>9 DEF Settling

LEMMA SettlingStep ==
    ASSUME TypeOK, Replays, Settling, [Next]_vars PROVE Settling'
<1>1. Size \in Nat \ {0} /\ cfg \in Configs
  BY LenProperties DEF TypeOK, IsList, Size
<1>2. ASSUME NEW i \in Gaps, pc \in {"setup", "close"}
      PROVE  /\ Held(i) => MandatoryJoin(decisions[i])
             /\ cfg.join_related /\ MandatoryJoin(decisions[i]) => Held(i)
             /\ Firm(i) /\ blank[i] # 0 => Parted(decisions[i])
  BY <1>2 DEF Settling
<1>3. CASE Validate
  <2>1. UNCHANGED <<cfg, list, blank, written, round, plan>> /\ pc' \in {"build", "invalid"}
    BY <1>3 DEF Validate, input
  <2> QED BY <2>1, SettlingKept
<1>4. CASE Build
  <2>1. /\ UNCHANGED <<cfg, list, blank, written, round, plan>> /\ pc' = "setup"
        /\ decisions' = FirstDecisions
    BY <1>4 DEF Build, input, Groups, FirstDecisions
  <2>2. ASSUME NEW i \in Gaps
        PROVE  /\ Held(i) => MandatoryJoin(decisions'[i])
               /\ cfg.join_related /\ MandatoryJoin(decisions'[i]) => Held(i)
               /\ Firm(i) /\ blank[i] # 0 => Parted(decisions'[i])
    <3>1. Held(i) => MandatoryJoin(decisions'[i])
      BY <2>1, HeldIsJoined
    <3>2. cfg.join_related /\ MandatoryJoin(decisions'[i]) => Held(i)
      BY <2>1 DEF Held
    <3>3. Firm(i) /\ blank[i] # 0 => Parted(decisions'[i])
      <4>1. decisions'[i] = Winner(i, GapOffers(i, CohesiveGaps))
        BY <2>1 DEF FirstDecisions
      <4> QED BY <1>1, <4>1, FirmIsParted
    <3> QED BY <3>1, <3>2, <3>3
  <2> QED BY <2>1, <2>2, SettlingKept
<1>5. CASE SetupControl
  <2> DEFINE c == Min(ControlsFrom(control))
  <2>1. /\ UNCHANGED <<cfg, list, blank, written, round, plan, pc>> /\ pc = "setup"
        /\ decisions' = SetupStep(c, decisions, cohesive)
    BY <1>5 DEF SetupControl, input
  <2>2. Control(c)
    <3>1. control \in Nat \ {0}
      BY <1>1 DEF TypeOK
    <3>2. ControlsFrom(control) # {} /\ ControlsFrom(control) \subseteq Nat
      BY <1>5, <3>1 DEF SetupControl, ControlsFrom
    <3>3. c \in ControlsFrom(control)
      BY <3>2, MinIsMember
    <3> QED BY <3>1, <3>3 DEF ControlsFrom, Control
  <2> HIDE DEF c
  <2>3. ASSUME NEW i \in Gaps
        PROVE  /\ MandatoryJoin(decisions'[i]) <=> MandatoryJoin(decisions[i])
               /\ Firm(i) /\ Parted(decisions[i]) => Parted(decisions'[i])
    BY <1>1, <2>1, <2>2, PutsParted
  <2>4. ASSUME NEW i \in Gaps
        PROVE  /\ Held(i) => MandatoryJoin(decisions'[i])
               /\ cfg.join_related /\ MandatoryJoin(decisions'[i]) => Held(i)
               /\ Firm(i) /\ blank[i] # 0 => Parted(decisions'[i])
    BY <1>2, <2>1, <2>3
  <2> QED BY <2>1, <2>4, SettlingKept
<1>6. CASE SetupPass
  <2>1. /\ UNCHANGED <<cfg, list, blank, written, round, plan, decisions>>
        /\ pc = "setup" /\ pc' \in {"setup", "close"}
    BY <1>6 DEF SetupPass, input
  <2> QED BY <1>2, <2>1, SettlingKept
<1>7. CASE Close
  BY <1>7, ClosingSettles
<1>8. CASE Apply
  <2>1. /\ cfg' = cfg /\ list' = list /\ blank' = written' /\ round' = 0 /\ pc' = "build"
        /\ plan' = NoDecisions
    BY <1>8 DEF Apply
  <2>2. Gaps' = Gaps /\ Size' = Size
    BY <2>1, SameHeld
  <2>3. NoDecisions' = NoDecisions /\ \A i \in Gaps : ~MandatoryJoin(plan[i])'
    BY <2>1, <2>2 DEF NoDecisions, NoDecision, MandatoryJoin
  <2>4. FirmlyApart' \subseteq Gaps /\ Apart' \subseteq Gaps
    BY <2>2 DEF FirmlyApart, Apart
  <2>5. Cardinality(FirmlyApart') \in Nat /\ Cardinality(Apart') \in Nat
    <3>1. PICK S, T : S = FirmlyApart' /\ T = Apart'
      OBVIOUS
    <3>2. Cardinality(S) \in Nat /\ Cardinality(T) \in Nat
      BY <1>1, <2>4, <3>1, GapsAreCounted
    <3> QED BY <3>1, <3>2
  <2> QED BY <2>1, <2>2, <2>3, <2>5 DEF Settling
<1>9. CASE Done \/ UNCHANGED vars
  <2>1. UNCHANGED <<cfg, list, blank, written, round, plan, decisions, pc>>
    BY <1>9 DEF Done, vars, input
  <2>2. pc' # "unsettled"
    BY <2>1 DEF Settling
  <2> QED BY <1>2, <2>1, <2>2, SettlingKept
<1> QED BY <1>3, <1>4, <1>5, <1>6, <1>7, <1>8, <1>9 DEF Next

LEMMA SettlingInit == ASSUME Init PROVE Settling
<1>1. /\ pc = "validate" /\ round = 0 /\ blank = written /\ plan = NoDecisions
  BY DEF Init
<1>2. \A i \in Gaps : ~MandatoryJoin(plan[i])
  BY <1>1 DEF NoDecisions, NoDecision, MandatoryJoin
<1>3. Size \in Nat \ {0}
  BY PlannerInit, LenProperties DEF TypeOK, IsList, Size
<1>4. Cardinality(FirmlyApart) \in Nat /\ Cardinality(Apart) \in Nat
  BY <1>3, GapsAreCounted DEF FirmlyApart, Apart
<1> QED BY <1>1, <1>2, <1>4 DEF Settling

\* For every list and configuration the planner settles, within the rounds it
\* has: the error that it did not is never reported.
THEOREM PlanningSettles == Spec => []Settles
<1>1. Init => Replays
  BY DEF Init, Replays
<1>2. Settling => Settles
  BY DEF Settling, Settles
<1> QED
  BY <1>1, <1>2, PlannerTypes, ReplaysStep, SettlingInit, SettlingStep, PTL DEF Spec

\* What a plan holds together stays together while it is planned again; without
\* join_related, what it has separated stays separated.
THEOREM JoinsAlwaysStand == Spec => JoinsStand
<1>1. Init => Replays
  BY DEF Init, Replays
<1>2. ASSUME TypeOK, Replays, Settling, [Next]_vars
      PROVE  [round' >= round => HeldStaysHeld /\ PlannedStaysHeld]_vars
  <2>1. HeldStaysHeld
    BY <1>2, HeldStep
  <2>2. SUFFICES ASSUME round' >= round PROVE PlannedStaysHeld
    BY <2>1
  <2>3. CASE Close
    <3>1. CASE cfg.join_related
      <4> SUFFICES ASSUME NEW i \in Gaps, MandatoryJoin(plan[i]) PROVE MandatoryJoin(plan'[i])
        BY <3>1 DEF PlannedStaysHeld
      <4>1. Held(i)
        BY <1>2, <3>1 DEF Settling
      <4>2. round # 0
        BY <1>2 DEF Settling, NoDecisions, NoDecision, MandatoryJoin
      <4>3. MandatoryJoin(Capped(decisions)[i])
        BY <1>2, <2>3, <4>1, ClosingCases, ClosingSlot
      <4>4. plan'[i] \in {plan[i], Capped(decisions)[i]}
        BY <1>2, <2>3, ClosingCases
      <4> QED BY <4>3, <4>4
    <3>2. CASE ~cfg.join_related
      <4>1. round > 0 => Apart \subseteq Apart'
        BY <1>2, <2>3, <3>2, ClosingOther
      <4>2. Gaps' = Gaps
        BY <1>2, <2>3, ClosingCases
      <4> QED BY <3>2, <4>1, <4>2 DEF PlannedStaysHeld, Apart
    <3> QED BY <3>1, <3>2
  <2>4. CASE ~Close
    <3>1. ~Apply
      BY <1>2, <2>2 DEF Apply, Replays, TypeOK
    <3>2. plan' = plan /\ blank' = blank
      BY <1>2, <2>4, <3>1
         DEF Next, vars, Validate, Build, SetupControl, SetupPass, Done
    <3> QED BY <3>2 DEF PlannedStaysHeld
  <2> QED BY <2>3, <2>4
<1> QED
  BY <1>1, <1>2, PlannerTypes, ReplaysStep, SettlingInit, SettlingStep, PTL DEF Spec, JoinsStand
==============================================================================
