-------------------------- MODULE GhostExchangeProofs --------------------------
(***************************************************************************)
(* The exchange of both solvers: any grid or graph, number of ranks and of *)
(* sweeps, whatever the interleaving.  First, for any plans that match and *)
(* mirror the serial field, the messages are accounted for, what they      *)
(* carry is followed, and the loop is shown to compute what the serial     *)
(* solver does.  Then the plans that the ranks of a grid, and those of a   *)
(* graph, work out before the loop are shown to be such plans.             *)
(***************************************************************************)
EXTENDS GhostExchange, SequenceTheorems, FiniteSetTheorems, TLAPS

(* What HaloPlan and GraphPlan provide, in every problem: the invariant    *)
(* CallsPair.                                                              *)
PlansMatch == \A p \in Problems : Matched(p, Plan[p])

(* The place of a channel in the chains of calls of its two ends.          *)
SendPlace(ch) == CHOOSE k \in SendsOn(setup.plan, ch) : TRUE
TakePlace(ch) == CHOOSE k \in TakesOn(setup.plan, ch) : TRUE

(* Messages sent on a channel, and taken from it, since the start.         *)
Posted(ch) ==
  it[ch[1]] + (IF \/ call[ch[1]] > SendPlace(ch)
                  \/ call[ch[1]] = SendPlace(ch) /\ stage[ch[1]] # "idle" THEN 1 ELSE 0)
Taken(ch) ==
  it[ch[2]] + (IF \/ call[ch[2]] > TakePlace(ch)
                  \/ call[ch[2]] = TakePlace(ch) /\ stage[ch[2]] = "received" THEN 1 ELSE 0)

ProgressOK ==
  /\ problem \in Problems /\ setup = Setup[problem]
  /\ it \in [Ranks -> Nat] /\ call \in [Ranks -> Nat]
  /\ stage \in [Ranks -> {"idle", "posted", "received"}]
  /\ \A r \in Ranks : stage[r] # "idle" => call[r] <= Len(CallsOf(r))
  /\ \A r \in Ranks : call[r] >= 1

(* A channel holds what was sent and not yet taken, each message in the    *)
(* size of the call that sends it.                                         *)
ChannelOK(ch) ==
  IF ch[2] = ProcNull THEN net[ch] = << >>
  ELSE /\ IsSeq(net[ch])
       /\ Len(net[ch]) = Posted(ch) - Taken(ch)
       /\ \A k \in DOMAIN net[ch] :
            Len(net[ch][k]) = Len(CallsOf(ch[1])[SendPlace(ch)].out)

Accounted ==
  /\ ProgressOK
  /\ DOMAIN net = ChannelsOf(problem)
  /\ \A ch \in ChannelsOf(problem) : ChannelOK(ch)

-----------------------------------------------------------------------------
(* Sequences whatever they hold.                                           *)
LEMMA SeqDomain ==
  ASSUME NEW s, IsSeq(s)
  PROVE  Len(s) \in Nat /\ DOMAIN s = 1..Len(s)
BY DEF IsSeq

LEMMA SeqAppend ==
  ASSUME NEW s, IsSeq(s), NEW e
  PROVE  /\ IsSeq(Append(s, e)) /\ Len(Append(s, e)) = Len(s) + 1
         /\ \A i \in DOMAIN Append(s, e) :
              IF i = Len(s) + 1 THEN Append(s, e)[i] = e ELSE i \in DOMAIN s /\ Append(s, e)[i] = s[i]
<1> DEFINE S == {s[i] : i \in DOMAIN s} \cup {e}
           t == Append(s, e)
<1>1. s \in Seq(S)
  BY SeqDomain DEF IsSeq
<1>2. /\ t \in Seq(S) /\ Len(t) = Len(s) + 1 /\ t[Len(s) + 1] = e
      /\ \A i \in 1..Len(s) : t[i] = s[i]
  BY <1>1, AppendProperties
<1>3. Len(t) \in Nat /\ DOMAIN t = 1..Len(t)
  BY <1>2
<1>4. t \in Seq({t[i] : i \in DOMAIN t})
  BY <1>2, <1>3, IsASeq
<1>5. DOMAIN s = 1..Len(s) /\ Len(s) \in Nat
  BY SeqDomain
<1> HIDE DEF t
<1>6. IsSeq(t)
  BY <1>4 DEF IsSeq
<1> QED BY <1>2, <1>3, <1>5, <1>6 DEF t

LEMMA SeqTail ==
  ASSUME NEW s, IsSeq(s), s # << >>
  PROVE  /\ IsSeq(Tail(s)) /\ Len(Tail(s)) = Len(s) - 1
         /\ \A i \in DOMAIN Tail(s) : i \in Nat /\ i + 1 \in DOMAIN s /\ Tail(s)[i] = s[i + 1]
         /\ 1 \in DOMAIN s /\ Head(s) = s[1]
<1> DEFINE S == {s[i] : i \in DOMAIN s}
           t == Tail(s)
<1>1. s \in Seq(S)
  BY DEF IsSeq
<1>2. t \in Seq(S) /\ Len(t) = Len(s) - 1 /\ \A i \in 1..Len(t) : t[i] = s[i + 1]
  BY <1>1, HeadTailProperties
<1>3. Len(t) \in Nat /\ t \in [1..Len(t) -> S]
  BY <1>2, LenProperties
<1>4. Len(s) \in Nat /\ DOMAIN s = 1..Len(s)
  BY SeqDomain
<1> HIDE DEF t, S
<1>5. t \in [1..Len(t) -> {t[i] : i \in DOMAIN t}]
  BY <1>3
<1>6. t \in Seq({t[i] : i \in DOMAIN t})
  BY <1>3, <1>5
<1>7. \A i \in DOMAIN t : i \in Nat /\ i + 1 \in DOMAIN s /\ t[i] = s[i + 1]
  BY <1>2, <1>3, <1>4
<1>8. 1 \in DOMAIN s
  BY <1>2, <1>3, <1>4
<1>9. Head(s) = s[1]
  BY <1>1
<1> QED BY <1>2, <1>6, <1>7, <1>8, <1>9 DEF IsSeq, t

(* Channels and the calls at their ends.                                   *)
Setting == problem \in Problems /\ setup = Setup[problem]

LEMMA PlanOfProblem == Setting => setup.plan = Plan[problem]
BY DEF Setting, Setup

LEMMA CallsAreSequences ==
  ASSUME PlansMatch, Setting, NEW r \in Ranks
  PROVE  /\ Len(CallsOf(r)) \in Nat /\ DOMAIN CallsOf(r) = 1..Len(CallsOf(r))
         /\ \A k \in DOMAIN CallsOf(r) : IsSeq(CallsOf(r)[k].out)
BY PlanOfProblem, SeqDomain DEF PlansMatch, Matched, Setting, CallsOf, Ranks

LEMMA CallOpensChannel ==
  ASSUME PlansMatch, Setting, NEW r \in Ranks, NEW k \in DOMAIN CallsOf(r)
  PROVE  <<r, CallsOf(r)[k].to, CallsOf(r)[k].tag>> \in ChannelsOf(problem)
BY PlanOfProblem DEF ChannelsOf, ToSet, CallsOf, Ranks

LEMMA ChannelHasSender ==
  ASSUME NEW ch \in ChannelsOf(problem)
  PROVE  /\ ch[1] \in Ranks
         /\ ch = <<ch[1], ch[2], ch[3]>>
BY DEF ChannelsOf, Ranks

LEMMA ChannelPlaces ==
  ASSUME PlansMatch, Setting, NEW ch \in ChannelsOf(problem), ch[2] # ProcNull
  PROVE  /\ ch[2] \in Ranks
         /\ SendsOn(setup.plan, ch) = {SendPlace(ch)} /\ TakesOn(setup.plan, ch) = {TakePlace(ch)}
         /\ Len(CallsOf(ch[1])[SendPlace(ch)].out) = Len(CallsOf(ch[2])[TakePlace(ch)].in)
         /\ \E back \in ChannelsOf(problem) : back[1] = ch[2] /\ back[2] = ch[1]
<1>1. Matched(problem, setup.plan)
  BY PlanOfProblem DEF PlansMatch, Setting
<1>2. PICK i \in SendsOn(setup.plan, ch), j \in TakesOn(setup.plan, ch) :
        /\ SendsOn(setup.plan, ch) = {i} /\ TakesOn(setup.plan, ch) = {j}
        /\ Len(setup.plan[ch[1]].calls[i].out) = Len(setup.plan[ch[2]].calls[j].in)
  BY <1>1 DEF Matched
<1>3. SendPlace(ch) = i /\ TakePlace(ch) = j
  BY <1>2 DEF SendPlace, TakePlace
<1>4. /\ ch[2] \in Ranks
      /\ \E back \in ChannelsOf(problem) : back[1] = ch[2] /\ back[2] = ch[1]
  BY <1>1 DEF Matched, Ranks
<1> QED BY <1>2, <1>3, <1>4 DEF CallsOf

LEMMA PlacesUnique ==
  ASSUME PlansMatch, Setting, NEW ch \in ChannelsOf(problem), ch[2] # ProcNull
  PROVE  /\ SendPlace(ch) \in 1..Len(CallsOf(ch[1])) /\ TakePlace(ch) \in 1..Len(CallsOf(ch[2]))
         /\ CallsOf(ch[1])[SendPlace(ch)].to = ch[2] /\ CallsOf(ch[1])[SendPlace(ch)].tag = ch[3]
         /\ CallsOf(ch[2])[TakePlace(ch)].from = ch[1] /\ CallsOf(ch[2])[TakePlace(ch)].tag = ch[3]
         /\ \A k \in DOMAIN CallsOf(ch[1]) :
              CallsOf(ch[1])[k].to = ch[2] /\ CallsOf(ch[1])[k].tag = ch[3] => k = SendPlace(ch)
         /\ \A k \in DOMAIN CallsOf(ch[2]) :
              CallsOf(ch[2])[k].from = ch[1] /\ CallsOf(ch[2])[k].tag = ch[3] => k = TakePlace(ch)
<1>1. ch[1] \in Ranks /\ ch[2] \in Ranks
  BY ChannelHasSender, ChannelPlaces
<1>2. SendsOn(setup.plan, ch) = {SendPlace(ch)} /\ TakesOn(setup.plan, ch) = {TakePlace(ch)}
  BY ChannelPlaces
<1>3. /\ SendPlace(ch) \in DOMAIN CallsOf(ch[1]) /\ TakePlace(ch) \in DOMAIN CallsOf(ch[2])
  BY <1>2 DEF SendsOn, TakesOn, CallsOf
<1>4. SendPlace(ch) \in 1..Len(CallsOf(ch[1])) /\ TakePlace(ch) \in 1..Len(CallsOf(ch[2]))
  BY <1>1, <1>3, CallsAreSequences
<1> QED BY <1>2, <1>4 DEF SendsOn, TakesOn, CallsOf

LEMMA NullIsNoRank == Setting => ProcNull \notin Ranks
BY ProblemsAssumption DEF Setting, Ranks, RanksOf, ProcNull

-----------------------------------------------------------------------------
LEMMA InitAccounted ==
  ASSUME PlansMatch, Init
  PROVE  Accounted
<1>1. Setting
  BY DEF Init, Setting
<1>2. ProgressOK
  BY DEF Init, ProgressOK
<1>3. ASSUME NEW ch \in ChannelsOf(problem) PROVE ChannelOK(ch)
  <2>1. net[ch] = << >> /\ ch[1] \in Ranks
    BY <1>3, ChannelHasSender DEF Init
  <2>2. CASE ch[2] # ProcNull
    <3>1. ch[2] \in Ranks
      BY <1>1, <2>2, ChannelPlaces
    <3>2. SendPlace(ch) \in 1..Len(CallsOf(ch[1])) /\ TakePlace(ch) \in 1..Len(CallsOf(ch[2]))
      BY <1>1, <2>2, PlacesUnique
    <3>3. Len(CallsOf(ch[1])) \in Nat /\ Len(CallsOf(ch[2])) \in Nat
      BY <1>1, <2>1, <3>1, CallsAreSequences
    <3>4. /\ it[ch[1]] = 0 /\ call[ch[1]] = 1 /\ stage[ch[1]] = "idle"
          /\ it[ch[2]] = 0 /\ call[ch[2]] = 1 /\ stage[ch[2]] = "idle"
      BY <2>1, <3>1 DEF Init
    <3>5. Posted(ch) = 0
      BY <3>2, <3>3, <3>4 DEF Posted
    <3>6. Taken(ch) = 0
      BY <3>2, <3>3, <3>4 DEF Taken
    <3>7. IsSeq(<< >>) /\ Len(<< >>) = 0 /\ DOMAIN << >> = {}
      BY DEF IsSeq
    <3> QED BY <2>1, <2>2, <3>5, <3>6, <3>7 DEF ChannelOK
  <2> QED BY <2>1, <2>2 DEF ChannelOK
<1> QED BY <1>2, <1>3 DEF Accounted, Init

(* The places of a channel are settled with the problem.                   *)
LEMMA PlacesStay ==
  ASSUME UNCHANGED <<problem, setup>>
  PROVE  /\ ChannelsOf(problem)' = ChannelsOf(problem) /\ Ranks' = Ranks /\ Setting' = Setting
         /\ \A ch : SendPlace(ch)' = SendPlace(ch) /\ TakePlace(ch)' = TakePlace(ch)
         /\ \A r : CallsOf(r)' = CallsOf(r)
BY DEF SendPlace, TakePlace, CallsOf, Ranks, Setting

(* How a step changes the counts of a channel.                             *)
LEMMA PostTakes ==
  ASSUME PlansMatch, Accounted, NEW r \in Ranks, Post(r),
         NEW ch \in ChannelsOf(problem), ch[2] # ProcNull
  PROVE  Taken(ch)' = Taken(ch)
<1>1. /\ Setting /\ UNCHANGED <<problem, setup, it, call>>
      /\ call[r] \in DOMAIN CallsOf(r) /\ stage[r] = "idle"
      /\ stage \in [Ranks -> {"idle", "posted", "received"}]
  <2>1. Setting /\ call[r] \in Nat /\ call[r] >= 1 /\ call[r] <= Len(CallsOf(r))
    BY DEF Accounted, ProgressOK, Setting, Post
  <2> QED BY <2>1, CallsAreSequences DEF Post, Accounted, ProgressOK
<1>2. stage' = [stage EXCEPT ![r] = IF CurrentCall(r).from = ProcNull THEN "received" ELSE "posted"]
  BY DEF Post
<1>3. ch[1] \in Ranks /\ ch[2] \in Ranks /\ ch[1] # ProcNull
  BY <1>1, ChannelHasSender, ChannelPlaces, NullIsNoRank
<1>4. ch[2] = r /\ call[r] = TakePlace(ch) => stage'[r] = "posted"
  BY <1>1, <1>2, <1>3, PlacesUnique DEF CurrentCall
<1> QED BY <1>1, <1>2, <1>3, <1>4, PlacesStay DEF Taken

LEMMA ReceiveTakes ==
  ASSUME PlansMatch, Accounted, NEW r \in Ranks, Receive(r),
         NEW ch \in ChannelsOf(problem), ch[2] # ProcNull
  PROVE  IF ch = <<CurrentCall(r).from, r, CurrentCall(r).tag>>
         THEN call[r] = TakePlace(ch) /\ ch[2] = r /\ Taken(ch) = it[r] /\ Taken(ch)' = it[r] + 1
         ELSE Taken(ch)' = Taken(ch)
<1>1. /\ Setting /\ UNCHANGED <<problem, setup, it, call>>
      /\ call[r] \in DOMAIN CallsOf(r) /\ stage[r] = "posted" /\ call[r] \in Nat
      /\ stage \in [Ranks -> {"idle", "posted", "received"}]
      /\ stage' = [stage EXCEPT ![r] = "received"]
  <2>1. Setting /\ call[r] \in Nat /\ call[r] >= 1 /\ call[r] <= Len(CallsOf(r))
    BY DEF Accounted, ProgressOK, Setting, Receive
  <2> QED BY <2>1, CallsAreSequences DEF Receive, Accounted, ProgressOK
<1>2. ch[1] \in Ranks /\ ch[2] \in Ranks /\ ch = <<ch[1], ch[2], ch[3]>> /\ it[r] \in Nat
  BY <1>1, ChannelHasSender, ChannelPlaces DEF Accounted, ProgressOK
<1>3. CASE ch = <<CurrentCall(r).from, r, CurrentCall(r).tag>>
  <2>1. call[r] = TakePlace(ch) /\ ch[2] = r
    BY <1>1, <1>2, <1>3, PlacesUnique DEF CurrentCall
  <2>2. Taken(ch) = it[r]
    BY <1>1, <1>2, <2>1 DEF Taken
  <2>3. TakePlace(ch)' = call'[r] /\ it'[ch[2]] = it[r] /\ stage'[ch[2]] = "received"
    BY <1>1, <2>1, PlacesStay
  <2>4. Taken(ch)' = it[r] + 1
    BY <2>1, <2>3 DEF Taken
  <2> QED BY <1>3, <2>1, <2>2, <2>4
<1>4. CASE ch # <<CurrentCall(r).from, r, CurrentCall(r).tag>>
  <2>1. ch[2] = r => call[r] # TakePlace(ch)
    BY <1>1, <1>2, <1>4, PlacesUnique DEF CurrentCall
  <2> QED BY <1>1, <1>2, <1>4, <2>1, PlacesStay DEF Taken
<1> QED BY <1>3, <1>4

LEMMA LeaveCallCounts ==
  ASSUME PlansMatch, Accounted, NEW r \in Ranks, LeaveCall(r),
         NEW ch \in ChannelsOf(problem), ch[2] # ProcNull
  PROVE  Posted(ch)' = Posted(ch) /\ Taken(ch)' = Taken(ch)
<1>1. /\ Setting /\ UNCHANGED <<problem, setup, it>>
      /\ call \in [Ranks -> Nat] /\ it \in [Ranks -> Nat] /\ stage[r] = "received"
      /\ stage \in [Ranks -> {"idle", "posted", "received"}]
      /\ stage' = [stage EXCEPT ![r] = "idle"] /\ call' = [call EXCEPT ![r] = @ + 1]
  BY DEF Accounted, ProgressOK, Setting, LeaveCall
<1>2. ch[1] \in Ranks /\ ch[2] \in Ranks
  BY <1>1, ChannelHasSender, ChannelPlaces
<1>3. SendPlace(ch) \in Nat /\ TakePlace(ch) \in Nat
  <2>1. Len(CallsOf(ch[1])) \in Nat /\ Len(CallsOf(ch[2])) \in Nat
    BY <1>1, <1>2, CallsAreSequences
  <2> QED BY <1>1, <2>1, PlacesUnique
<1>4. SendPlace(ch)' = SendPlace(ch) /\ TakePlace(ch)' = TakePlace(ch)
  BY <1>1, PlacesStay
<1>5. Posted(ch)' = Posted(ch)
  BY <1>1, <1>2, <1>3, <1>4 DEF Posted
<1>6. Taken(ch)' = Taken(ch)
  BY <1>1, <1>2, <1>3, <1>4 DEF Taken
<1> QED BY <1>5, <1>6

LEMMA RelaxCounts ==
  ASSUME PlansMatch, Accounted, NEW r \in Ranks, Relax(r),
         NEW ch \in ChannelsOf(problem), ch[2] # ProcNull
  PROVE  Posted(ch)' = Posted(ch) /\ Taken(ch)' = Taken(ch)
<1>1. /\ Setting /\ UNCHANGED <<problem, setup, stage>>
      /\ call \in [Ranks -> Nat] /\ it \in [Ranks -> Nat]
      /\ call[r] > Len(CallsOf(r)) /\ Len(CallsOf(r)) \in Nat
      /\ it' = [it EXCEPT ![r] = @ + 1] /\ call' = [call EXCEPT ![r] = 1]
  BY CallsAreSequences DEF Accounted, ProgressOK, Setting, Relax
<1>2. stage[r] = "idle"
  BY <1>1 DEF Accounted, ProgressOK
<1>3. ch[1] \in Ranks /\ ch[2] \in Ranks
  BY <1>1, ChannelHasSender, ChannelPlaces
<1>4. /\ SendPlace(ch) \in 1..Len(CallsOf(ch[1])) /\ TakePlace(ch) \in 1..Len(CallsOf(ch[2]))
      /\ SendPlace(ch) \in Nat /\ TakePlace(ch) \in Nat
  <2>1. Len(CallsOf(ch[1])) \in Nat /\ Len(CallsOf(ch[2])) \in Nat
    BY <1>1, <1>3, CallsAreSequences
  <2> QED BY <1>1, <2>1, PlacesUnique
<1>5. SendPlace(ch)' = SendPlace(ch) /\ TakePlace(ch)' = TakePlace(ch)
  BY <1>1, PlacesStay
<1>6. Posted(ch)' = Posted(ch)
  <2>1. CASE ch[1] = r
    <3>1. call[r] > SendPlace(ch)
      BY <1>1, <1>4, <2>1
    <3> QED BY <1>1, <1>2, <1>4, <1>5, <2>1, <3>1 DEF Posted
  <2>2. CASE ch[1] # r
    BY <1>1, <1>3, <1>5, <2>2 DEF Posted
  <2> QED BY <2>1, <2>2
<1>7. Taken(ch)' = Taken(ch)
  <2>1. CASE ch[2] = r
    <3>1. call[r] > TakePlace(ch)
      BY <1>1, <1>4, <2>1
    <3> QED BY <1>1, <1>2, <1>4, <1>5, <2>1, <3>1 DEF Taken
  <2>2. CASE ch[2] # r
    BY <1>1, <1>3, <1>5, <2>2 DEF Taken
  <2> QED BY <2>1, <2>2
<1> QED BY <1>6, <1>7

LEMMA PostAccounts ==
  ASSUME PlansMatch, Accounted, NEW r \in Ranks, Post(r)
  PROVE  Accounted'
<1> DEFINE c == CurrentCall(r)
           posted == <<r, c.to, c.tag>>
           message == [k \in DOMAIN c.out |-> cur[r][c.out[k]]]
<1>1. /\ Setting /\ UNCHANGED <<problem, setup, it, call>>
      /\ call[r] \in DOMAIN CallsOf(r) /\ stage[r] = "idle" /\ call[r] \in Nat
      /\ stage \in [Ranks -> {"idle", "posted", "received"}]
  <2>1. Setting /\ call[r] \in Nat /\ call[r] >= 1 /\ call[r] <= Len(CallsOf(r))
    BY DEF Accounted, ProgressOK, Setting, Post
  <2> QED BY <2>1, CallsAreSequences DEF Post, Accounted, ProgressOK
<1>2. stage' = [stage EXCEPT ![r] = IF c.from = ProcNull THEN "received" ELSE "posted"]
  BY DEF Post
<1>3. net' = IF c.to = ProcNull THEN net ELSE [net EXCEPT ![posted] = Append(@, message)]
  BY DEF Post
<1>4. ProgressOK'
  BY <1>1, <1>2, PlacesStay DEF Accounted, ProgressOK, Setting, Post
<1>5. DOMAIN net' = ChannelsOf(problem)' /\ DOMAIN net = ChannelsOf(problem)
  BY <1>1, <1>3, PlacesStay DEF Accounted
<1>6. ASSUME NEW ch \in ChannelsOf(problem) PROVE ChannelOK(ch)'
  <2>1. CASE ch[2] = ProcNull
    <3>1. net'[ch] = net[ch]
      BY <1>3, <1>5, <2>1
    <3> QED BY <2>1, <3>1 DEF Accounted, ChannelOK
  <2>2. CASE ch[2] # ProcNull
    <3>1. /\ ch[1] \in Ranks /\ ch[2] \in Ranks /\ ch = <<ch[1], ch[2], ch[3]>>
          /\ ch[1] # ProcNull
      BY <1>1, <2>2, ChannelHasSender, ChannelPlaces, NullIsNoRank
    <3>2. ChannelOK(ch) /\ IsSeq(net[ch]) /\ Len(net[ch]) = Posted(ch) - Taken(ch)
      BY <2>2 DEF Accounted, ChannelOK
    <3>3. Taken(ch)' = Taken(ch)
      BY <2>2, PostTakes
    <3>4. CASE ch = posted
      <4>1. call[r] = SendPlace(ch) /\ ch[1] = r /\ c.to # ProcNull
        BY <1>1, <2>2, <3>1, <3>4, PlacesUnique DEF CurrentCall
      <4>2. it[r] \in Nat /\ Taken(ch) \in Int
        BY <3>1 DEF Taken, Accounted, ProgressOK
      <4>3. Posted(ch) = it[r]
        BY <1>1, <4>1, <4>2 DEF Posted
      <4>4. Posted(ch)' = it[r] + 1
        <5>1. SendPlace(ch)' = call'[r] /\ it'[ch[1]] = it[r] /\ stage'[ch[1]] # "idle"
          BY <1>1, <1>2, <4>1, PlacesStay
        <5> QED BY <4>1, <5>1 DEF Posted
      <4>5. net'[ch] = Append(net[ch], message)
        BY <1>3, <1>5, <3>4, <4>1
      <4>6. Len(message) = Len(CallsOf(ch[1])[SendPlace(ch)].out)
        <5>1. IsSeq(c.out)
          BY <1>1, CallsAreSequences DEF CurrentCall
        <5>2. Len(c.out) \in Nat /\ DOMAIN message = 1..Len(c.out)
          BY <5>1, SeqDomain
        <5>3. Len(message) = Len(c.out)
          BY <5>2
        <5> QED BY <4>1, <5>3 DEF CurrentCall
      <4> HIDE DEF message
      <4>7. /\ IsSeq(net'[ch]) /\ Len(net'[ch]) = Len(net[ch]) + 1
            /\ \A k \in DOMAIN net'[ch] :
                 net'[ch][k] = message \/ (k \in DOMAIN net[ch] /\ net'[ch][k] = net[ch][k])
        BY <3>2, <4>5, SeqAppend
      <4>8. Len(net'[ch]) = Posted(ch)' - Taken(ch)'
        BY <3>2, <3>3, <4>2, <4>3, <4>4, <4>7
      <4>9. \A k \in DOMAIN net'[ch] : Len(net'[ch][k]) = Len(CallsOf(ch[1])[SendPlace(ch)].out)
        BY <2>2, <3>2, <4>6, <4>7 DEF ChannelOK
      <4>10. CallsOf(ch[1])' = CallsOf(ch[1]) /\ SendPlace(ch)' = SendPlace(ch)
        BY <1>1, PlacesStay
      <4> QED BY <2>2, <4>7, <4>8, <4>9, <4>10 DEF ChannelOK
    <3>5. CASE ch # posted
      <4>1. net'[ch] = net[ch]
        BY <1>3, <1>5, <3>5
      <4>2. ch[1] = r => call[r] # SendPlace(ch)
        BY <1>1, <2>2, <3>1, <3>5, PlacesUnique DEF CurrentCall
      <4>3. Posted(ch)' = Posted(ch)
        BY <1>1, <1>2, <3>1, <4>2, PlacesStay DEF Posted
      <4> QED BY <1>1, <2>2, <3>2, <3>3, <4>1, <4>3, PlacesStay DEF ChannelOK
    <3> QED BY <3>4, <3>5
  <2> QED BY <2>1, <2>2
<1>7. \A ch \in ChannelsOf(problem)' : ChannelOK(ch)'
  BY <1>1, <1>6, PlacesStay
<1> QED BY <1>4, <1>5, <1>7 DEF Accounted

LEMMA ReceiveAccounts ==
  ASSUME PlansMatch, Accounted, NEW r \in Ranks, Receive(r)
  PROVE  Accounted'
<1> DEFINE c == CurrentCall(r)
           taken == <<c.from, r, c.tag>>
<1>1. /\ Setting /\ UNCHANGED <<problem, setup, it, call>>
      /\ call[r] \in DOMAIN CallsOf(r) /\ stage[r] = "posted" /\ call[r] \in Nat
      /\ stage \in [Ranks -> {"idle", "posted", "received"}]
      /\ stage' = [stage EXCEPT ![r] = "received"]
  <2>1. Setting /\ call[r] \in Nat /\ call[r] >= 1 /\ call[r] <= Len(CallsOf(r))
    BY DEF Accounted, ProgressOK, Setting, Receive
  <2> QED BY <2>1, CallsAreSequences DEF Receive, Accounted, ProgressOK
<1>2. taken \in DOMAIN net /\ net[taken] # << >> /\ net' = [net EXCEPT ![taken] = Tail(@)]
  BY DEF Receive
<1>3. ProgressOK'
  BY <1>1, PlacesStay DEF Accounted, ProgressOK, Setting
<1>4. DOMAIN net' = ChannelsOf(problem)' /\ DOMAIN net = ChannelsOf(problem)
  BY <1>1, <1>2, PlacesStay DEF Accounted
<1>5. ASSUME NEW ch \in ChannelsOf(problem) PROVE ChannelOK(ch)'
  <2>1. CASE ch[2] = ProcNull
    <3>1. ch # taken
      BY <1>1, <2>1, NullIsNoRank
    <3>2. net'[ch] = net[ch]
      BY <1>2, <1>4, <3>1
    <3> QED BY <2>1, <3>2 DEF Accounted, ChannelOK
  <2>2. CASE ch[2] # ProcNull
    <3>1. ch[1] \in Ranks /\ ch[2] \in Ranks /\ ch = <<ch[1], ch[2], ch[3]>>
      BY <1>1, <2>2, ChannelHasSender, ChannelPlaces
    <3>2. /\ ChannelOK(ch) /\ IsSeq(net[ch]) /\ Len(net[ch]) = Posted(ch) - Taken(ch)
          /\ \A k \in DOMAIN net[ch] : Len(net[ch][k]) = Len(CallsOf(ch[1])[SendPlace(ch)].out)
      BY <2>2 DEF Accounted, ChannelOK
    <3>3. Posted(ch)' = Posted(ch)
      <4>1. stage'[ch[1]] = "idle" <=> stage[ch[1]] = "idle"
        BY <1>1, <3>1
      <4> QED BY <1>1, <3>1, <4>1, PlacesStay DEF Posted
    <3>4. CASE ch = taken
      <4>2. it[r] \in Nat /\ Posted(ch) \in Int
        BY <3>1 DEF Posted, Accounted, ProgressOK
      <4>3. Taken(ch) = it[r] /\ Taken(ch)' = it[r] + 1
        BY <2>2, <3>4, ReceiveTakes
      <4>5. net'[ch] = Tail(net[ch]) /\ net[ch] # << >>
        BY <1>2, <1>4, <3>4
      <4>6. /\ IsSeq(net'[ch]) /\ Len(net'[ch]) = Len(net[ch]) - 1
            /\ \A k \in DOMAIN net'[ch] : k + 1 \in DOMAIN net[ch] /\ net'[ch][k] = net[ch][k + 1]
        BY <3>2, <4>5, SeqTail
      <4>7. Len(net'[ch]) = Posted(ch)' - Taken(ch)'
        BY <3>2, <3>3, <4>2, <4>3, <4>6
      <4>8. \A k \in DOMAIN net'[ch] : Len(net'[ch][k]) = Len(CallsOf(ch[1])[SendPlace(ch)].out)
        BY <3>2, <4>6
      <4>9. CallsOf(ch[1])' = CallsOf(ch[1]) /\ SendPlace(ch)' = SendPlace(ch)
        BY <1>1, PlacesStay
      <4> QED BY <2>2, <4>6, <4>7, <4>8, <4>9 DEF ChannelOK
    <3>5. CASE ch # taken
      <4>1. net'[ch] = net[ch]
        BY <1>2, <1>4, <3>5
      <4>3. Taken(ch)' = Taken(ch)
        BY <2>2, <3>5, ReceiveTakes
      <4> QED BY <1>1, <2>2, <3>2, <3>3, <4>1, <4>3, PlacesStay DEF ChannelOK
    <3> QED BY <3>4, <3>5
  <2> QED BY <2>1, <2>2
<1>6. \A ch \in ChannelsOf(problem)' : ChannelOK(ch)'
  BY <1>1, <1>5, PlacesStay
<1> QED BY <1>3, <1>4, <1>6 DEF Accounted

(* A step of r alone that counts the same messages leaves the accounts.    *)
LEMMA SameCountsAccount ==
  ASSUME PlansMatch, Accounted, ProgressOK', UNCHANGED <<problem, setup, net>>,
         \A ch \in ChannelsOf(problem) : ch[2] # ProcNull =>
           Posted(ch)' = Posted(ch) /\ Taken(ch)' = Taken(ch)
  PROVE  Accounted'
<1>1. ASSUME NEW ch \in ChannelsOf(problem) PROVE ChannelOK(ch)'
  BY <1>1, PlacesStay DEF Accounted, ChannelOK
<1> QED BY <1>1, PlacesStay DEF Accounted

LEMMA LeaveCallAccounts ==
  ASSUME PlansMatch, Accounted, NEW r \in Ranks, LeaveCall(r)
  PROVE  Accounted'
<1>1. /\ Setting /\ UNCHANGED <<problem, setup, it, net>>
      /\ call \in [Ranks -> Nat] /\ it \in [Ranks -> Nat] /\ stage[r] = "received"
      /\ stage \in [Ranks -> {"idle", "posted", "received"}]
      /\ stage' = [stage EXCEPT ![r] = "idle"] /\ call' = [call EXCEPT ![r] = @ + 1]
  BY DEF Accounted, ProgressOK, Setting, LeaveCall
<1>2. ProgressOK'
  <2>1. /\ it' \in [Ranks -> Nat] /\ call' \in [Ranks -> Nat]
        /\ stage' \in [Ranks -> {"idle", "posted", "received"}]
    BY <1>1
  <2>2. ASSUME NEW q \in Ranks
        PROVE  call'[q] >= 1 /\ (stage'[q] # "idle" => call'[q] <= Len(CallsOf(q)))
    BY <1>1, <2>2 DEF Accounted, ProgressOK
  <2> QED BY <1>1, <2>1, <2>2, PlacesStay DEF ProgressOK, Setting
<1> QED BY <1>1, <1>2, LeaveCallCounts, SameCountsAccount

LEMMA RelaxAccounts ==
  ASSUME PlansMatch, Accounted, NEW r \in Ranks, Relax(r)
  PROVE  Accounted'
<1>1. /\ Setting /\ UNCHANGED <<problem, setup, stage, net>>
      /\ call \in [Ranks -> Nat] /\ it \in [Ranks -> Nat]
      /\ call[r] > Len(CallsOf(r)) /\ Len(CallsOf(r)) \in Nat
      /\ it' = [it EXCEPT ![r] = @ + 1] /\ call' = [call EXCEPT ![r] = 1]
  BY CallsAreSequences DEF Accounted, ProgressOK, Setting, Relax
<1>2. stage[r] = "idle"
  BY <1>1 DEF Accounted, ProgressOK
<1>3. ProgressOK'
  <2>1. it' \in [Ranks -> Nat] /\ call' \in [Ranks -> Nat]
    BY <1>1
  <2>2. ASSUME NEW q \in Ranks
        PROVE  call'[q] >= 1 /\ (stage'[q] # "idle" => call'[q] <= Len(CallsOf(q)))
    BY <1>1, <1>2, <2>2 DEF Accounted, ProgressOK
  <2>3. stage' \in [Ranks -> {"idle", "posted", "received"}]
    BY <1>1 DEF Accounted, ProgressOK
  <2> QED BY <1>1, <2>1, <2>2, <2>3, PlacesStay DEF ProgressOK, Setting
<1> QED BY <1>1, <1>3, RelaxCounts, SameCountsAccount

LEMMA StepAccounts ==
  ASSUME PlansMatch, Accounted, [Next]_vars
  PROVE  Accounted'
<1>1. ASSUME UNCHANGED <<problem, setup, it, call, stage, net>> PROVE Accounted'
  <2>1. ProgressOK'
    BY <1>1, PlacesStay DEF Accounted, ProgressOK, Setting
  <2>2. ASSUME NEW ch \in ChannelsOf(problem), ch[2] # ProcNull
        PROVE  Posted(ch)' = Posted(ch) /\ Taken(ch)' = Taken(ch)
    BY <1>1, PlacesStay DEF Posted, Taken
  <2> QED BY <1>1, <2>1, <2>2, SameCountsAccount
<1>2. ASSUME NEW r \in Ranks, Post(r) PROVE Accounted'
  BY <1>2, PostAccounts
<1>3. ASSUME NEW r \in Ranks, Receive(r) PROVE Accounted'
  BY <1>3, ReceiveAccounts
<1>4. ASSUME NEW r \in Ranks, Return(r) \/ ReturnBuffered(r) PROVE Accounted'
  BY <1>4, LeaveCallAccounts DEF Return, ReturnBuffered
<1>5. ASSUME NEW r \in Ranks, Relax(r) PROVE Accounted'
  BY <1>5, RelaxAccounts
<1>6. ASSUME NEW r \in Ranks, Verify(r) PROVE Accounted'
  BY <1>1, <1>6 DEF Verify
<1>7. CASE Conclude
  BY <1>1, <1>7 DEF Conclude
<1>8. CASE Ended \/ UNCHANGED vars
  BY <1>1, <1>8 DEF Ended, vars
<1> QED BY <1>2, <1>3, <1>4, <1>5, <1>6, <1>7, <1>8 DEF Next

LEMMA AccountedAlways ==
  ASSUME PlansMatch
  PROVE  Spec => []Accounted
<1>1. Init => Accounted
  BY InitAccounted
<1>2. Accounted /\ [Next]_vars => Accounted'
  BY StepAccounts
<1> QED BY <1>1, <1>2, PTL DEF Spec

-----------------------------------------------------------------------------
(* What the accounts bound.                                                *)
LEMMA CountBounds ==
  ASSUME PlansMatch, Accounted, NEW ch \in ChannelsOf(problem), ch[2] # ProcNull
  PROVE  /\ ch[1] \in Ranks /\ ch[2] \in Ranks
         /\ it[ch[1]] \in Nat /\ it[ch[2]] \in Nat
         /\ Posted(ch) \in it[ch[1]]..(it[ch[1]] + 1)
         /\ Taken(ch) \in it[ch[2]]..(it[ch[2]] + 1)
         /\ IsSeq(net[ch]) /\ Len(net[ch]) = Posted(ch) - Taken(ch) /\ Taken(ch) <= Posted(ch)
<1>1. Setting
  BY DEF Accounted, ProgressOK, Setting
<1>2. ch[1] \in Ranks /\ ch[2] \in Ranks
  BY <1>1, ChannelHasSender, ChannelPlaces
<1>3. it[ch[1]] \in Nat /\ it[ch[2]] \in Nat
  BY <1>2 DEF Accounted, ProgressOK
<1>4. Posted(ch) \in it[ch[1]]..(it[ch[1]] + 1) /\ Taken(ch) \in it[ch[2]]..(it[ch[2]] + 1)
  BY <1>3 DEF Posted, Taken
<1>5. IsSeq(net[ch]) /\ Len(net[ch]) = Posted(ch) - Taken(ch)
  BY DEF Accounted, ChannelOK
<1>6. Len(net[ch]) \in Nat
  BY <1>5, SeqDomain
<1> QED BY <1>2, <1>3, <1>4, <1>5, <1>6

(* A rank is never more than one iteration ahead of a rank it sends to:    *)
(* what that one sends back is waited for in every iteration.              *)
LEMMA EndsWithinOne ==
  ASSUME PlansMatch, Accounted, NEW ch \in ChannelsOf(problem), ch[2] # ProcNull
  PROVE  it[ch[1]] <= it[ch[2]] + 1
<1>1. PICK back \in ChannelsOf(problem) : back[1] = ch[2] /\ back[2] = ch[1]
  BY ChannelPlaces DEF Accounted, ProgressOK, Setting
<1>2. back[2] # ProcNull
  BY <1>1, ChannelHasSender, NullIsNoRank DEF Accounted, ProgressOK, Setting
<1>3. it[ch[1]] <= Taken(back) /\ Taken(back) <= Posted(back) /\ Posted(back) <= it[ch[2]] + 1
  BY <1>1, <1>2, CountBounds
<1>4. it[ch[1]] \in Nat /\ it[ch[2]] \in Nat /\ Taken(back) \in Int /\ Posted(back) \in Int
  BY <1>1, <1>2, CountBounds
<1> QED BY <1>3, <1>4

(* A message waiting was sent and not yet taken by calls of one size, at   *)
(* most two of them, as neither end can be further ahead of the other.     *)
LEMMA ReceiveFitsByPlans ==
  ASSUME PlansMatch
  PROVE  Spec => []ReceiveFits
<1>1. ASSUME Accounted PROVE ReceiveFits
  <2> SUFFICES ASSUME NEW ch \in DOMAIN net
               PROVE  /\ Len(net[ch]) <= 2
                      /\ \A k \in DOMAIN net[ch] :
                           \E c \in ToSet(CallsOf(ch[2])) :
                             c.from = ch[1] /\ c.tag = ch[3] /\ Len(c.in) = Len(net[ch][k])
    BY DEF ReceiveFits
  <2>1. ch \in ChannelsOf(problem) /\ Setting
    BY <1>1 DEF Accounted, ProgressOK, Setting
  <2>2. CASE ch[2] = ProcNull
    <3>1. net[ch] = << >>
      BY <1>1, <2>1, <2>2 DEF Accounted, ChannelOK
    <3> QED BY <3>1
  <2>3. CASE ch[2] # ProcNull
    <3>1. Len(net[ch]) <= 2
      <4>1. it[ch[1]] <= it[ch[2]] + 1
        BY <1>1, <2>1, <2>3, EndsWithinOne
      <4> QED BY <1>1, <2>1, <2>3, <4>1, CountBounds
    <3>2. ASSUME NEW k \in DOMAIN net[ch]
          PROVE  \E c \in ToSet(CallsOf(ch[2])) :
                   c.from = ch[1] /\ c.tag = ch[3] /\ Len(c.in) = Len(net[ch][k])
      <4> DEFINE c == CallsOf(ch[2])[TakePlace(ch)]
      <4>1. ch[2] \in Ranks
        BY <2>1, <2>3, ChannelPlaces
      <4>2. TakePlace(ch) \in DOMAIN CallsOf(ch[2]) /\ c.from = ch[1] /\ c.tag = ch[3]
        BY <2>1, <2>3, <4>1, PlacesUnique, CallsAreSequences
      <4>3. Len(net[ch][k]) = Len(c.in)
        BY <1>1, <2>1, <2>3, ChannelPlaces DEF Accounted, ChannelOK
      <4> QED BY <4>2, <4>3 DEF ToSet
    <3> QED BY <3>1, <3>2
  <2> QED BY <2>2, <2>3
<1>2. Spec => []Accounted
  BY AccountedAlways
<1> QED BY <1>1, <1>2, PTL
-----------------------------------------------------------------------------
(* What the messages carry.                                                *)
(* What HaloPlan and GraphPlan provide, in every problem: the invariants   *)
(* CallsPair and ViewsMirror.                                              *)
PlansFit == \A p \in Problems : Matched(p, Plan[p]) /\ Mirrored[p]

(* The serial field in the cell a rank keeps in a place.                   *)
SerialAt(r, place, t) == Serial[problem][t][setup.plan[r].global[place]]

Own(r) == DOMAIN setup.plan[r].reads
Places(r) == DOMAIN setup.plan[r].start
Still(r) == Places(r) \ (Own(r) \cup Refreshed(setup.plan[r]))

Buffers(r) == DOMAIN cur[r] = Places(r) /\ DOMAIN next[r] = Places(r)
OwnedOK(r) == \A place \in Own(r) : cur[r][place] = SerialAt(r, place, it[r])
StillOK(r) ==
  \A place \in Still(r) :
    cur[r][place] = setup.plan[r].start[place] /\ next[r][place] = setup.plan[r].start[place]

(* The ghosts that the calls of this iteration have filled so far.         *)
Arrived(r, k) == k < call[r] \/ (k = call[r] /\ stage[r] = "received")
GhostsOK(r) ==
  \A k \in DOMAIN CallsOf(r) :
    CallsOf(r)[k].from # ProcNull /\ Arrived(r, k) =>
    \A n \in DOMAIN CallsOf(r)[k].in :
      cur[r][CallsOf(r)[k].in[n]] = SerialAt(r, CallsOf(r)[k].in[n], it[r])
RankOK(r) == it[r] <= Iterations /\ Buffers(r) /\ OwnedOK(r) /\ StillOK(r) /\ GhostsOK(r)

(* The message in place k of a channel holds the sender's cells after as   *)
(* many sweeps as messages had been sent before it.                        *)
OutOf(ch) == CallsOf(ch[1])[SendPlace(ch)].out
MessageOK(ch, message, t) ==
  /\ DOMAIN message = DOMAIN OutOf(ch)
  /\ \A n \in DOMAIN OutOf(ch) : message[n] = SerialAt(ch[1], OutOf(ch)[n], t)
MessagesOK(ch) ==
  ch[2] # ProcNull => \A k \in DOMAIN net[ch] : MessageOK(ch, net[ch][k], Taken(ch) + k - 1)

Carried ==
  /\ Accounted
  /\ DOMAIN cur = Ranks /\ DOMAIN next = Ranks
  /\ \A r \in Ranks : RankOK(r)
  /\ \A ch \in ChannelsOf(problem) : MessagesOK(ch)

-----------------------------------------------------------------------------
LEMMA ViewOfRank ==
  ASSUME PlansFit, Setting, NEW r \in Ranks
  PROVE  SweepsSerially(problem, setup.plan[r]) /\ FillsOnce(setup.plan[r])
BY PlanOfProblem DEF PlansFit, Mirrored, Setting, Ranks

(* A message fills, at its receiver, the ghosts of the cells it was taken  *)
(* from.                                                                   *)
LEMMA NamesOfMessage ==
  ASSUME PlansFit, Setting, NEW ch \in ChannelsOf(problem), ch[2] # ProcNull,
         NEW n \in DOMAIN OutOf(ch), NEW t
  PROVE  LET in == CallsOf(ch[2])[TakePlace(ch)].in IN
         n \in DOMAIN in /\ SerialAt(ch[2], in[n], t) = SerialAt(ch[1], OutOf(ch)[n], t)
<1> DEFINE in == CallsOf(ch[2])[TakePlace(ch)].in
<1>1. PlansMatch /\ ch[1] \in Ranks /\ ch[2] \in Ranks
  BY ChannelHasSender, ChannelPlaces DEF PlansFit, PlansMatch
<1>2. SendsOn(setup.plan, ch) = {SendPlace(ch)} /\ TakesOn(setup.plan, ch) = {TakePlace(ch)}
      /\ Len(OutOf(ch)) = Len(in)
  BY <1>1, ChannelPlaces DEF OutOf
<1>3. SameNames(problem, setup.plan)
  BY PlanOfProblem DEF PlansFit, Mirrored, Setting
<1>4. setup.plan[ch[1]].global[OutOf(ch)[n]] = setup.plan[ch[2]].global[in[n]]
  <2>1. SendPlace(ch) \in SendsOn(setup.plan, ch) /\ TakePlace(ch) \in TakesOn(setup.plan, ch)
    BY <1>2
  <2>2. \A m \in DOMAIN setup.plan[ch[1]].calls[SendPlace(ch)].out :
          setup.plan[ch[1]].global[setup.plan[ch[1]].calls[SendPlace(ch)].out[m]] =
          setup.plan[ch[2]].global[setup.plan[ch[2]].calls[TakePlace(ch)].in[m]]
    BY <1>3, <2>1 DEF SameNames
  <2> QED BY <2>2 DEF OutOf, CallsOf
<1>5. SendPlace(ch) \in DOMAIN CallsOf(ch[1]) /\ TakePlace(ch) \in DOMAIN CallsOf(ch[2])
  BY <1>2 DEF SendsOn, TakesOn, CallsOf
<1>6. IsSeq(OutOf(ch)) /\ IsSeq(in)
  BY <1>1, <1>5, PlanOfProblem DEF PlansFit, Matched, Setting, OutOf, CallsOf, Ranks
<1>7. DOMAIN in = DOMAIN OutOf(ch)
  BY <1>2, <1>6, SeqDomain
<1> QED BY <1>4, <1>7 DEF SerialAt

LEMMA NamesStay ==
  ASSUME UNCHANGED <<problem, setup>>
  PROVE  /\ \A r, place, t : SerialAt(r, place, t)' = SerialAt(r, place, t)
         /\ \A r : Own(r)' = Own(r) /\ Places(r)' = Places(r) /\ Still(r)' = Still(r)
         /\ \A ch : OutOf(ch)' = OutOf(ch)
         /\ \A ch, message, t : MessageOK(ch, message, t)' = MessageOK(ch, message, t)
BY DEF SerialAt, Own, Places, Still, OutOf, MessageOK, CallsOf, SendPlace

LEMMA CarriedSetting ==
  ASSUME PlansFit, Carried
  PROVE  /\ PlansMatch /\ Accounted /\ Setting
         /\ it \in [Ranks -> Nat] /\ call \in [Ranks -> Nat]
         /\ stage \in [Ranks -> {"idle", "posted", "received"}]
         /\ DOMAIN net = ChannelsOf(problem)
BY DEF PlansFit, PlansMatch, Carried, Accounted, ProgressOK, Setting

LEMMA InitCarried ==
  ASSUME PlansFit, Init
  PROVE  Carried
<1>1. PlansMatch /\ Setting /\ Accounted
  BY InitAccounted DEF PlansFit, PlansMatch, Init, Setting
<1>2. DOMAIN cur = Ranks /\ DOMAIN next = Ranks
  BY DEF Init
<1>3. ASSUME NEW r \in Ranks PROVE RankOK(r)
  <2>1. /\ it[r] = 0 /\ call[r] = 1 /\ stage[r] = "idle"
        /\ cur[r] = setup.plan[r].start /\ next[r] = setup.plan[r].start
    BY <1>1, PlanOfProblem DEF Init, SecondBuffer
  <2>2. SweepsSerially(problem, setup.plan[r])
    BY <1>1, ViewOfRank
  <2>3. Buffers(r) /\ StillOK(r) /\ it[r] <= Iterations
    BY <2>1, IterationsAssumption DEF Buffers, StillOK, Places
  <2>4. OwnedOK(r)
    BY <2>1, <2>2 DEF OwnedOK, Own, SerialAt, SweepsSerially
  <2>5. GhostsOK(r)
    <3>1. \A k \in DOMAIN CallsOf(r) : ~Arrived(r, k)
      BY <1>1, <2>1, CallsAreSequences DEF Arrived
    <3> QED BY <3>1 DEF GhostsOK
  <2> QED BY <2>3, <2>4, <2>5 DEF RankOK
<1>4. ASSUME NEW ch \in ChannelsOf(problem) PROVE MessagesOK(ch)
  <2>1. net[ch] = << >>
    BY DEF Init
  <2> QED BY <2>1 DEF MessagesOK
<1> QED BY <1>1, <1>2, <1>3, <1>4 DEF Carried

(* A rank that takes no part in a step is left as it was.                  *)
LEMMA RankStays ==
  ASSUME UNCHANGED <<problem, setup>>, NEW q, RankOK(q),
         it'[q] = it[q], call'[q] = call[q], cur'[q] = cur[q], next'[q] = next[q],
         stage'[q] = stage[q]
  PROVE  RankOK(q)'
<1>1. Buffers(q)' /\ (it[q] <= Iterations)'
  BY NamesStay DEF RankOK, Buffers
<1>2. OwnedOK(q)'
  BY NamesStay DEF RankOK, OwnedOK
<1>3. StillOK(q)'
  BY NamesStay DEF RankOK, StillOK
<1>4. GhostsOK(q)'
  BY NamesStay, PlacesStay DEF RankOK, GhostsOK, Arrived
<1> QED BY <1>1, <1>2, <1>3, <1>4 DEF RankOK

LEMMA MessagesStay ==
  ASSUME UNCHANGED <<problem, setup>>, NEW ch \in ChannelsOf(problem), MessagesOK(ch),
         net'[ch] = net[ch], ch[2] # ProcNull => Taken(ch)' = Taken(ch)
  PROVE  MessagesOK(ch)'
BY NamesStay DEF MessagesOK

LEMMA PostCarries ==
  ASSUME PlansFit, Carried, NEW r \in Ranks, Post(r)
  PROVE  Carried'
<1> DEFINE c == CurrentCall(r)
           posted == <<r, c.to, c.tag>>
           message == [k \in DOMAIN c.out |-> cur[r][c.out[k]]]
<1>1. /\ PlansMatch /\ Accounted /\ Setting /\ UNCHANGED <<problem, setup, cur, next, it, call>>
      /\ stage \in [Ranks -> {"idle", "posted", "received"}] /\ stage[r] = "idle"
      /\ DOMAIN net = ChannelsOf(problem)
      /\ stage' = [stage EXCEPT ![r] = IF c.from = ProcNull THEN "received" ELSE "posted"]
      /\ net' = IF c.to = ProcNull THEN net ELSE [net EXCEPT ![posted] = Append(@, message)]
  BY CarriedSetting DEF Post
<1>2. Accounted'
  BY <1>1, PostAccounts
<1>3. /\ DOMAIN cur' = Ranks' /\ DOMAIN next' = Ranks'
  BY <1>1, PlacesStay DEF Carried
<1>4. ASSUME NEW q \in Ranks PROVE RankOK(q)'
  <2>1. RankOK(q)
    BY DEF Carried
  <2>2. CASE q # r
    BY <1>1, <2>1, <2>2, RankStays
  <2>3. CASE q = r
    <3>1. Buffers(r)' /\ OwnedOK(r)' /\ StillOK(r)' /\ (it[r] <= Iterations)'
      BY <1>1, <2>1, <2>3, NamesStay DEF RankOK, Buffers, OwnedOK, StillOK
    <3>2. ASSUME NEW k \in DOMAIN CallsOf(r), CallsOf(r)[k].from # ProcNull, Arrived(r, k)'
          PROVE  Arrived(r, k)
      BY <1>1, <3>2 DEF Arrived, CurrentCall
    <3>3. GhostsOK(r)'
      BY <1>1, <2>1, <2>3, <3>2, NamesStay, PlacesStay DEF RankOK, GhostsOK
    <3> QED BY <2>3, <3>1, <3>3 DEF RankOK
  <2> QED BY <2>2, <2>3
<1>5. ASSUME NEW ch \in ChannelsOf(problem) PROVE MessagesOK(ch)'
  <2>1. MessagesOK(ch) /\ (ch[2] # ProcNull => Taken(ch)' = Taken(ch))
    BY <1>1, PostTakes DEF Carried
  <2>2. CASE ch # posted \/ ch[2] = ProcNull
    <3>1. net'[ch] = net[ch]
      BY <1>1, <2>2
    <3> QED BY <1>1, <2>1, <3>1, MessagesStay
  <2>3. CASE ch = posted /\ ch[2] # ProcNull
    <3>1. net'[ch] = Append(net[ch], message) /\ IsSeq(net[ch])
      BY <1>1, <2>3 DEF Accounted, ChannelOK
    <3>2. call[r] \in DOMAIN CallsOf(r)
      <4>1. call[r] \in Nat /\ call[r] >= 1 /\ call[r] <= Len(CallsOf(r))
        BY DEF Post, Carried, Accounted, ProgressOK
      <4> QED BY <1>1, <4>1, CallsAreSequences
    <3>3. ch[1] = r /\ call[r] = SendPlace(ch) /\ c.out = OutOf(ch)
      BY <1>1, <2>3, <3>2, PlacesUnique DEF CurrentCall, OutOf
    <3>4. MessageOK(ch, message, it[r])
      <4>1. OwnedOK(r)
        BY DEF Carried, RankOK
      <4>2. \A n \in DOMAIN c.out : c.out[n] \in Own(r)
        <5>1. FillsOnce(setup.plan[r])
          BY <1>1, ViewOfRank
        <5> QED BY <3>2, <5>1 DEF FillsOnce, ToSet, CurrentCall, CallsOf, Own
      <4> QED BY <3>3, <4>1, <4>2 DEF OwnedOK, MessageOK
    <3>5. Posted(ch) = it[r] /\ Len(net[ch]) = Posted(ch) - Taken(ch) /\ it[r] \in Nat /\ Taken(ch) \in Int
      <4>1. it[r] \in Nat /\ Len(net[ch]) = Posted(ch) - Taken(ch) /\ Taken(ch) \in Int
        BY <1>1, <2>3, <3>3, CountBounds
      <4> QED BY <1>1, <3>3, <4>1 DEF Posted, Carried, Accounted, ProgressOK
    <3> HIDE DEF message
    <3>6. \A k \in DOMAIN net'[ch] :
            IF k = Len(net[ch]) + 1 THEN net'[ch][k] = message ELSE k \in DOMAIN net[ch] /\ net'[ch][k] = net[ch][k]
      BY <3>1, SeqAppend
    <3>7. ASSUME NEW k \in DOMAIN net'[ch]
          PROVE  MessageOK(ch, net'[ch][k], Taken(ch) + k - 1)
      <4>1. CASE k = Len(net[ch]) + 1
        <5>1. Taken(ch) + k - 1 = it[r]
          BY <3>5, <4>1
        <5> QED BY <3>4, <3>6, <4>1, <5>1
      <4>2. CASE k # Len(net[ch]) + 1
        BY <2>1, <2>3, <3>6, <4>2 DEF MessagesOK
      <4> QED BY <4>1, <4>2
    <3>8. Taken(ch)' = Taken(ch)
      BY <2>1, <2>3
    <3>9. ASSUME NEW k \in DOMAIN net'[ch]
          PROVE  MessageOK(ch, net[ch][k], Taken(ch) + k - 1)'
      <4>1. OutOf(ch)' = OutOf(ch) /\ problem' = problem /\ setup' = setup
        BY <1>1, NamesStay
      <4> QED BY <3>7, <3>8, <3>9, <4>1 DEF MessageOK, SerialAt
    <3> QED BY <3>9 DEF MessagesOK
  <2> QED BY <2>2, <2>3
<1> QED BY <1>1, <1>2, <1>3, <1>4, <1>5, PlacesStay DEF Carried

(* A message whose places are distinct goes into them and nowhere else.    *)
LEMMA FilledPlaces ==
  ASSUME NEW field, NEW places, NEW message,
         \A m, n \in DOMAIN message : places[m] = places[n] => m = n
  PROVE  /\ \A place : place \in DOMAIN Filled(field, places, message) <=>
                       place \in DOMAIN field \/ \E k \in DOMAIN message : place = places[k]
         /\ \A n \in DOMAIN message : Filled(field, places, message)[places[n]] = message[n]
         /\ \A place \in DOMAIN field :
              (\A k \in DOMAIN message : places[k] # place) =>
              Filled(field, places, message)[place] = field[place]
<1>1. ASSUME NEW n \in DOMAIN message
      PROVE  (CHOOSE k \in DOMAIN message : places[k] = places[n]) = n
  BY <1>1
<1> QED BY <1>1 DEF Filled

LEMMA ReceiveCarries ==
  ASSUME PlansFit, Carried, NEW r \in Ranks, Receive(r)
  PROVE  Carried'
<1> DEFINE c == CurrentCall(r)
<1>0. PICK taken \in ChannelsOf(problem) : taken = <<c.from, r, c.tag>>
  BY CarriedSetting DEF Receive
<1> DEFINE message == Head(net[taken])
<1>1. /\ PlansMatch /\ Accounted /\ Setting /\ UNCHANGED <<problem, setup, next, it, call>>
      /\ stage[r] = "posted" /\ DOMAIN net = ChannelsOf(problem) /\ taken[2] = r /\ taken[1] = c.from
      /\ net[taken] # << >> /\ net' = [net EXCEPT ![taken] = Tail(@)]
      /\ cur' = [cur EXCEPT ![r] = Filled(@, c.in, message)]
      /\ stage' = [stage EXCEPT ![r] = "received"] /\ stage \in [Ranks -> {"idle", "posted", "received"}]
  BY <1>0, CarriedSetting DEF Receive
<1>2. Accounted'
  BY <1>1, ReceiveAccounts
<1>3. DOMAIN cur' = Ranks' /\ DOMAIN next' = Ranks' /\ DOMAIN cur = Ranks
  BY <1>1, PlacesStay DEF Carried
<1>4. call[r] \in 1..Len(CallsOf(r)) /\ call[r] \in DOMAIN CallsOf(r) /\ it[r] \in Nat
  <2>1. call[r] \in Nat /\ call[r] >= 1 /\ call[r] <= Len(CallsOf(r)) /\ it[r] \in Nat
    BY <1>1 DEF Accounted, ProgressOK
  <2> QED BY <1>1, <2>1, CallsAreSequences
<1>5. /\ c.from # ProcNull /\ r # ProcNull /\ call[r] = TakePlace(taken)
      /\ Taken(taken) = it[r] /\ Taken(taken)' = it[r] + 1
  <2>1. r # ProcNull /\ c.from # ProcNull
    BY <1>1, ChannelHasSender, NullIsNoRank
  <2> QED BY <1>0, <1>1, <2>1, ReceiveTakes
<1>6. /\ IsSeq(net[taken]) /\ 1 \in DOMAIN net[taken] /\ message = net[taken][1]
      /\ \A k \in DOMAIN Tail(net[taken]) :
           k \in Nat /\ k + 1 \in DOMAIN net[taken] /\ Tail(net[taken])[k] = net[taken][k + 1]
  <2>1. IsSeq(net[taken])
    BY <1>1, <1>5 DEF Accounted, ChannelOK
  <2> QED BY <1>1, <2>1, SeqTail
<1>7. MessageOK(taken, message, it[r])
  <2>1. MessageOK(taken, net[taken][1], Taken(taken) + 1 - 1)
    BY <1>1, <1>5, <1>6 DEF Carried, MessagesOK
  <2>2. Taken(taken) + 1 - 1 = it[r]
    BY <1>4, <1>5
  <2> QED BY <1>6, <2>1, <2>2
<1> HIDE DEF message
<1>8. /\ FillsOnce(setup.plan[r])
      /\ \A n \in DOMAIN message : n \in DOMAIN c.in /\ message[n] = SerialAt(r, c.in[n], it[r])
      /\ \A n \in DOMAIN c.in : n \in DOMAIN message
  <2>1. \A n \in DOMAIN OutOf(taken) :
          n \in DOMAIN c.in /\ SerialAt(r, c.in[n], it[r]) = SerialAt(taken[1], OutOf(taken)[n], it[r])
    BY <1>1, <1>5, NamesOfMessage DEF CurrentCall
  <2>2. DOMAIN c.in = DOMAIN OutOf(taken)
    <3>1. /\ IsSeq(c.in)
      BY <1>1, <1>4, PlanOfProblem DEF PlansFit, Matched, Setting, CurrentCall, CallsOf, Ranks
    <3>2. /\ taken[1] \in Ranks /\ Len(OutOf(taken)) = Len(c.in)
          /\ SendPlace(taken) \in 1..Len(CallsOf(taken[1]))
      BY <1>1, <1>5, ChannelPlaces, ChannelHasSender, PlacesUnique DEF OutOf, CurrentCall
    <3>3. IsSeq(OutOf(taken))
      BY <1>1, <3>2, CallsAreSequences DEF OutOf
    <3> QED BY <3>1, <3>2, <3>3, SeqDomain
  <2> QED BY <1>1, <1>7, <2>1, <2>2, ViewOfRank DEF MessageOK
<1>9. /\ \A m, n \in DOMAIN message : c.in[m] = c.in[n] => m = n
      /\ \A n \in DOMAIN message : c.in[n] \in Refreshed(setup.plan[r])
  <2>1. /\ c = setup.plan[r].calls[call[r]] /\ call[r] \in DOMAIN setup.plan[r].calls
        /\ c.from # ProcNull /\ \A n \in DOMAIN message : n \in DOMAIN c.in
    BY <1>4, <1>5, <1>8 DEF CurrentCall, CallsOf
  <2> HIDE DEF c
  <2>2. ASSUME NEW m \in DOMAIN message, NEW n \in DOMAIN message, c.in[m] = c.in[n]
        PROVE  m = n
    <3>1. m \in DOMAIN c.in /\ n \in DOMAIN c.in
      BY <2>1
    <3>2. \A k \in DOMAIN setup.plan[r].calls : setup.plan[r].calls[k].from # ProcNull =>
            \A x, y \in DOMAIN setup.plan[r].calls[k].in :
              setup.plan[r].calls[k].in[x] = setup.plan[r].calls[k].in[y] => x = y
      BY <1>8 DEF FillsOnce
    <3>3. \A x, y \in DOMAIN c.in : c.in[x] = c.in[y] => x = y
      BY <2>1, <3>2
    <3> QED BY <2>2, <3>1, <3>3
  <2>3. ASSUME NEW n \in DOMAIN message PROVE c.in[n] \in Refreshed(setup.plan[r])
    <3>1. c.in[n] \in ToSet(c.in) /\ c \in ToSet(setup.plan[r].calls)
      BY <2>1, <2>3 DEF ToSet
    <3> QED BY <2>1, <3>1 DEF Refreshed
  <2> QED BY <2>2, <2>3
<1>10. /\ \A place : place \in DOMAIN cur'[r] <=>
                      place \in DOMAIN cur[r] \/ \E k \in DOMAIN message : place = c.in[k]
       /\ \A n \in DOMAIN message : cur'[r][c.in[n]] = message[n]
       /\ \A place \in DOMAIN cur[r] :
            (\A k \in DOMAIN message : c.in[k] # place) => cur'[r][place] = cur[r][place]
  <2>1. cur'[r] = Filled(cur[r], c.in, message)
    BY <1>1, <1>3
  <2>2. \A m, n \in DOMAIN message : c.in[m] = c.in[n] => m = n
    BY <1>9
  <2> DEFINE filled == Filled(cur[r], c.in, message)
  <2>3. /\ \A place : place \in DOMAIN filled <=>
                      place \in DOMAIN cur[r] \/ \E k \in DOMAIN message : place = c.in[k]
        /\ \A n \in DOMAIN message : filled[c.in[n]] = message[n]
        /\ \A place \in DOMAIN cur[r] :
             (\A k \in DOMAIN message : c.in[k] # place) => filled[place] = cur[r][place]
    <3> HIDE DEF c
    <3> QED BY ONLY <2>2, FilledPlaces
  <2> QED BY <2>1, <2>3
<1>11. RankOK(r)'
  <2>1. RankOK(r) /\ DOMAIN cur[r] = Places(r)
    BY DEF Carried, RankOK, Buffers
  <2>2. \A place \in Places(r) \ Refreshed(setup.plan[r]) : cur'[r][place] = cur[r][place]
    BY <1>9, <1>10, <2>1
  <2>3. Refreshed(setup.plan[r]) \subseteq Places(r) \ Own(r) /\ Own(r) \subseteq Places(r)
    BY <1>8 DEF FillsOnce, Places, Own
  <2>4. Buffers(r)' /\ (it[r] <= Iterations)'
    <3>1. \A k \in DOMAIN message : c.in[k] \in Places(r)
      BY <1>9, <2>3
    <3>2. DOMAIN cur'[r] = Places(r)
      BY <1>10, <2>1, <3>1
    <3> QED BY <1>1, <2>1, <3>2, NamesStay DEF Buffers, RankOK
  <2>5. OwnedOK(r)'
    BY <1>1, <2>1, <2>2, <2>3, NamesStay DEF OwnedOK, RankOK
  <2>6. StillOK(r)'
    BY <1>1, <2>1, <2>2, NamesStay DEF StillOK, RankOK, Still
  <2>7. ASSUME NEW k \in DOMAIN CallsOf(r), CallsOf(r)[k].from # ProcNull, Arrived(r, k)',
               NEW n \in DOMAIN CallsOf(r)[k].in
        PROVE  cur'[r][CallsOf(r)[k].in[n]] = SerialAt(r, CallsOf(r)[k].in[n], it[r])
    <3>1. CASE k = call[r]
      BY <1>8, <1>10, <2>7, <3>1 DEF CurrentCall
    <3>2. CASE k # call[r]
      <4>1. Arrived(r, k)
        BY <1>1, <2>7, <3>2 DEF Arrived
      <4>2. \A m \in DOMAIN message : c.in[m] # CallsOf(r)[k].in[n]
        BY <1>4, <1>5, <1>8, <2>7, <3>2 DEF FillsOnce, CurrentCall, CallsOf
      <4>3. CallsOf(r)[k].in[n] \in Places(r)
        BY <2>3, <2>7 DEF Refreshed, ToSet, CallsOf
      <4> QED BY <1>10, <2>1, <2>7, <4>1, <4>2, <4>3 DEF RankOK, GhostsOK
    <3> QED BY <3>1, <3>2
  <2>8. GhostsOK(r)'
    BY <1>1, <2>7, NamesStay, PlacesStay DEF GhostsOK
  <2> QED BY <2>4, <2>5, <2>6, <2>8 DEF RankOK
<1>12. ASSUME NEW q \in Ranks PROVE RankOK(q)'
  <2>1. CASE q # r
    <3>1. RankOK(q) /\ cur'[q] = cur[q] /\ stage'[q] = stage[q]
      BY <1>1, <2>1 DEF Carried
    <3> QED BY <1>1, <3>1, RankStays
  <2> QED BY <1>11, <2>1
<1>13. ASSUME NEW ch \in ChannelsOf(problem) PROVE MessagesOK(ch)'
  <2>1. MessagesOK(ch)
    BY DEF Carried
  <2>2. CASE ch # taken
    <3>1. net'[ch] = net[ch] /\ (ch[2] # ProcNull => Taken(ch)' = Taken(ch))
      BY <1>0, <1>1, <2>2, ReceiveTakes
    <3> QED BY <1>1, <2>1, <3>1, MessagesStay
  <2>3. CASE ch = taken
    <3>1. net'[ch] = Tail(net[ch])
      BY <1>1, <2>3
    <3>2. ASSUME NEW k \in DOMAIN net'[ch]
          PROVE  MessageOK(ch, net[ch][k], Taken(ch) + k - 1)'
      <4>1. k \in Nat /\ k + 1 \in DOMAIN net[ch] /\ net'[ch][k] = net[ch][k + 1]
        BY <1>6, <2>3, <3>1, <3>2
      <4>2. MessageOK(ch, net[ch][k + 1], Taken(ch) + (k + 1) - 1)
        BY <1>1, <1>5, <2>1, <2>3, <4>1 DEF MessagesOK
      <4>3. Taken(ch) + (k + 1) - 1 = Taken(ch)' + k - 1
        <5>1. Taken(ch) = it[r] /\ Taken(ch)' = it[r] + 1
          BY <1>5, <2>3
        <5> QED BY <1>4, <4>1, <5>1
      <4>4. OutOf(ch)' = OutOf(ch) /\ problem' = problem /\ setup' = setup
        BY <1>1, NamesStay
      <4> QED BY <4>1, <4>2, <4>3, <4>4 DEF MessageOK, SerialAt
    <3> QED BY <3>2 DEF MessagesOK
  <2> QED BY <2>2, <2>3
<1> QED BY <1>1, <1>2, <1>3, <1>12, <1>13, PlacesStay DEF Carried

LEMMA LeaveCallCarries ==
  ASSUME PlansFit, Carried, NEW r \in Ranks, LeaveCall(r)
  PROVE  Carried'
<1>1. /\ PlansMatch /\ Accounted /\ Setting /\ UNCHANGED <<problem, setup, cur, next, it, net>>
      /\ stage[r] = "received" /\ stage \in [Ranks -> {"idle", "posted", "received"}]
      /\ stage' = [stage EXCEPT ![r] = "idle"]
      /\ call \in [Ranks -> Nat] /\ call' = [call EXCEPT ![r] = @ + 1]
  BY CarriedSetting DEF LeaveCall
<1>2. Accounted'
  BY <1>1, LeaveCallAccounts
<1>3. ASSUME NEW q \in Ranks PROVE RankOK(q)'
  <2>1. RankOK(q)
    BY DEF Carried
  <2>2. CASE q # r
    BY <1>1, <2>1, <2>2, RankStays
  <2>3. CASE q = r
    <3>1. Buffers(r)' /\ OwnedOK(r)' /\ StillOK(r)' /\ (it[r] <= Iterations)'
      BY <1>1, <2>1, <2>3, NamesStay DEF RankOK, Buffers, OwnedOK, StillOK
    <3>2. ASSUME NEW k \in DOMAIN CallsOf(r), Arrived(r, k)'
          PROVE  Arrived(r, k)
      <4>1. k \in Nat
        BY <1>1, CallsAreSequences
      <4> QED BY <1>1, <3>2, <4>1 DEF Arrived
    <3>3. GhostsOK(r)'
      BY <1>1, <2>1, <2>3, <3>2, NamesStay, PlacesStay DEF RankOK, GhostsOK
    <3> QED BY <2>3, <3>1, <3>3 DEF RankOK
  <2> QED BY <2>2, <2>3
<1>4. ASSUME NEW ch \in ChannelsOf(problem) PROVE MessagesOK(ch)'
  <2>1. MessagesOK(ch) /\ (ch[2] # ProcNull => Taken(ch)' = Taken(ch))
    BY <1>1, LeaveCallCounts DEF Carried
  <2> QED BY <1>1, <2>1, MessagesStay
<1> QED BY <1>1, <1>2, <1>3, <1>4, PlacesStay DEF Carried

(* When a rank sweeps, all its ghosts hold the cells of its own iteration. *)
LEMMA ReadsAreSerial ==
  ASSUME PlansFit, Carried, NEW r \in Ranks, InLoop(r), call[r] > Len(CallsOf(r)),
         NEW place \in Own(r), NEW n \in DOMAIN setup.plan[r].reads[place]
  PROVE  LET at == setup.plan[r].reads[place][n] IN cur[r][at] = SerialAt(r, at, it[r])
<1> DEFINE at == setup.plan[r].reads[place][n]
<1>1. PlansMatch /\ Setting /\ RankOK(r) /\ it[r] \in 0..Iterations
  BY CarriedSetting, IterationsAssumption DEF Carried, RankOK
<1>2. at \in Own(r) \cup Refreshed(setup.plan[r]) \cup Walls(problem, setup.plan[r])
  BY <1>1, ViewOfRank DEF SweepsSerially, Own
<1> SUFFICES cur[r][at] = SerialAt(r, at, it[r])
  OBVIOUS
<1> HIDE DEF at
<1>3. CASE at \in Own(r)
  BY <1>1, <1>3 DEF RankOK, OwnedOK
<1>4. CASE at \in Refreshed(setup.plan[r])
  <2>1. PICK k \in DOMAIN CallsOf(r) : CallsOf(r)[k].from # ProcNull /\ at \in ToSet(CallsOf(r)[k].in)
    BY <1>4 DEF Refreshed, ToSet, CallsOf
  <2>2. PICK m \in DOMAIN CallsOf(r)[k].in : at = CallsOf(r)[k].in[m]
    BY <2>1 DEF ToSet
  <2>3. Arrived(r, k)
    <3>1. k \in 1..Len(CallsOf(r)) /\ Len(CallsOf(r)) \in Nat /\ call[r] \in Nat
      BY <1>1, CarriedSetting, CallsAreSequences
    <3> QED BY <3>1 DEF Arrived
  <2> QED BY <1>1, <2>1, <2>2, <2>3 DEF RankOK, GhostsOK
<1>5. CASE at \in Walls(problem, setup.plan[r]) /\ at \notin Own(r)
  <2>1. at \in Still(r) /\ setup.plan[r].start[at] = SerialAt(r, at, it[r])
    BY <1>1, <1>5 DEF Walls, Still, Places, SerialAt
  <2> QED BY <1>1, <2>1 DEF RankOK, StillOK
<1> QED BY <1>2, <1>3, <1>4, <1>5

(* The sweep of a rank makes the serial sweep on its tile.                 *)
LEMMA RelaxSweeps ==
  ASSUME PlansFit, Carried, NEW r \in Ranks, Relax(r), NEW place \in Own(r)
  PROVE  cur'[r][place] = SerialAt(r, place, it[r] + 1)
<1> DEFINE reads == setup.plan[r].reads[place]
<1>1. /\ PlansMatch /\ Setting /\ r \in DOMAIN cur /\ it[r] \in 0..(Iterations - 1)
      /\ InLoop(r) /\ call[r] > Len(CallsOf(r)) /\ Buffers(r)
  BY CarriedSetting, IterationsAssumption DEF Carried, RankOK, Relax, InLoop
<1>2. SweepsSerially(problem, setup.plan[r]) /\ FillsOnce(setup.plan[r])
  BY <1>1, ViewOfRank
<1>3. cur'[r][place] = Mean(cur[r], reads)
  <2>1. place \in DOMAIN cur[r]
    BY <1>1, <1>2 DEF FillsOnce, Buffers, Places, Own
  <2> QED BY <1>1, <2>1 DEF Relax, Own
<1>4. \A n \in DOMAIN reads : cur[r][reads[n]] = SerialAt(r, reads[n], it[r])
  BY <1>1, ReadsAreSerial
<1>5. Mean(cur[r], reads) = MeanOf([n \in DOMAIN reads |-> SerialAt(r, reads[n], it[r])])
  <2>1. [n \in DOMAIN reads |-> cur[r][reads[n]]] = [n \in DOMAIN reads |-> SerialAt(r, reads[n], it[r])]
    BY <1>4
  <2> QED BY <2>1 DEF Mean
<1>6. SerialAt(r, place, it[r] + 1) = MeanOf([n \in DOMAIN reads |-> SerialAt(r, reads[n], it[r])])
  BY <1>1, <1>2 DEF SweepsSerially, SerialAt, Own
<1> QED BY <1>3, <1>5, <1>6

LEMMA RelaxCarries ==
  ASSUME PlansFit, Carried, NEW r \in Ranks, Relax(r)
  PROVE  Carried'
<1>1. /\ PlansMatch /\ Accounted /\ Setting /\ UNCHANGED <<problem, setup, stage, net>>
      /\ it[r] < Iterations /\ it \in [Ranks -> Nat] /\ it' = [it EXCEPT ![r] = @ + 1]
      /\ call \in [Ranks -> Nat] /\ call' = [call EXCEPT ![r] = 1]
      /\ DOMAIN cur = Ranks /\ DOMAIN next = Ranks
      /\ next' = [next EXCEPT ![r] = cur[r]]
      /\ cur' = [cur EXCEPT ![r] =
            [place \in DOMAIN @ |-> IF place \in Own(r) THEN Mean(@, setup.plan[r].reads[place])
                                    ELSE next[r][place]]]
  BY CarriedSetting DEF Relax, InLoop, Carried, Own
<1>2. Accounted'
  BY <1>1, RelaxAccounts
<1>3. stage'[r] = "idle" /\ it'[r] = it[r] + 1 /\ call'[r] = 1 /\ it[r] \in Nat
  <2>1. call[r] > Len(CallsOf(r)) /\ Len(CallsOf(r)) \in Nat /\ call[r] \in Nat
    BY <1>1, CallsAreSequences DEF Relax
  <2> QED BY <1>1, <2>1 DEF Accounted, ProgressOK
<1>4. RankOK(r)'
  <2>1. RankOK(r)
    BY DEF Carried
  <2>2. Buffers(r)' /\ (it[r] <= Iterations)'
    BY <1>1, <1>3, <2>1, IterationsAssumption, NamesStay DEF RankOK, Buffers
  <2>3. OwnedOK(r)'
    <3>1. \A place \in Own(r) : cur'[r][place] = SerialAt(r, place, it[r] + 1)
      BY RelaxSweeps
    <3>2. Own(r)' = Own(r) /\ problem' = problem /\ setup' = setup
      BY <1>1, NamesStay
    <3> QED BY <1>3, <3>1, <3>2 DEF OwnedOK, SerialAt
  <2>4. StillOK(r)'
    <3>1. \A place \in Still(r) : cur'[r][place] = next[r][place] /\ next'[r][place] = cur[r][place]
      BY <1>1, <2>1 DEF RankOK, Buffers, Still
    <3> QED BY <1>1, <2>1, <3>1, NamesStay DEF StillOK, RankOK
  <2>5. GhostsOK(r)'
    <3>1. \A k \in DOMAIN CallsOf(r) : ~Arrived(r, k)'
      <4>1. \A k \in DOMAIN CallsOf(r) : k \in Nat /\ k >= 1
        BY <1>1, CallsAreSequences
      <4> QED BY <1>3, <4>1 DEF Arrived
    <3> QED BY <1>1, <3>1, PlacesStay DEF GhostsOK
  <2> QED BY <2>2, <2>3, <2>4, <2>5 DEF RankOK
<1>5. ASSUME NEW q \in Ranks PROVE RankOK(q)'
  <2>1. CASE q # r
    <3>1. /\ RankOK(q) /\ it'[q] = it[q] /\ call'[q] = call[q]
          /\ cur'[q] = cur[q] /\ next'[q] = next[q]
      BY <1>1, <2>1 DEF Carried
    <3> QED BY <1>1, <3>1, RankStays
  <2> QED BY <1>4, <2>1
<1>6. ASSUME NEW ch \in ChannelsOf(problem) PROVE MessagesOK(ch)'
  <2>1. MessagesOK(ch) /\ (ch[2] # ProcNull => Taken(ch)' = Taken(ch))
    BY <1>1, RelaxCounts DEF Carried
  <2> QED BY <1>1, <2>1, MessagesStay
<1>7. DOMAIN cur' = Ranks' /\ DOMAIN next' = Ranks'
  BY <1>1, PlacesStay
<1> QED BY <1>1, <1>2, <1>5, <1>6, <1>7, PlacesStay DEF Carried

(* Steps that touch neither the buffers nor the messages.                  *)
LEMMA OthersCarry ==
  ASSUME PlansFit, Carried, [Next]_vars,
         UNCHANGED <<problem, setup, cur, next, it, call, stage, net>>
  PROVE  Carried'
<1>1. PlansMatch /\ Accounted
  BY CarriedSetting
<1>2. Accounted'
  BY <1>1, StepAccounts
<1>3. \A q \in Ranks : RankOK(q)'
  BY RankStays DEF Carried
<1>4. ASSUME NEW ch \in ChannelsOf(problem) PROVE MessagesOK(ch)'
  <2>1. Taken(ch)' = Taken(ch)
    BY PlacesStay DEF Taken
  <2> QED BY <2>1, MessagesStay DEF Carried
<1> QED BY <1>2, <1>3, <1>4, PlacesStay DEF Carried

LEMMA StepCarries ==
  ASSUME PlansFit, Carried, [Next]_vars
  PROVE  Carried'
<1>1. ASSUME NEW r \in Ranks, Post(r) PROVE Carried'
  BY <1>1, PostCarries
<1>2. ASSUME NEW r \in Ranks, Receive(r) PROVE Carried'
  BY <1>2, ReceiveCarries
<1>3. ASSUME NEW r \in Ranks, Return(r) \/ ReturnBuffered(r) PROVE Carried'
  BY <1>3, LeaveCallCarries DEF Return, ReturnBuffered
<1>4. ASSUME NEW r \in Ranks, Relax(r) PROVE Carried'
  BY <1>4, RelaxCarries
<1>5. ASSUME NEW r \in Ranks, Verify(r) PROVE Carried'
  BY <1>5, OthersCarry DEF Verify
<1>6. CASE Conclude
  BY <1>6, OthersCarry DEF Conclude
<1>7. CASE Ended \/ UNCHANGED vars
  BY <1>7, OthersCarry DEF Ended, vars
<1> QED BY <1>1, <1>2, <1>3, <1>4, <1>5, <1>6, <1>7 DEF Next

LEMMA CarriedAlways ==
  ASSUME PlansFit
  PROVE  Spec => []Carried
<1>1. Init => Carried
  BY InitCarried
<1>2. Carried /\ [Next]_vars => Carried'
  BY StepCarries
<1> QED BY <1>1, <1>2, PTL DEF Spec

-----------------------------------------------------------------------------
(* The ghosts of an iteration are part of what is carried.                 *)
LEMMA GhostsCurrentByPlans ==
  ASSUME PlansFit
  PROVE  Spec => []GhostsCurrent
<1>1. Carried => GhostsCurrent
  BY DEF Carried, RankOK, GhostsOK, GhostsCurrent, Arrived, SerialAt
<1> QED BY <1>1, CarriedAlways, PTL

-----------------------------------------------------------------------------
(* Types.  What HaloPlan and GraphPlan provide for them: the boundary is   *)
(* made of jets, a tile has finitely many cells, and the mean a cell       *)
(* becomes is a jet, as it has a number of neighbours that divides.        *)
PlanTyped(own) ==
  /\ own.start \in [DOMAIN own.start -> Jet]
  /\ IsFiniteSet(DOMAIN own.reads)
  /\ \A place \in DOMAIN own.reads : \A field \in [DOMAIN own.start -> Jet] :
       Mean(field, own.reads[place]) \in Jet
PlansTyped == \A p \in Problems : \A r \in RanksOf(p) : PlanTyped(Plan[p][r])

CellsTyped(r) == cur[r] \in [Places(r) -> Jet] /\ next[r] \in [Places(r) -> Jet]
MessagesTyped(ch) == \A k \in DOMAIN net[ch] : \A n \in DOMAIN net[ch][k] : net[ch][k][n] \in Jet
CountsTyped(r) ==
  /\ call[r] <= Len(CallsOf(r)) + 1
  /\ mismatch[r] \in -1..Cardinality(Own(r))
  /\ exit[r] \in {"running", "PASS", "FAIL"}
Typed ==
  /\ DOMAIN mismatch = Ranks /\ DOMAIN exit = Ranks
  /\ \A r \in Ranks : CellsTyped(r) /\ CountsTyped(r)
  /\ \A ch \in ChannelsOf(problem) : MessagesTyped(ch)

LEMMA PlanOfRank ==
  ASSUME PlansTyped, Setting, NEW r \in Ranks
  PROVE  /\ setup.plan[r] = Plan[problem][r] /\ PlanTyped(setup.plan[r])
         /\ IsFiniteSet(Own(r)) /\ Cardinality(Own(r)) \in Nat
<1>1. setup.plan[r] = Plan[problem][r] /\ PlanTyped(setup.plan[r])
  BY PlanOfProblem DEF PlansTyped, Setting, Ranks
<1> QED BY <1>1, FS_CardinalityType DEF PlanTyped, Own

LEMMA InitTyped ==
  ASSUME PlansFit, PlansTyped, Init
  PROVE  Typed
<1>1. Setting /\ PlansMatch
  BY DEF Init, Setting, PlansFit, PlansMatch
<1>2. ASSUME NEW r \in Ranks PROVE CellsTyped(r) /\ CountsTyped(r)
  <2>1. PlanTyped(setup.plan[r]) /\ setup.plan[r] = Plan[problem][r] /\ Cardinality(Own(r)) \in Nat
    BY <1>1, PlanOfRank
  <2>2. cur[r] = setup.plan[r].start /\ next[r] = setup.plan[r].start
    BY <2>1 DEF Init, SecondBuffer
  <2>3. CellsTyped(r)
    BY <2>1, <2>2 DEF CellsTyped, PlanTyped, Places
  <2>4. call[r] = 1 /\ mismatch[r] = -1 /\ exit[r] = "running" /\ Len(CallsOf(r)) \in Nat
    BY <1>1, CallsAreSequences DEF Init
  <2> QED BY <2>1, <2>3, <2>4 DEF CountsTyped
<1>3. \A ch \in ChannelsOf(problem) : MessagesTyped(ch)
  BY DEF Init, MessagesTyped
<1> QED BY <1>2, <1>3 DEF Typed, Init

(* What a step that leaves the buffers, or the counts, alone keeps.        *)
LEMMA TypesStay ==
  ASSUME UNCHANGED <<problem, setup>>, NEW q \in Ranks
  PROVE  /\ CellsTyped(q) /\ cur'[q] = cur[q] /\ next'[q] = next[q] => CellsTyped(q)'
         /\ CountsTyped(q) /\ call'[q] = call[q] /\ mismatch'[q] = mismatch[q] /\ exit'[q] = exit[q]
              => CountsTyped(q)'
BY NamesStay, PlacesStay DEF CellsTyped, CountsTyped

LEMMA MessageTypesStay ==
  ASSUME NEW ch, MessagesTyped(ch), net'[ch] = net[ch]
  PROVE  MessagesTyped(ch)'
BY DEF MessagesTyped

LEMMA PostTypes ==
  ASSUME PlansFit, PlansTyped, Carried, Typed, NEW r \in Ranks, Post(r)
  PROVE  Typed'
<1> DEFINE c == CurrentCall(r)
           posted == <<r, c.to, c.tag>>
           message == [k \in DOMAIN c.out |-> cur[r][c.out[k]]]
<1>1. /\ UNCHANGED <<problem, setup, cur, next, it, call, mismatch, exit>>
      /\ net' = IF c.to = ProcNull THEN net ELSE [net EXCEPT ![posted] = Append(@, message)]
  BY DEF Post
<1>2. PlansMatch /\ Accounted /\ Setting /\ DOMAIN net = ChannelsOf(problem)
  BY CarriedSetting
<1>3. \A q \in Ranks : CellsTyped(q)' /\ CountsTyped(q)'
  BY <1>1, TypesStay DEF Typed
<1>4. \A n \in DOMAIN message : message[n] \in Jet
  <2>1. call[r] \in DOMAIN CallsOf(r)
    <3>1. call[r] \in Nat /\ call[r] >= 1 /\ call[r] <= Len(CallsOf(r))
      BY <1>2 DEF Post, Accounted, ProgressOK
    <3> QED BY <1>2, <3>1, CallsAreSequences
  <2>2. \A n \in DOMAIN c.out : c.out[n] \in Own(r)
    <3>1. FillsOnce(setup.plan[r])
      BY <1>2, ViewOfRank
    <3> QED BY <2>1, <3>1 DEF FillsOnce, ToSet, CurrentCall, CallsOf, Own
  <2>3. Own(r) \subseteq Places(r)
    BY <1>2, ViewOfRank DEF FillsOnce, Own, Places
  <2>4. CellsTyped(r)
    BY DEF Typed
  <2> QED BY <2>2, <2>3, <2>4 DEF CellsTyped
<1>5. ASSUME NEW ch \in ChannelsOf(problem) PROVE MessagesTyped(ch)'
  <2>1. MessagesTyped(ch)
    BY DEF Typed
  <2>2. CASE net'[ch] = net[ch]
    BY <2>1, <2>2, MessageTypesStay
  <2>3. CASE net'[ch] # net[ch]
    <3> HIDE DEF message
    <3>1. c.to # ProcNull /\ ch = posted /\ net'[ch] = Append(net[ch], message)
      BY <1>1, <1>2, <2>3
    <3>2. ch[2] # ProcNull
      BY <3>1
    <3>3. IsSeq(net[ch])
      BY <1>2, <3>2 DEF Accounted, ChannelOK
    <3>4. \A k \in DOMAIN net'[ch] :
            net'[ch][k] = message \/ (k \in DOMAIN net[ch] /\ net'[ch][k] = net[ch][k])
      BY <3>1, <3>3, SeqAppend
    <3>5. ASSUME NEW k \in DOMAIN net'[ch], NEW n \in DOMAIN net'[ch][k]
          PROVE  net'[ch][k][n] \in Jet
      BY <1>4, <2>1, <3>4, <3>5 DEF MessagesTyped
    <3> QED BY <3>5 DEF MessagesTyped
  <2> QED BY <2>2, <2>3
<1>6. DOMAIN mismatch' = Ranks' /\ DOMAIN exit' = Ranks'
  BY <1>1, PlacesStay DEF Typed
<1> QED BY <1>1, <1>3, <1>5, <1>6, PlacesStay DEF Typed

LEMMA ReceiveTypes ==
  ASSUME PlansFit, PlansTyped, Carried, Carried', Typed, NEW r \in Ranks, Receive(r)
  PROVE  Typed'
<1> DEFINE c == CurrentCall(r)
<1>1. PICK taken \in ChannelsOf(problem) : taken = <<c.from, r, c.tag>>
  BY CarriedSetting DEF Receive
<1> DEFINE message == Head(net[taken])
<1>2. /\ UNCHANGED <<problem, setup, next, it, call, mismatch, exit>>
      /\ net[taken] # << >> /\ net' = [net EXCEPT ![taken] = Tail(@)]
      /\ cur' = [cur EXCEPT ![r] = Filled(@, c.in, message)]
  BY <1>1 DEF Receive
<1>3. Accounted /\ Setting /\ DOMAIN net = ChannelsOf(problem) /\ DOMAIN cur = Ranks
  BY CarriedSetting DEF Carried
<1>4. taken[2] # ProcNull
  BY <1>1, <1>3, NullIsNoRank
<1>5. /\ 1 \in DOMAIN net[taken] /\ message = net[taken][1]
      /\ \A k \in DOMAIN Tail(net[taken]) :
           k + 1 \in DOMAIN net[taken] /\ Tail(net[taken])[k] = net[taken][k + 1]
  <2>1. IsSeq(net[taken])
    BY <1>3, <1>4 DEF Accounted, ChannelOK
  <2> QED BY <1>2, <2>1, SeqTail
<1>6. \A n \in DOMAIN message : message[n] \in Jet
  BY <1>5 DEF Typed, MessagesTyped
<1> HIDE DEF message
<1>7. CellsTyped(r)'
  <2>1. CellsTyped(r)
    BY DEF Typed
  <2>2. DOMAIN cur'[r] = Places(r)
    BY <1>2, NamesStay, PlacesStay DEF Carried, RankOK, Buffers
  <2>3. cur'[r] = Filled(cur[r], c.in, message)
    BY <1>2, <1>3
  <2>4. \A place \in DOMAIN Filled(cur[r], c.in, message) : Filled(cur[r], c.in, message)[place] \in Jet
    <3> HIDE DEF c
    <3>1. \A place \in DOMAIN cur[r] : cur[r][place] \in Jet
      BY <2>1 DEF CellsTyped
    <3> QED BY <1>6, <3>1 DEF Filled
  <2>5. Filled(cur[r], c.in, message) \in [DOMAIN Filled(cur[r], c.in, message) -> Jet]
    <3> HIDE DEF c
    <3> QED BY <2>4 DEF Filled
  <2>6. cur'[r] \in [Places(r) -> Jet]
    BY <2>2, <2>3, <2>5
  <2> QED BY <1>2, <2>1, <2>6, NamesStay DEF CellsTyped
<1>8. ASSUME NEW q \in Ranks PROVE CellsTyped(q)' /\ CountsTyped(q)'
  <2>1. CellsTyped(q) /\ CountsTyped(q)
    BY DEF Typed
  <2>2. q # r => cur'[q] = cur[q]
    BY <1>2
  <2> QED BY <1>2, <1>7, <2>1, <2>2, TypesStay
<1>9. ASSUME NEW ch \in ChannelsOf(problem) PROVE MessagesTyped(ch)'
  <2>1. MessagesTyped(ch)
    BY DEF Typed
  <2>2. CASE ch # taken
    <3>1. net'[ch] = net[ch]
      BY <1>2, <2>2
    <3> QED BY <2>1, <3>1, MessageTypesStay
  <2>3. CASE ch = taken
    <3>1. net'[ch] = Tail(net[ch])
      BY <1>2, <1>3, <2>3
    <3>2. ASSUME NEW k \in DOMAIN net'[ch], NEW n \in DOMAIN net'[ch][k]
          PROVE  net'[ch][k][n] \in Jet
      BY <1>5, <2>1, <2>3, <3>1, <3>2 DEF MessagesTyped
    <3> QED BY <3>2 DEF MessagesTyped
  <2> QED BY <2>2, <2>3
<1>10. DOMAIN mismatch' = Ranks' /\ DOMAIN exit' = Ranks'
  BY <1>2, PlacesStay DEF Typed
<1> QED BY <1>2, <1>8, <1>9, <1>10, PlacesStay DEF Typed

LEMMA LeaveCallTypes ==
  ASSUME PlansFit, Carried, Typed, NEW r \in Ranks, LeaveCall(r)
  PROVE  Typed'
<1>1. /\ UNCHANGED <<problem, setup, cur, next, net, mismatch, exit>>
      /\ stage[r] = "received" /\ call' = [call EXCEPT ![r] = @ + 1]
  BY DEF LeaveCall
<1>2. PlansMatch /\ Setting /\ call \in [Ranks -> Nat] /\ call[r] <= Len(CallsOf(r)) /\ Len(CallsOf(r)) \in Nat
  BY <1>1, CarriedSetting, CallsAreSequences DEF Accounted, ProgressOK
<1>3. ASSUME NEW q \in Ranks PROVE CellsTyped(q)' /\ CountsTyped(q)'
  <2>1. CellsTyped(q) /\ CountsTyped(q)
    BY DEF Typed
  <2>2. (call[q] <= Len(CallsOf(q)) + 1)'
    <3>1. CASE q = r
      BY <1>1, <1>2, <3>1, PlacesStay
    <3>2. CASE q # r
      BY <1>1, <1>2, <2>1, <3>2, PlacesStay DEF CountsTyped
    <3> QED BY <3>1, <3>2
  <2>3. CountsTyped(q)'
    BY <1>1, <2>1, <2>2, NamesStay DEF CountsTyped
  <2> QED BY <1>1, <2>1, <2>3, TypesStay
<1>4. ASSUME NEW ch \in ChannelsOf(problem) PROVE MessagesTyped(ch)'
  BY <1>1, MessageTypesStay DEF Typed
<1>5. DOMAIN mismatch' = Ranks' /\ DOMAIN exit' = Ranks'
  BY <1>1, PlacesStay DEF Typed
<1> QED BY <1>1, <1>3, <1>4, <1>5, PlacesStay DEF Typed

LEMMA RelaxTypes ==
  ASSUME PlansFit, PlansTyped, Carried, Typed, NEW r \in Ranks, Relax(r)
  PROVE  Typed'
<1> DEFINE reads == setup.plan[r].reads
           swept == [place \in DOMAIN cur[r] |->
                       IF place \in DOMAIN reads THEN Mean(cur[r], reads[place]) ELSE next[r][place]]
<1>1. /\ UNCHANGED <<problem, setup, net, mismatch, exit>>
      /\ cur' = [cur EXCEPT ![r] = swept] /\ next' = [next EXCEPT ![r] = cur[r]]
      /\ call' = [call EXCEPT ![r] = 1]
  BY DEF Relax
<1>2. /\ PlansMatch /\ Setting /\ call \in [Ranks -> Nat] /\ Len(CallsOf(r)) \in Nat
      /\ DOMAIN cur = Ranks /\ DOMAIN next = Ranks
  BY CarriedSetting, CallsAreSequences DEF Carried
<1>3. CellsTyped(r)'
  <2>1. CellsTyped(r) /\ PlanTyped(setup.plan[r])
    BY <1>2, PlanOfRank DEF Typed
  <2>2. cur[r] \in [Places(r) -> Jet] /\ next[r] \in [Places(r) -> Jet]
    BY <2>1 DEF CellsTyped
  <2>3. \A place \in DOMAIN reads : Mean(cur[r], reads[place]) \in Jet
    BY <2>1, <2>2 DEF PlanTyped, Places
  <2>4. swept \in [Places(r) -> Jet]
    BY <2>2, <2>3
  <2>5. cur'[r] = swept /\ next'[r] = cur[r]
    BY <1>1, <1>2
  <2> QED BY <1>1, <2>2, <2>4, <2>5, NamesStay DEF CellsTyped
<1>4. ASSUME NEW q \in Ranks PROVE CellsTyped(q)' /\ CountsTyped(q)'
  <2>1. CellsTyped(q) /\ CountsTyped(q)
    BY DEF Typed
  <2>2. CASE q = r
    <3>1. (call[r] <= Len(CallsOf(r)) + 1)'
      BY <1>1, <1>2, PlacesStay
    <3> QED BY <1>1, <1>3, <2>1, <2>2, <3>1, NamesStay DEF CountsTyped
  <2>3. CASE q # r
    <3>1. cur'[q] = cur[q] /\ next'[q] = next[q] /\ call'[q] = call[q]
      BY <1>1, <2>3
    <3> QED BY <1>1, <2>1, <3>1, TypesStay
  <2> QED BY <2>2, <2>3
<1>5. ASSUME NEW ch \in ChannelsOf(problem) PROVE MessagesTyped(ch)'
  BY <1>1, MessageTypesStay DEF Typed
<1>6. DOMAIN mismatch' = Ranks' /\ DOMAIN exit' = Ranks'
  BY <1>1, PlacesStay DEF Typed
<1> QED BY <1>1, <1>4, <1>5, <1>6, PlacesStay DEF Typed

LEMMA EndTypes ==
  ASSUME PlansFit, PlansTyped, Carried, Typed,
         Conclude \/ UNCHANGED vars \/ \E r \in Ranks : Verify(r)
  PROVE  Typed'
<1>1. UNCHANGED <<problem, setup, cur, next, call, net>> /\ Setting
  BY CarriedSetting DEF Conclude, vars, Verify
<1>2. /\ DOMAIN mismatch' = Ranks /\ DOMAIN exit' = Ranks
      /\ \A q \in Ranks : mismatch'[q] \in -1..Cardinality(Own(q)) /\ exit'[q] \in {"running", "PASS", "FAIL"}
  <2>0. \A q \in Ranks : mismatch[q] \in -1..Cardinality(Own(q)) /\ exit[q] \in {"running", "PASS", "FAIL"}
    BY DEF Typed, CountsTyped
  <2>1. CASE Conclude
    <3>1. DOMAIN exit' = Ranks /\ \A q \in Ranks : exit'[q] \in {"PASS", "FAIL"}
      BY <2>1 DEF Conclude
    <3> QED BY <2>0, <2>1, <3>1 DEF Conclude, Typed
  <2>2. CASE UNCHANGED vars
    BY <2>0, <2>2 DEF vars, Typed
  <2>3. ASSUME NEW r \in Ranks, Verify(r)
        PROVE  /\ DOMAIN mismatch' = Ranks /\ DOMAIN exit' = Ranks
               /\ \A q \in Ranks : mismatch'[q] \in -1..Cardinality(Own(q)) /\ exit'[q] \in {"running", "PASS", "FAIL"}
    <3> DEFINE wrong == {place \in DOMAIN Tile(r) : Tile(r)[place] # setup.ref[setup.plan[r].global[place]]}
    <3>1. exit' = exit /\ mismatch' = [mismatch EXCEPT ![r] = Cardinality(wrong)]
      BY <2>3 DEF Verify
    <3>2. wrong \subseteq Own(r)
      BY DEF Tile, Own
    <3>3. IsFiniteSet(Own(r)) /\ Cardinality(Own(r)) \in Nat
      BY <1>1, PlanOfRank
    <3> HIDE DEF wrong
    <3>4. IsFiniteSet(wrong) /\ Cardinality(wrong) <= Cardinality(Own(r))
      BY <3>2, <3>3, FS_Subset
    <3>5. Cardinality(wrong) \in -1..Cardinality(Own(r))
      BY <3>3, <3>4, FS_CardinalityType
    <3> QED BY <2>0, <3>1, <3>5 DEF Typed
  <2> QED BY <2>1, <2>2, <2>3
<1>3. ASSUME NEW q \in Ranks PROVE CellsTyped(q)' /\ CountsTyped(q)'
  BY <1>1, <1>2, NamesStay, PlacesStay DEF Typed, CellsTyped, CountsTyped
<1>4. ASSUME NEW ch \in ChannelsOf(problem) PROVE MessagesTyped(ch)'
  BY <1>1, MessageTypesStay DEF Typed
<1> QED BY <1>1, <1>2, <1>3, <1>4, PlacesStay DEF Typed

(* Wherever the plans fit and are typed, buffers, messages, counters and   *)
(* verdicts keep their types.                                              *)
LEMMA TypesByPlans ==
  ASSUME PlansFit, PlansTyped
  PROVE  Spec => []TypeOK
<1>1. Init => Typed
  BY InitTyped
<1>2. ASSUME Typed, Carried, Carried', [Next]_vars PROVE Typed'
  <2>1. ASSUME NEW r \in Ranks, Return(r) \/ ReturnBuffered(r) PROVE Typed'
    BY <1>2, <2>1, LeaveCallTypes DEF Return, ReturnBuffered
  <2>2. CASE Ended
    BY <1>2, <2>2, EndTypes DEF Ended
  <2> QED BY <1>2, <2>1, <2>2, PostTypes, ReceiveTypes, RelaxTypes, EndTypes DEF Next
<1>3. Typed /\ Carried => TypeOK
  <2> SUFFICES ASSUME Typed, Carried PROVE TypeOK
    OBVIOUS
  <2>1. /\ Setting /\ problem \in Problems /\ setup = Setup[problem] /\ DOMAIN net = ChannelsOf(problem)
    BY CarriedSetting DEF Setting
  <2>2. ASSUME NEW r \in Ranks
        PROVE  /\ \A buffer \in {cur[r], next[r]} : buffer \in [DOMAIN setup.plan[r].start -> Jet]
               /\ it[r] \in 0..Iterations /\ call[r] \in 1..(Len(CallsOf(r)) + 1)
               /\ stage[r] \in {"idle", "posted", "received"}
               /\ stage[r] # "idle" => call[r] <= Len(CallsOf(r))
               /\ mismatch[r] \in -1..Cardinality(DOMAIN setup.plan[r].reads)
               /\ exit[r] \in {"running", "PASS", "FAIL"}
    <3>1. CellsTyped(r) /\ CountsTyped(r) /\ RankOK(r) /\ ProgressOK
      BY DEF Typed, Carried, Accounted
    <3>2. Len(CallsOf(r)) \in Nat /\ it[r] \in Nat /\ call[r] \in Nat
      BY CarriedSetting, CallsAreSequences
    <3>3. it[r] \in 0..Iterations
      BY <3>1, <3>2, IterationsAssumption DEF RankOK
    <3>4. call[r] \in 1..(Len(CallsOf(r)) + 1)
      BY <3>1, <3>2 DEF CountsTyped, ProgressOK
    <3>5. \A buffer \in {cur[r], next[r]} : buffer \in [DOMAIN setup.plan[r].start -> Jet]
      BY <3>1 DEF CellsTyped, Places
    <3> QED BY <3>1, <3>3, <3>4, <3>5 DEF ProgressOK, CountsTyped, Own
  <2> QED BY <2>1, <2>2 DEF TypeOK
<1> QED BY <1>1, <1>2, <1>3, CarriedAlways, PTL DEF Spec

-----------------------------------------------------------------------------
(* A neighbour is a rank that sends.                                       *)
LEMMA NeighbourSends ==
  ASSUME PlansMatch, Setting, NEW r \in Ranks, NEW q \in NeighboursOf(problem, r)
  PROVE  \E ch \in ChannelsOf(problem) : ch[1] = q /\ ch[2] = r
<1>1. PICK c \in ToSet(Plan[problem][r].calls) : q = c.from /\ q # ProcNull
  BY DEF NeighboursOf
<1>2. PICK k \in DOMAIN Plan[problem][r].calls : c = Plan[problem][r].calls[k]
  BY DEF ToSet
<1>3. Matched(problem, Plan[problem])
  BY DEF PlansMatch, Setting
<1>4. <<q, r, c.tag>> \in ChannelsOf(problem)
  BY <1>1, <1>2, <1>3 DEF Matched, Ranks
<1> QED BY <1>4

(* A rank sweeps when the messages of its iteration are there, so every    *)
(* neighbour has made as many sweeps.                                      *)
LEMMA NeighboursHaveSwept ==
  ASSUME PlansFit, Carried, NEW r \in Ranks, Relax(r), NEW q \in NeighboursOf(problem, r)
  PROVE  it[q] >= it[r]
<1>1. PlansMatch /\ Accounted /\ Setting
  BY CarriedSetting
<1>2. PICK ch \in ChannelsOf(problem) : ch[1] = q /\ ch[2] = r
  BY <1>1, NeighbourSends
<1>3. ch \in ChannelsOf(problem)
  BY <1>2
<1>4. ch[1] = q /\ ch[2] = r /\ r # ProcNull
  BY <1>1, <1>2, NullIsNoRank
<1>5. Taken(ch) <= Posted(ch) /\ Posted(ch) <= it[q] + 1 /\ it[r] \in Nat /\ it[q] \in Nat
      /\ Posted(ch) \in Int
  BY <1>1, <1>3, <1>4, CountBounds
<1>6. Taken(ch) = it[r] + 1
  <2>1. TakePlace(ch) \in 1..Len(CallsOf(r)) /\ Len(CallsOf(r)) \in Nat /\ call[r] \in Nat
    BY <1>1, <1>3, <1>4, PlacesUnique, CallsAreSequences DEF Accounted, ProgressOK
  <2>2. call[r] > TakePlace(ch)
    BY <2>1 DEF Relax
  <2> QED BY <1>4, <2>2 DEF Taken
<1> QED BY <1>5, <1>6

LEMMA TileIsSerial ==
  ASSUME PlansFit, Carried, NEW r \in Ranks
  PROVE  Tile(r) = SerialTile(problem, r, it[r])
<1>1. setup.plan = Plan[problem] /\ OwnedOK(r)
  BY CarriedSetting, PlanOfProblem DEF Carried, RankOK
<1> QED BY <1>1 DEF OwnedOK, Tile, SerialTile, SerialAt, Own

(* The same in the state after a step.                                     *)
LEMMA NextTileIsSerial ==
  ASSUME PlansFit, Carried', NEW r \in Ranks'
  PROVE  Tile(r)' = SerialTile(problem', r, it'[r])
<1>1. setup' = Setup[problem'] /\ problem' \in Problems /\ OwnedOK(r)'
  BY DEF Carried, RankOK, Accounted, ProgressOK
<1>2. setup'.plan = Plan[problem']
  BY <1>1 DEF Setup
<1> QED BY <1>1, <1>2 DEF OwnedOK, Tile, SerialTile, SerialAt, Own

LEMMA SweepImplements ==
  ASSUME PlansFit, Carried, Carried', NEW r \in Ranks, Relax(r)
  PROVE  Serially!Sweep(r)
<1>1. /\ Setting /\ it \in [Ranks -> Nat] /\ it' = [it EXCEPT ![r] = @ + 1] /\ it[r] < Iterations
      /\ UNCHANGED <<problem, setup>> /\ Ranks' = Ranks
  BY CarriedSetting, PlacesStay DEF Relax, InLoop
<1>2. \A q \in NeighboursOf(problem, r) : it[q] >= it[r]
  BY NeighboursHaveSwept
<1>3. ASSUME NEW q \in Ranks
      PROVE  Tile(q)' = IF q = r THEN SerialTile(problem, r, it[r] + 1) ELSE Tile(q)
  <2>1. Tile(q)' = SerialTile(problem', q, it'[q])
    BY <1>1, NextTileIsSerial
  <2>2. SerialTile(problem', q, it'[q]) = SerialTile(problem, q, it'[q])
    BY <1>1
  <2>3. Tile(q) = SerialTile(problem, q, it[q])
    BY TileIsSerial
  <2>4. it'[q] = IF q = r THEN it[r] + 1 ELSE it[q]
    BY <1>1
  <2> QED BY <2>1, <2>2, <2>3, <2>4
<1>4. [q \in Ranks |-> Tile(q)]' =
        [[q \in Ranks |-> Tile(q)] EXCEPT ![r] = SerialTile(problem, r, it[r] + 1)]
  BY <1>1, <1>3
<1> QED BY <1>1, <1>2, <1>4 DEF Serially!Sweep

(* The initial tiles are the serial ones, a relaxation is a sweep of a     *)
(* tile, and any other step leaves clocks and tiles alone.                 *)
LEMMA SerialSweepsByPlans ==
  ASSUME PlansFit
  PROVE  Spec => ImplementsSerialSweeps
<1>1. Init => Serially!Init
  <2> SUFFICES ASSUME Init PROVE Serially!Init
    OBVIOUS
  <2>1. Carried
    BY InitCarried
  <2>2. \A r \in Ranks : it[r] = 0 /\ Tile(r) = SerialTile(problem, r, 0)
    BY <2>1, TileIsSerial DEF Init
  <2>3. problem \in Problems /\ it = [r \in Ranks |-> 0]
    BY DEF Init
  <2> QED BY <2>2, <2>3 DEF Serially!Init, Ranks
<1>2. Carried /\ Carried' /\ [Next]_vars => [Serially!Next]_(Serially!vars)
  <2> SUFFICES ASSUME Carried, Carried', [Next]_vars PROVE [Serially!Next]_(Serially!vars)
    OBVIOUS
  <2>1. ASSUME NEW r \in Ranks, Relax(r) PROVE Serially!Next
    BY <2>1, SweepImplements DEF Serially!Next, Ranks
  <2>2. ASSUME UNCHANGED <<problem, setup, it>> PROVE UNCHANGED Serially!vars
    <3>1. ASSUME NEW r \in Ranks PROVE Tile(r)' = Tile(r)
      <4>1. Tile(r)' = SerialTile(problem', r, it'[r])
        BY <2>2, PlacesStay, NextTileIsSerial
      <4>2. SerialTile(problem', r, it'[r]) = SerialTile(problem, r, it[r])
        BY <2>2
      <4> QED BY <4>1, <4>2, TileIsSerial
    <3> QED BY <2>2, <3>1, PlacesStay DEF Serially!vars
  <2>3. ASSUME NEW r \in Ranks, Post(r) PROVE UNCHANGED Serially!vars
    BY <2>2, <2>3 DEF Post
  <2>4. ASSUME NEW r \in Ranks, Receive(r) PROVE UNCHANGED Serially!vars
    BY <2>2, <2>4 DEF Receive
  <2>5. ASSUME NEW r \in Ranks, Return(r) \/ ReturnBuffered(r) PROVE UNCHANGED Serially!vars
    BY <2>2, <2>5 DEF Return, ReturnBuffered, LeaveCall
  <2>6. ASSUME NEW r \in Ranks, Verify(r) PROVE UNCHANGED Serially!vars
    BY <2>2, <2>6 DEF Verify
  <2>7. ASSUME Conclude \/ Ended \/ UNCHANGED vars PROVE UNCHANGED Serially!vars
    BY <2>2, <2>7 DEF Conclude, Ended, vars
  <2> QED BY <2>1, <2>3, <2>4, <2>5, <2>6, <2>7 DEF Next
<1> QED BY <1>1, <1>2, CarriedAlways, PTL DEF Spec, ImplementsSerialSweeps, Serially!Spec

-----------------------------------------------------------------------------
(* Ahead of a neighbour by more than a sweep, a rank would have taken a    *)
(* message that was not sent.                                              *)
LEMMA NeighbourSkewByPlans ==
  ASSUME PlansMatch
  PROVE  Spec => []Serially!NeighbourSkew
<1>1. ASSUME Accounted PROVE Serially!NeighbourSkew
  <2> SUFFICES ASSUME NEW r \in Ranks, NEW q \in NeighboursOf(problem, r)
               PROVE  it[q] <= it[r] + 1
    BY DEF Serially!NeighbourSkew, Ranks
  <2>1. Setting
    BY <1>1 DEF Accounted, ProgressOK, Setting
  <2>2. PICK ch \in ChannelsOf(problem) : ch[1] = q /\ ch[2] = r
    BY <2>1, NeighbourSends
  <2>3. ch[2] # ProcNull
    BY <2>1, <2>2, NullIsNoRank
  <2> QED BY <1>1, <2>2, <2>3, EndsWithinOne
<1> QED BY <1>1, AccountedAlways, PTL

-----------------------------------------------------------------------------
-----------------------------------------------------------------------------
(* What the structured solver works out before its loop fits: for every    *)
(* extent of the interior and number of ranks, the MPI_Sendrecv calls of   *)
(* all ranks match, and the tiles with their ghosts mirror the serial      *)
(* field.  With it the theorems above hold of the structured solver without*)
(* a hypothesis on its plans.                                              *)

Induct == INSTANCE FoldFacts WITH Values <- Int, Base <- 0, op <- +

-----------------------------------------------------------------------------
(* Quotient and remainder are those of any such decomposition.             *)
LEMMA Divided ==
  ASSUME NEW a \in Nat, NEW b \in Nat \ {0}, NEW q \in Nat, NEW r \in 0..(b-1), a = q * b + r
  PROVE  a \div b = q /\ a % b = r
<1> DEFINE x == a \div b
           y == a % b
<1>1. x \in Nat /\ y \in 0..(b-1) /\ a = b * x + y
  OBVIOUS
<1> HIDE DEF x, y
<1>2. b * (q - x) = y - r
  BY <1>1
<1>3. q - x \in Int
  BY <1>1
<1> DEFINE d == q - x
<1>4. d \in Int /\ b * d = y - r /\ y - r < b /\ -b < y - r
  BY <1>1, <1>2, <1>3
<1>5. d = 0
  <2> HIDE DEF d
  <2>1. CASE d >= 1
    <3>1. b * d >= b
      <4>1. d - 1 \in Nat /\ b * d = b * (d - 1) + b
        BY <1>4, <2>1
      <4>2. b * (d - 1) \in Nat
        BY <4>1
      <4> QED BY <4>1, <4>2
    <3> QED BY <1>1, <1>4, <3>1
  <2>2. CASE d <= -1
    <3>1. b * d <= -b
      <4>1. -d - 1 \in Nat /\ b * d = -(b * (-d - 1)) - b
        BY <1>4, <2>2
      <4>2. b * (-d - 1) \in Nat
        BY <4>1
      <4> QED BY <1>4, <4>1, <4>2
    <3> QED BY <1>1, <1>4, <3>1
  <2> QED BY <1>4, <2>1, <2>2
<1>6. q = x
  BY <1>1, <1>5
<1> QED BY <1>1, <1>6 DEF x, y

(* The grid has a place for every rank, and at least as many rows as       *)
(* columns.                                                                *)
LEMMA DimsAre ==
  ASSUME NEW size \in Nat \ {0}
  PROVE  /\ Dims(size)[1] \in Nat \ {0} /\ Dims(size)[2] \in Nat \ {0}
         /\ Dims(size)[1] * Dims(size)[2] = size /\ Dims(size)[2] <= Dims(size)[1]
<1> DEFINE S == {d \in 1..size : size % d = 0 /\ d * d <= size}
           py == Max(S)
           px == size \div py
           T == {size - d : d \in S}
<1>1. 1 \in S
  OBVIOUS
<1>2. T \in SUBSET Nat /\ T # {}
  BY <1>1
<1>3. PICK x \in T : \A y \in T : x <= y
  <2> HIDE DEF T
  <2> QED BY <1>2, Induct!LeastNatural
<1>4. PICK d \in S : x = size - d
  BY <1>3
<1>5. \A e \in S : d >= e
  <2> SUFFICES ASSUME NEW e \in S PROVE d >= e
    OBVIOUS
  <2>1. size - e \in T
    OBVIOUS
  <2>2. size - d <= size - e
    BY <1>3, <1>4, <2>1
  <2> QED BY <2>2
<1>6. py \in S
  <2> HIDE DEF S
  <2> QED BY <1>4, <1>5 DEF Max
<1>7. py \in Nat \ {0} /\ size % py = 0 /\ py * py <= size
  <2> HIDE DEF py
  <2> QED BY <1>6
<1> HIDE DEF py
<1>8. px \in Nat /\ size = py * px + 0
  BY <1>7
<1>9. px # 0
  BY <1>7, <1>8
<1>10. py <= px
  <2> HIDE DEF px
  <2> SUFFICES ASSUME px + 1 <= py PROVE FALSE
    BY <1>7, <1>8
  <2>1. PICK k \in Nat : py = px + 1 + k
    <3>1. py - px - 1 \in Nat /\ py = px + 1 + (py - px - 1)
      BY <1>7, <1>8
    <3> QED BY <3>1
  <2>2. py * py = py * px + py + py * k
    BY <1>7, <1>8, <2>1
  <2>3. py * k \in Nat
    BY <1>7, <2>1
  <2> QED BY <1>7, <1>8, <2>2, <2>3
<1>11. Dims(size) = <<px, py>>
  BY DEF Dims, py
<1>12. px * py = size
  <2> HIDE DEF px
  <2> QED BY <1>7, <1>8
<1> HIDE DEF px
<1> QED BY <1>7, <1>8, <1>9, <1>10, <1>11, <1>12

-----------------------------------------------------------------------------
LEMMA SmallerOfTwo ==
  ASSUME NEW a \in Nat, NEW b \in Nat
  PROVE  Min({a, b}) = IF a <= b THEN a ELSE b
BY DEF Min

(* block_1d deals n items to `parts` ranks without a gap or an overlap:    *)
(* every block ends where the next begins, the last one at n, and none is  *)
(* empty unless there are fewer items than ranks.                          *)
THEOREM BlocksTile ==
  ASSUME NEW n \in Nat, NEW parts \in Nat \ {0}, NEW coord \in 0..(parts - 1)
  PROVE  /\ BlockStart(0, parts, n) = 0 /\ BlockStart(parts, parts, n) = n
         /\ BlockStart(coord + 1, parts, n) = BlockStart(coord, parts, n) + BlockCount(coord, parts, n)
         /\ parts <= n => BlockCount(coord, parts, n) >= 1
<1> DEFINE q == n \div parts
           rest == n % parts
<1>1. q \in Nat /\ rest \in 0..(parts - 1) /\ n = parts * q + rest
  OBVIOUS
<1>2. parts <= n => q >= 1
  OBVIOUS
<1> HIDE DEF q, rest
<1>3. (coord + 1) * q = coord * q + q /\ 0 * q = 0 /\ coord * q \in Nat /\ parts * q \in Nat
  BY <1>1
<1>4. \A c \in Nat : BlockStart(c, parts, n) = c * q + (IF c <= rest THEN c ELSE rest)
  BY <1>1, SmallerOfTwo DEF BlockStart, q, rest
<1>5. BlockCount(coord, parts, n) = q + (IF coord < rest THEN 1 ELSE 0)
  BY DEF BlockCount, q, rest
<1>6. BlockStart(0, parts, n) = 0 /\ BlockStart(parts, parts, n) = n
  <2>1. BlockStart(0, parts, n) = 0 * q + 0 /\ BlockStart(parts, parts, n) = parts * q + rest
    BY <1>1, <1>4
  <2> QED BY <1>1, <1>3, <2>1
<1>7. BlockStart(coord + 1, parts, n) = BlockStart(coord, parts, n) + BlockCount(coord, parts, n)
  <2>1. coord \in Nat /\ coord + 1 \in Nat
    OBVIOUS
  <2>2. /\ BlockStart(coord, parts, n) = coord * q + (IF coord <= rest THEN coord ELSE rest)
        /\ BlockStart(coord + 1, parts, n) = coord * q + q + (IF coord + 1 <= rest THEN coord + 1 ELSE rest)
    BY <1>3, <1>4, <2>1
  <2> QED BY <1>1, <1>3, <1>5, <2>1, <2>2
<1>8. parts <= n => BlockCount(coord, parts, n) >= 1
  BY <1>1, <1>2, <1>5
<1> QED BY <1>6, <1>7, <1>8

-----------------------------------------------------------------------------
(* Ranks and coordinates are in one-to-one correspondence.                 *)
LEMMA CoordsOfRank ==
  ASSUME NEW size \in Nat \ {0}, NEW r \in 0..(size - 1)
  PROVE  LET c == CartCoords(size, r)  d == Dims(size) IN
         /\ c = <<c[1], c[2]>> /\ c[1] \in 0..(d[1] - 1) /\ c[2] \in 0..(d[2] - 1)
         /\ CartRank(size, <<c[1], c[2]>>) = r
<1> DEFINE px == Dims(size)[1]
           py == Dims(size)[2]
           a == r \div py
           b == r % py
<1>1. px \in Nat \ {0} /\ py \in Nat \ {0} /\ px * py = size
  BY DimsAre
<1> HIDE DEF px, py
<1>2. a \in Nat /\ b \in 0..(py - 1) /\ r = a * py + b
  <2>1. r \in Nat
    OBVIOUS
  <2>2. a \in Nat /\ b \in 0..(py - 1) /\ r = py * a + b
    BY <1>1, <2>1
  <2> HIDE DEF a, b
  <2> QED BY <1>1, <2>2
<1>3. CartCoords(size, r) = <<a, b>>
  BY DEF CartCoords, py
<1> HIDE DEF a, b
<1>4. a <= px - 1
  <2> SUFFICES ASSUME a >= px PROVE FALSE
    BY <1>1, <1>2
  <2>1. PICK k \in Nat : a = px + k
    <3>1. a - px \in Nat /\ a = px + (a - px)
      BY <1>1, <1>2
    <3> QED BY <3>1
  <2>2. a * py = px * py + k * py /\ k * py \in Nat
    BY <1>1, <2>1
  <2> QED BY <1>1, <1>2, <2>2
<1>5. CartRank(size, <<a, b>>) = r
  BY <1>1, <1>2, <1>4 DEF CartRank, px, py
<1> QED BY <1>1, <1>2, <1>3, <1>4, <1>5 DEF px, py

LEMMA RankOfCoords ==
  ASSUME NEW size \in Nat \ {0}, NEW a \in 0..(Dims(size)[1] - 1), NEW b \in 0..(Dims(size)[2] - 1)
  PROVE  LET r == CartRank(size, <<a, b>>) IN
         r \in 0..(size - 1) /\ r # ProcNull /\ CartCoords(size, r) = <<a, b>>
<1> DEFINE px == Dims(size)[1]
           py == Dims(size)[2]
           r == a * py + b
<1>1. px \in Nat \ {0} /\ py \in Nat \ {0} /\ px * py = size /\ a \in 0..(px - 1) /\ b \in 0..(py - 1)
  BY DimsAre
<1>2. CartRank(size, <<a, b>>) = r
  BY DEF CartRank
<1> HIDE DEF px, py
<1>3. r \in Nat
  BY <1>1
<1>4. r < size
  <2>1. PICK k \in Nat : px = a + 1 + k
    <3>1. px - a - 1 \in Nat /\ px = a + 1 + (px - a - 1)
      BY <1>1
    <3> QED BY <3>1
  <2>2. px * py = a * py + py + k * py /\ k * py \in Nat
    BY <1>1, <2>1
  <2> QED BY <1>1, <2>2
<1>5. r \div py = a /\ r % py = b
  <2>1. a \in Nat
    BY <1>1
  <2> HIDE DEF r
  <2> QED BY <1>1, <1>3, <2>1, Divided DEF r
<1>6. CartCoords(size, r) = <<a, b>>
  BY <1>5 DEF CartCoords, py
<1>7. r \in 0..(size - 1) /\ r # -1
  BY <1>3, <1>4
<1> QED BY <1>2, <1>6, <1>7 DEF ProcNull

(* Who is next to whom.  A neighbour is found from both sides.             *)
LEMMA NextTo ==
  ASSUME NEW size \in Nat \ {0}, NEW r \in 0..(size - 1)
  PROVE  LET c == CartCoords(size, r)  d == Dims(size) IN
         /\ IF Up(size, r) = ProcNull THEN c[1] = 0
            ELSE /\ Up(size, r) \in 0..(size - 1) /\ Down(size, Up(size, r)) = r
                 /\ c[1] > 0 /\ CartCoords(size, Up(size, r)) = <<c[1] - 1, c[2]>>
         /\ IF Down(size, r) = ProcNull THEN c[1] = d[1] - 1
            ELSE /\ Down(size, r) \in 0..(size - 1) /\ Up(size, Down(size, r)) = r
                 /\ c[1] < d[1] - 1 /\ CartCoords(size, Down(size, r)) = <<c[1] + 1, c[2]>>
         /\ IF Left(size, r) = ProcNull THEN c[2] = 0
            ELSE /\ Left(size, r) \in 0..(size - 1) /\ Right(size, Left(size, r)) = r
                 /\ c[2] > 0 /\ CartCoords(size, Left(size, r)) = <<c[1], c[2] - 1>>
         /\ IF Right(size, r) = ProcNull THEN c[2] = d[2] - 1
            ELSE /\ Right(size, r) \in 0..(size - 1) /\ Left(size, Right(size, r)) = r
                 /\ c[2] < d[2] - 1 /\ CartCoords(size, Right(size, r)) = <<c[1], c[2] + 1>>
<1> DEFINE px == Dims(size)[1]
           py == Dims(size)[2]
           a == CartCoords(size, r)[1]
           b == CartCoords(size, r)[2]
           Rank(x, y) == CartRank(size, <<x, y>>)
<1>1. px \in Nat \ {0} /\ py \in Nat \ {0} /\ a \in 0..(px - 1) /\ b \in 0..(py - 1) /\ Rank(a, b) = r
  BY DimsAre, CoordsOfRank
<1>2. \A x \in 0..(px - 1), y \in 0..(py - 1) :
        /\ Rank(x, y) \in 0..(size - 1) /\ Rank(x, y) # ProcNull
        /\ CartCoords(size, Rank(x, y)) = <<x, y>>
  BY RankOfCoords
<1>3. \A x, y : ~(x \in 0..(px - 1) /\ y \in 0..(py - 1)) => Rank(x, y) = ProcNull
  BY DEF CartRank
<1>4. /\ Up(size, r) = Rank(a - 1, b) /\ Down(size, r) = Rank(a + 1, b)
      /\ Left(size, r) = Rank(a, b - 1) /\ Right(size, r) = Rank(a, b + 1)
  BY DEF Up, Down, Left, Right
<1>5. ASSUME NEW x \in 0..(px - 1), NEW y \in 0..(py - 1)
      PROVE  /\ Up(size, Rank(x, y)) = Rank(x - 1, y) /\ Down(size, Rank(x, y)) = Rank(x + 1, y)
             /\ Left(size, Rank(x, y)) = Rank(x, y - 1) /\ Right(size, Rank(x, y)) = Rank(x, y + 1)
  <2>1. CartCoords(size, Rank(x, y)) = <<x, y>>
    BY <1>2
  <2> QED BY <2>1 DEF Up, Down, Left, Right
<1> HIDE DEF px, py, a, b, Rank
<1>6. IF Up(size, r) = ProcNull THEN a = 0
      ELSE /\ Up(size, r) \in 0..(size - 1) /\ Down(size, Up(size, r)) = r
           /\ a > 0 /\ CartCoords(size, Up(size, r)) = <<a - 1, b>>
  <2>1. CASE a = 0
    <3>1. ~(a - 1 \in 0..(px - 1))
      BY <2>1
    <3> QED BY <1>3, <1>4, <2>1, <3>1
  <2>2. CASE a # 0
    <3>1. a - 1 \in 0..(px - 1) /\ (a - 1) + 1 = a /\ a > 0
      BY <1>1, <2>2
    <3> QED BY <1>1, <1>2, <1>4, <1>5, <3>1
  <2> QED BY <2>1, <2>2
<1>7. IF Down(size, r) = ProcNull THEN a = px - 1
      ELSE /\ Down(size, r) \in 0..(size - 1) /\ Up(size, Down(size, r)) = r
           /\ a < px - 1 /\ CartCoords(size, Down(size, r)) = <<a + 1, b>>
  <2>1. CASE a = px - 1
    <3>1. ~(a + 1 \in 0..(px - 1))
      BY <1>1, <2>1
    <3> QED BY <1>3, <1>4, <2>1, <3>1
  <2>2. CASE a # px - 1
    <3>1. a + 1 \in 0..(px - 1) /\ (a + 1) - 1 = a /\ a < px - 1
      BY <1>1, <2>2
    <3> QED BY <1>1, <1>2, <1>4, <1>5, <3>1
  <2> QED BY <2>1, <2>2
<1>8. IF Left(size, r) = ProcNull THEN b = 0
      ELSE /\ Left(size, r) \in 0..(size - 1) /\ Right(size, Left(size, r)) = r
           /\ b > 0 /\ CartCoords(size, Left(size, r)) = <<a, b - 1>>
  <2>1. CASE b = 0
    <3>1. ~(b - 1 \in 0..(py - 1))
      BY <2>1
    <3> QED BY <1>3, <1>4, <2>1, <3>1
  <2>2. CASE b # 0
    <3>1. b - 1 \in 0..(py - 1) /\ (b - 1) + 1 = b /\ b > 0
      BY <1>1, <2>2
    <3> QED BY <1>1, <1>2, <1>4, <1>5, <3>1
  <2> QED BY <2>1, <2>2
<1>9. IF Right(size, r) = ProcNull THEN b = py - 1
      ELSE /\ Right(size, r) \in 0..(size - 1) /\ Left(size, Right(size, r)) = r
           /\ b < py - 1 /\ CartCoords(size, Right(size, r)) = <<a, b + 1>>
  <2>1. CASE b = py - 1
    <3>1. ~(b + 1 \in 0..(py - 1))
      BY <1>1, <2>1
    <3> QED BY <1>3, <1>4, <2>1, <3>1
  <2>2. CASE b # py - 1
    <3>1. b + 1 \in 0..(py - 1) /\ (b + 1) - 1 = b /\ b < py - 1
      BY <1>1, <2>2
    <3> QED BY <1>1, <1>2, <1>4, <1>5, <3>1
  <2> QED BY <2>1, <2>2
<1> QED BY <1>6, <1>7, <1>8, <1>9 DEF px, py, a, b

-----------------------------------------------------------------------------
(* Blocks lie within 0 .. n, the first at its beginning and the last at    *)
(* its end.                                                                *)
LEMMA BlockWithin ==
  ASSUME NEW n \in Nat, NEW parts \in Nat \ {0}, parts <= n, NEW coord \in 0..(parts - 1)
  PROVE  LET s == BlockStart(coord, parts, n)  k == BlockCount(coord, parts, n) IN
         /\ s \in Nat /\ k \in Nat \ {0} /\ s + k <= n
         /\ coord = 0 => s = 0
         /\ coord = parts - 1 => s + k = n
<1> DEFINE q == n \div parts
           rest == n % parts
           s == BlockStart(coord, parts, n)
           k == BlockCount(coord, parts, n)
<1>1. q \in Nat /\ rest \in 0..(parts - 1) /\ n = parts * q + rest
  OBVIOUS
<1>2. q >= 1
  OBVIOUS
<1>3. s = coord * q + (IF coord <= rest THEN coord ELSE rest)
  BY <1>1, SmallerOfTwo DEF BlockStart
<1>4. k = q + (IF coord < rest THEN 1 ELSE 0)
  BY DEF BlockCount
<1> HIDE DEF q, rest, s, k
<1>5. PICK left \in Nat : parts = coord + 1 + left
  <2>1. parts - coord - 1 \in Nat /\ parts = coord + 1 + (parts - coord - 1)
    OBVIOUS
  <2> QED BY <2>1
<1>6. coord * q \in Nat /\ left * q \in Nat /\ parts * q = coord * q + q + left * q
  BY <1>1, <1>5
<1>7. s \in Nat /\ k \in Nat \ {0} /\ s + k <= n
  BY <1>1, <1>2, <1>3, <1>4, <1>5, <1>6
<1>8. coord = 0 => s = 0
  <2> SUFFICES ASSUME coord = 0 PROVE s = 0
    OBVIOUS
  <2>1. coord * q = 0
    BY <1>1
  <2> QED BY <1>1, <1>3, <2>1
<1>9. coord = parts - 1 => s + k = n
  <2> SUFFICES ASSUME coord = parts - 1 PROVE s + k = n
    OBVIOUS
  <2>1. left * q = 0
    BY <1>1, <1>5
  <2> QED BY <1>1, <1>3, <1>4, <1>5, <1>6, <2>1
<1> QED BY <1>7, <1>8, <1>9 DEF s, k

(* A tile lies within the interior, from wall to wall in the corners of    *)
(* the grid of ranks.                                                      *)
TileFits(n, size, r) ==
  LET t == TileOf(n, size, r)  c == CartCoords(size, r)  d == Dims(size) IN
  /\ t.nx \in Nat \ {0} /\ t.gi0 \in Nat \ {0} /\ t.gi0 + t.nx <= n + 1
  /\ t.ny \in Nat \ {0} /\ t.gj0 \in Nat \ {0} /\ t.gj0 + t.ny <= n + 1
  /\ c[1] = 0 => t.gi0 = 1
  /\ c[2] = 0 => t.gj0 = 1
  /\ c[1] = d[1] - 1 => t.gi0 + t.nx = n + 1
  /\ c[2] = d[2] - 1 => t.gj0 + t.ny = n + 1

LEMMA TileIs ==
  ASSUME NEW n \in Nat, NEW size \in Nat \ {0}, Dims(size)[1] <= n, NEW r \in 0..(size - 1)
  PROVE  TileFits(n, size, r)
<1> DEFINE px == Dims(size)[1]
           py == Dims(size)[2]
           a == CartCoords(size, r)[1]
           b == CartCoords(size, r)[2]
           t == TileOf(n, size, r)
<1>1. px \in Nat \ {0} /\ py \in Nat \ {0} /\ a \in 0..(px - 1) /\ b \in 0..(py - 1) /\ py <= px
  BY DimsAre, CoordsOfRank
<1>2. /\ t.gi0 = 1 + BlockStart(a, px, n) /\ t.nx = BlockCount(a, px, n)
      /\ t.gj0 = 1 + BlockStart(b, py, n) /\ t.ny = BlockCount(b, py, n)
  BY DEF TileOf
<1>3. px <= n /\ py <= n
  <2>1. px <= n
    OBVIOUS
  <2> HIDE DEF px, py
  <2> QED BY <1>1, <2>1
<1> HIDE DEF px, py, a, b, t
<1>4. /\ BlockStart(a, px, n) \in Nat /\ BlockCount(a, px, n) \in Nat \ {0}
      /\ BlockStart(a, px, n) + BlockCount(a, px, n) <= n
      /\ a = 0 => BlockStart(a, px, n) = 0
      /\ a = px - 1 => BlockStart(a, px, n) + BlockCount(a, px, n) = n
  BY <1>1, <1>3, BlockWithin
<1>5. /\ BlockStart(b, py, n) \in Nat /\ BlockCount(b, py, n) \in Nat \ {0}
      /\ BlockStart(b, py, n) + BlockCount(b, py, n) <= n
      /\ b = 0 => BlockStart(b, py, n) = 0
      /\ b = py - 1 => BlockStart(b, py, n) + BlockCount(b, py, n) = n
  BY <1>1, <1>3, BlockWithin
<1>6. /\ t.nx \in Nat \ {0} /\ t.gi0 \in Nat \ {0} /\ t.gi0 + t.nx <= n + 1
      /\ a = 0 => t.gi0 = 1
      /\ a = px - 1 => t.gi0 + t.nx = n + 1
  BY <1>2, <1>4
<1>7. /\ t.ny \in Nat \ {0} /\ t.gj0 \in Nat \ {0} /\ t.gj0 + t.ny <= n + 1
      /\ b = 0 => t.gj0 = 1
      /\ b = py - 1 => t.gj0 + t.ny = n + 1
  BY <1>2, <1>5
<1> QED BY <1>6, <1>7 DEF TileFits, px, py, a, b, t

(* The tiles of neighbours touch, with the same extent along the side they *)
(* share.                                                                  *)
LEMMA TilesTouch ==
  ASSUME NEW n \in Nat, NEW size \in Nat \ {0}, Dims(size)[1] <= n, NEW r \in 0..(size - 1)
  PROVE  LET t == TileOf(n, size, r)  o(q) == TileOf(n, size, q) IN
         /\ Up(size, r) # ProcNull =>
              /\ o(Up(size, r)).gi0 + o(Up(size, r)).nx = t.gi0
              /\ o(Up(size, r)).gj0 = t.gj0 /\ o(Up(size, r)).ny = t.ny
         /\ Down(size, r) # ProcNull =>
              /\ t.gi0 + t.nx = o(Down(size, r)).gi0
              /\ o(Down(size, r)).gj0 = t.gj0 /\ o(Down(size, r)).ny = t.ny
         /\ Left(size, r) # ProcNull =>
              /\ o(Left(size, r)).gj0 + o(Left(size, r)).ny = t.gj0
              /\ o(Left(size, r)).gi0 = t.gi0 /\ o(Left(size, r)).nx = t.nx
         /\ Right(size, r) # ProcNull =>
              /\ t.gj0 + t.ny = o(Right(size, r)).gj0
              /\ o(Right(size, r)).gi0 = t.gi0 /\ o(Right(size, r)).nx = t.nx
<1> DEFINE px == Dims(size)[1]
           py == Dims(size)[2]
           a == CartCoords(size, r)[1]
           b == CartCoords(size, r)[2]
           t == TileOf(n, size, r)
           o(q) == TileOf(n, size, q)
           Fits(q, x, y) == /\ o(q).gi0 = 1 + BlockStart(x, px, n) /\ o(q).nx = BlockCount(x, px, n)
                            /\ o(q).gj0 = 1 + BlockStart(y, py, n) /\ o(q).ny = BlockCount(y, py, n)
<1>1. px \in Nat \ {0} /\ py \in Nat \ {0} /\ a \in 0..(px - 1) /\ b \in 0..(py - 1)
  BY DimsAre, CoordsOfRank
<1>2. \A q, x, y : CartCoords(size, q) = <<x, y>> => Fits(q, x, y)
  BY DEF TileOf
<1>3. Fits(r, a, b) /\ o(r) = t
  <2>1. CartCoords(size, r) = <<a, b>>
    BY CoordsOfRank
  <2>2. o(r) = t
    OBVIOUS
  <2> HIDE DEF px, py, a, b, t, o, Fits
  <2> QED BY <1>2, <2>1, <2>2
<1>4. \A c \in 0..(px - 1) :
        /\ BlockStart(c + 1, px, n) = BlockStart(c, px, n) + BlockCount(c, px, n)
        /\ BlockStart(c, px, n) \in Int /\ BlockCount(c, px, n) \in Int
  <2>1. px <= n
    OBVIOUS
  <2> HIDE DEF px
  <2> QED BY <1>1, <2>1, BlocksTile, BlockWithin, SMTT(30)
<1>5. \A c \in 0..(py - 1) :
        /\ BlockStart(c + 1, py, n) = BlockStart(c, py, n) + BlockCount(c, py, n)
        /\ BlockStart(c, py, n) \in Int /\ BlockCount(c, py, n) \in Int
  <2>1. py <= n
    <3>1. px <= n /\ py <= px
      BY DimsAre
    <3> HIDE DEF px, py
    <3> QED BY <1>1, <3>1
  <2> HIDE DEF py
  <2> QED BY <1>1, <2>1, BlocksTile, BlockWithin, SMTT(30)
<1>6. /\ Up(size, r) # ProcNull => a > 0 /\ CartCoords(size, Up(size, r)) = <<a - 1, b>>
      /\ Down(size, r) # ProcNull => a < px - 1 /\ CartCoords(size, Down(size, r)) = <<a + 1, b>>
      /\ Left(size, r) # ProcNull => b > 0 /\ CartCoords(size, Left(size, r)) = <<a, b - 1>>
      /\ Right(size, r) # ProcNull => b < py - 1 /\ CartCoords(size, Right(size, r)) = <<a, b + 1>>
  BY NextTo
<1> HIDE DEF px, py, a, b, t, o
<1>7. Up(size, r) # ProcNull =>
        /\ o(Up(size, r)).gi0 + o(Up(size, r)).nx = t.gi0
        /\ o(Up(size, r)).gj0 = t.gj0 /\ o(Up(size, r)).ny = t.ny
  <2> SUFFICES ASSUME Up(size, r) # ProcNull
               PROVE  /\ o(Up(size, r)).gi0 + o(Up(size, r)).nx = t.gi0
                      /\ o(Up(size, r)).gj0 = t.gj0 /\ o(Up(size, r)).ny = t.ny
    OBVIOUS
  <2>1. Fits(Up(size, r), a - 1, b) /\ a > 0
    BY <1>2, <1>6
  <2>2. a - 1 \in 0..(px - 1) /\ (a - 1) + 1 = a
    BY <1>1, <2>1
  <2> QED BY <1>3, <1>4, <2>1, <2>2
<1>8. Down(size, r) # ProcNull =>
        /\ t.gi0 + t.nx = o(Down(size, r)).gi0
        /\ o(Down(size, r)).gj0 = t.gj0 /\ o(Down(size, r)).ny = t.ny
  <2> SUFFICES ASSUME Down(size, r) # ProcNull
               PROVE  /\ t.gi0 + t.nx = o(Down(size, r)).gi0
                      /\ o(Down(size, r)).gj0 = t.gj0 /\ o(Down(size, r)).ny = t.ny
    OBVIOUS
  <2>1. Fits(Down(size, r), a + 1, b)
    BY <1>2, <1>6
  <2> QED BY <1>1, <1>3, <1>4, <2>1
<1>9. Left(size, r) # ProcNull =>
        /\ o(Left(size, r)).gj0 + o(Left(size, r)).ny = t.gj0
        /\ o(Left(size, r)).gi0 = t.gi0 /\ o(Left(size, r)).nx = t.nx
  <2> SUFFICES ASSUME Left(size, r) # ProcNull
               PROVE  /\ o(Left(size, r)).gj0 + o(Left(size, r)).ny = t.gj0
                      /\ o(Left(size, r)).gi0 = t.gi0 /\ o(Left(size, r)).nx = t.nx
    OBVIOUS
  <2>1. Fits(Left(size, r), a, b - 1) /\ b > 0
    BY <1>2, <1>6
  <2>2. b - 1 \in 0..(py - 1) /\ (b - 1) + 1 = b
    BY <1>1, <2>1
  <2> QED BY <1>3, <1>5, <2>1, <2>2
<1>10. Right(size, r) # ProcNull =>
         /\ t.gj0 + t.ny = o(Right(size, r)).gj0
         /\ o(Right(size, r)).gi0 = t.gi0 /\ o(Right(size, r)).nx = t.nx
  <2> SUFFICES ASSUME Right(size, r) # ProcNull
               PROVE  /\ t.gj0 + t.ny = o(Right(size, r)).gj0
                      /\ o(Right(size, r)).gi0 = t.gi0 /\ o(Right(size, r)).nx = t.nx
    OBVIOUS
  <2>1. Fits(Right(size, r), a, b + 1)
    BY <1>2, <1>6
  <2> QED BY <1>1, <1>3, <1>5, <2>1
<1> QED BY <1>7, <1>8, <1>9, <1>10 DEF t, o

-----------------------------------------------------------------------------
(* The calls of a rank, and the calls of its neighbours that meet them.    *)
LEMMA RowIs ==
  ASSUME NEW t, NEW i, t.ny \in Nat
  PROVE  /\ IsSeq(Row(t, i)) /\ Len(Row(t, i)) = t.ny /\ DOMAIN Row(t, i) = 1..t.ny
         /\ \A k \in 1..t.ny : Row(t, i)[k] = <<i, k>>
<1> DEFINE s == Row(t, i)
<1>1. s = [k \in 1..t.ny |-> <<i, k>>]
  BY DEF Row
<1>2. s \in [1..t.ny -> {s[k] : k \in DOMAIN s}]
  BY <1>1
<1> HIDE DEF s
<1>3. s \in Seq({s[k] : k \in DOMAIN s})
  BY <1>2
<1>4. Len(s) = t.ny
  BY <1>2, <1>3
<1> QED BY <1>1, <1>3, <1>4 DEF IsSeq, s

LEMMA ColumnIs ==
  ASSUME NEW t, NEW j, t.nx \in Nat
  PROVE  /\ IsSeq(Column(t, j)) /\ Len(Column(t, j)) = t.nx /\ DOMAIN Column(t, j) = 1..t.nx
         /\ \A k \in 1..t.nx : Column(t, j)[k] = <<k, j>>
<1> DEFINE s == Column(t, j)
<1>1. s = [k \in 1..t.nx |-> <<k, j>>]
  BY DEF Column
<1>2. s \in [1..t.nx -> {s[k] : k \in DOMAIN s}]
  BY <1>1
<1> HIDE DEF s
<1>3. s \in Seq({s[k] : k \in DOMAIN s})
  BY <1>2
<1>4. Len(s) = t.nx
  BY <1>2, <1>3
<1> QED BY <1>1, <1>3, <1>4 DEF IsSeq, s

LEMMA HaloCallsAre ==
  ASSUME NEW n, NEW size, NEW r
  PROVE  LET calls == HaloCalls(n, size, r)  t == TileOf(n, size, r) IN
         /\ IsSeq(calls) /\ DOMAIN calls = 1..4 /\ \A k \in 1..4 : calls[k].tag = k - 1
         /\ /\ calls[1].to = Down(size, r) /\ calls[1].out = Row(t, t.nx)
            /\ calls[1].from = Up(size, r) /\ calls[1].in = Row(t, 0)
         /\ /\ calls[2].to = Up(size, r) /\ calls[2].out = Row(t, 1)
            /\ calls[2].from = Down(size, r) /\ calls[2].in = Row(t, t.nx + 1)
         /\ /\ calls[3].to = Right(size, r) /\ calls[3].out = Column(t, t.ny)
            /\ calls[3].from = Left(size, r) /\ calls[3].in = Column(t, 0)
         /\ /\ calls[4].to = Left(size, r) /\ calls[4].out = Column(t, 1)
            /\ calls[4].from = Right(size, r) /\ calls[4].in = Column(t, t.ny + 1)
<1> DEFINE t == TileOf(n, size, r)
           a == [to |-> Down(size, r), out |-> Row(t, t.nx), from |-> Up(size, r), in |-> Row(t, 0), tag |-> 0]
           b == [to |-> Up(size, r), out |-> Row(t, 1), from |-> Down(size, r), in |-> Row(t, t.nx + 1), tag |-> 1]
           c == [to |-> Right(size, r), out |-> Column(t, t.ny), from |-> Left(size, r), in |-> Column(t, 0), tag |-> 2]
           d == [to |-> Left(size, r), out |-> Column(t, 1), from |-> Right(size, r), in |-> Column(t, t.ny + 1), tag |-> 3]
           calls == <<a, b, c, d>>
<1>1. HaloCalls(n, size, r) = calls
  BY DEF HaloCalls
<1>2. /\ a.to = Down(size, r) /\ a.out = Row(t, t.nx) /\ a.from = Up(size, r) /\ a.in = Row(t, 0) /\ a.tag = 0
      /\ b.to = Up(size, r) /\ b.out = Row(t, 1) /\ b.from = Down(size, r) /\ b.in = Row(t, t.nx + 1) /\ b.tag = 1
      /\ c.to = Right(size, r) /\ c.out = Column(t, t.ny) /\ c.from = Left(size, r) /\ c.in = Column(t, 0) /\ c.tag = 2
      /\ d.to = Left(size, r) /\ d.out = Column(t, 1) /\ d.from = Right(size, r) /\ d.in = Column(t, t.ny + 1) /\ d.tag = 3
  OBVIOUS
<1> HIDE DEF a, b, c, d
<1>3. DOMAIN calls = 1..4 /\ calls[1] = a /\ calls[2] = b /\ calls[3] = c /\ calls[4] = d
  OBVIOUS
<1>4. IsSeq(calls)
  <2>1. \A i \in 1..4 : calls[i] \in {calls[j] : j \in DOMAIN calls}
    BY <1>3
  <2>2. a \in {calls[j] : j \in DOMAIN calls} /\ b \in {calls[j] : j \in DOMAIN calls}
    BY <1>3
  <2>3. c \in {calls[j] : j \in DOMAIN calls} /\ d \in {calls[j] : j \in DOMAIN calls}
    BY <1>3
  <2> DEFINE S == {calls[j] : j \in DOMAIN calls}
  <2>4. a \in S /\ b \in S /\ c \in S /\ d \in S
    BY <2>2, <2>3
  <2> HIDE DEF S
  <2>5. <<a, b, c, d>> \in Seq(S)
    BY <2>4
  <2> QED BY <2>5 DEF IsSeq, S
<1> HIDE DEF calls
<1>5. \A k \in 1..4 : calls[k].tag = k - 1
  <2>1. \A k \in 1..4 : k = 1 \/ k = 2 \/ k = 3 \/ k = 4
    OBVIOUS
  <2> QED BY <1>2, <1>3, <2>1
<1> QED BY <1>1, <1>2, <1>3, <1>4, <1>5 DEF t

(* What a call sends on its channel, the call of the same number takes at  *)
(* the other end: as many cells, of the same names.                        *)
HaloNames(n, size, r) == HaloPlan(n, size, r).global
Meets(n, size, r, k) ==
  LET calls == HaloCalls(n, size, r)  to == calls[k].to  there == HaloCalls(n, size, to)[k] IN
  /\ to \in 0..(size - 1) /\ there.from = r
  /\ Len(calls[k].out) = Len(there.in) /\ DOMAIN calls[k].out = 1..Len(calls[k].out)
  /\ \A m \in DOMAIN calls[k].out :
       HaloNames(n, size, r)[calls[k].out[m]] = HaloNames(n, size, to)[there.in[m]]
  /\ \E l \in 1..4 : HaloCalls(n, size, to)[l].to = r

LEMMA NamesAre ==
  ASSUME NEW n, NEW size, NEW r, TileFits(n, size, r)
  PROVE  LET t == TileOf(n, size, r) IN
         /\ DOMAIN HaloNames(n, size, r) = LocalCells(t)
         /\ \A i \in 0..(t.nx + 1), j \in 0..(t.ny + 1) :
              <<i, j>> \in LocalCells(t) /\ HaloNames(n, size, r)[<<i, j>>] = <<t.gi0 + i - 1, t.gj0 + j - 1>>
<1> DEFINE t == TileOf(n, size, r)
<1>1. HaloNames(n, size, r) = [cell \in LocalCells(t) |-> <<t.gi0 + cell[1] - 1, t.gj0 + cell[2] - 1>>]
  BY DEF HaloNames, HaloPlan
<1> HIDE DEF t
<1>2. ASSUME NEW i \in 0..(t.nx + 1), NEW j \in 0..(t.ny + 1)
      PROVE  <<i, j>> \in LocalCells(t)
  BY <1>2 DEF LocalCells
<1> QED BY <1>1, <1>2 DEF t

LEMMA CallsMeet ==
  ASSUME NEW n \in Nat, NEW size \in Nat \ {0}, Dims(size)[1] <= n, NEW r \in 0..(size - 1),
         NEW k \in 1..4, HaloCalls(n, size, r)[k].to # ProcNull
  PROVE  Meets(n, size, r, k)
<1> DEFINE calls == HaloCalls(n, size, r)
           to == calls[k].to
           t == TileOf(n, size, r)
           u == TileOf(n, size, to)
           names == HaloNames(n, size, r)
           there == HaloNames(n, size, to)
<1>1. TileFits(n, size, r)
  BY TileIs
<1>2. k = 1 \/ k = 2 \/ k = 3 \/ k = 4
  OBVIOUS
<1>3. to \in 0..(size - 1)
  BY <1>2, HaloCallsAre, NextTo
<1>4. TileFits(n, size, to)
  BY <1>3, TileIs
<1>5. /\ t.nx \in Nat \ {0} /\ t.ny \in Nat \ {0} /\ t.gi0 \in Nat /\ t.gj0 \in Nat
      /\ u.nx \in Nat \ {0} /\ u.ny \in Nat \ {0} /\ u.gi0 \in Nat /\ u.gj0 \in Nat
  BY <1>1, <1>4 DEF TileFits
<1>6. /\ \A i \in 0..(t.nx + 1), j \in 0..(t.ny + 1) : names[<<i, j>>] = <<t.gi0 + i - 1, t.gj0 + j - 1>>
      /\ \A i \in 0..(u.nx + 1), j \in 0..(u.ny + 1) : there[<<i, j>>] = <<u.gi0 + i - 1, u.gj0 + j - 1>>
  BY <1>1, <1>4, NamesAre
<1> DEFINE Pairs(out, inn) == /\ Len(out) = Len(inn) /\ DOMAIN out = 1..Len(out)
                              /\ \A m \in DOMAIN out : names[out[m]] = there[inn[m]]
<1>7. CASE k = 1
  <2>1. to = Down(size, r) /\ calls[k].out = Row(t, t.nx)
    BY <1>7, HaloCallsAre
  <2>2. /\ HaloCalls(n, size, to)[k].from = Up(size, to) /\ HaloCalls(n, size, to)[k].in = Row(u, 0)
        /\ HaloCalls(n, size, to)[2].to = Up(size, to)
    BY <1>7, HaloCallsAre
  <2>3. Up(size, to) = r
    BY <2>1, NextTo
  <2>4. t.gi0 + t.nx = u.gi0 /\ u.gj0 = t.gj0 /\ u.ny = t.ny
    BY <2>1, TilesTouch
  <2>5. Pairs(Row(t, t.nx), Row(u, 0))
    <3> HIDE DEF calls, to, t, u, names, there
    <3>1. \A m \in 1..t.ny : names[<<t.nx, m>>] = there[<<0, m>>]
      <4> SUFFICES ASSUME NEW m \in 1..t.ny PROVE names[<<t.nx, m>>] = there[<<0, m>>]
        OBVIOUS
      <4>1. names[<<t.nx, m>>] = <<t.gi0 + t.nx - 1, t.gj0 + m - 1>>
        BY <1>5, <1>6, SMTT(30)
      <4>2. there[<<0, m>>] = <<u.gi0 + 0 - 1, u.gj0 + m - 1>>
        BY <1>5, <1>6, <2>4, SMTT(30)
      <4> QED BY <1>5, <2>4, <4>1, <4>2
    <3>2. /\ Len(Row(t, t.nx)) = t.ny /\ DOMAIN Row(t, t.nx) = 1..t.ny
          /\ \A m \in 1..t.ny : Row(t, t.nx)[m] = <<t.nx, m>>
      BY <1>5, RowIs
    <3>3. /\ Len(Row(u, 0)) = t.ny
          /\ \A m \in 1..t.ny : Row(u, 0)[m] = <<0, m>>
      BY <1>5, <2>4, RowIs, SMTT(30)
    <3> DEFINE out == Row(t, t.nx)
               inn == Row(u, 0)
    <3> HIDE DEF out, inn
    <3>4. \A m \in DOMAIN out : names[out[m]] = there[inn[m]]
      <4> SUFFICES ASSUME NEW m \in DOMAIN out PROVE names[out[m]] = there[inn[m]]
        OBVIOUS
      <4>1. m \in 1..t.ny
        BY <3>2 DEF out
      <4>2. out[m] = <<t.nx, m>> /\ inn[m] = <<0, m>>
        BY <3>2, <3>3, <4>1 DEF out, inn
      <4> QED BY <3>1, <4>1, <4>2
    <3>5. Len(out) = Len(inn) /\ DOMAIN out = 1..Len(out)
      BY <3>2, <3>3 DEF out, inn
    <3>6. Pairs(out, inn)
      BY <3>4, <3>5
    <3> QED BY <3>6 DEF out, inn
  <2> QED BY <1>3, <2>1, <2>2, <2>3, <2>5 DEF Meets
<1>8. CASE k = 2
  <2>1. to = Up(size, r) /\ calls[k].out = Row(t, 1)
    BY <1>8, HaloCallsAre
  <2>2. /\ HaloCalls(n, size, to)[k].from = Down(size, to) /\ HaloCalls(n, size, to)[k].in = Row(u, u.nx + 1)
        /\ HaloCalls(n, size, to)[1].to = Down(size, to)
    BY <1>8, HaloCallsAre
  <2>3. Down(size, to) = r
    BY <2>1, NextTo
  <2>4. u.gi0 + u.nx = t.gi0 /\ u.gj0 = t.gj0 /\ u.ny = t.ny
    BY <2>1, TilesTouch
  <2>5. Pairs(Row(t, 1), Row(u, u.nx + 1))
    <3> HIDE DEF calls, to, t, u, names, there
    <3>1. \A m \in 1..t.ny : names[<<1, m>>] = there[<<u.nx + 1, m>>]
      <4> SUFFICES ASSUME NEW m \in 1..t.ny PROVE names[<<1, m>>] = there[<<u.nx + 1, m>>]
        OBVIOUS
      <4>1. names[<<1, m>>] = <<t.gi0 + 1 - 1, t.gj0 + m - 1>>
        BY <1>5, <1>6, SMTT(30)
      <4>2. there[<<u.nx + 1, m>>] = <<u.gi0 + (u.nx + 1) - 1, u.gj0 + m - 1>>
        BY <1>5, <1>6, <2>4, SMTT(30)
      <4> QED BY <1>5, <2>4, <4>1, <4>2
    <3>2. /\ Len(Row(t, 1)) = t.ny /\ DOMAIN Row(t, 1) = 1..t.ny
          /\ \A m \in 1..t.ny : Row(t, 1)[m] = <<1, m>>
      BY <1>5, RowIs
    <3>3. /\ Len(Row(u, u.nx + 1)) = t.ny
          /\ \A m \in 1..t.ny : Row(u, u.nx + 1)[m] = <<u.nx + 1, m>>
      BY <1>5, <2>4, RowIs, SMTT(30)
    <3> DEFINE out == Row(t, 1)
               inn == Row(u, u.nx + 1)
    <3> HIDE DEF out, inn
    <3>4. \A m \in DOMAIN out : names[out[m]] = there[inn[m]]
      <4> SUFFICES ASSUME NEW m \in DOMAIN out PROVE names[out[m]] = there[inn[m]]
        OBVIOUS
      <4>1. m \in 1..t.ny
        BY <3>2 DEF out
      <4>2. out[m] = <<1, m>> /\ inn[m] = <<u.nx + 1, m>>
        BY <3>2, <3>3, <4>1 DEF out, inn
      <4> QED BY <3>1, <4>1, <4>2
    <3>5. Len(out) = Len(inn) /\ DOMAIN out = 1..Len(out)
      BY <3>2, <3>3 DEF out, inn
    <3>6. Pairs(out, inn)
      BY <3>4, <3>5
    <3> QED BY <3>6 DEF out, inn
  <2> QED BY <1>3, <2>1, <2>2, <2>3, <2>5 DEF Meets
<1>9. CASE k = 3
  <2>1. to = Right(size, r) /\ calls[k].out = Column(t, t.ny)
    BY <1>9, HaloCallsAre
  <2>2. /\ HaloCalls(n, size, to)[k].from = Left(size, to) /\ HaloCalls(n, size, to)[k].in = Column(u, 0)
        /\ HaloCalls(n, size, to)[4].to = Left(size, to)
    BY <1>9, HaloCallsAre
  <2>3. Left(size, to) = r
    BY <2>1, NextTo
  <2>4. t.gj0 + t.ny = u.gj0 /\ u.gi0 = t.gi0 /\ u.nx = t.nx
    BY <2>1, TilesTouch
  <2>5. Pairs(Column(t, t.ny), Column(u, 0))
    <3> HIDE DEF calls, to, t, u, names, there
    <3>1. \A m \in 1..t.nx : names[<<m, t.ny>>] = there[<<m, 0>>]
      <4> SUFFICES ASSUME NEW m \in 1..t.nx PROVE names[<<m, t.ny>>] = there[<<m, 0>>]
        OBVIOUS
      <4>1. names[<<m, t.ny>>] = <<t.gi0 + m - 1, t.gj0 + t.ny - 1>>
        BY <1>5, <1>6, SMTT(30)
      <4>2. there[<<m, 0>>] = <<u.gi0 + m - 1, u.gj0 + 0 - 1>>
        BY <1>5, <1>6, <2>4, SMTT(30)
      <4> QED BY <1>5, <2>4, <4>1, <4>2
    <3>2. /\ Len(Column(t, t.ny)) = t.nx /\ DOMAIN Column(t, t.ny) = 1..t.nx
          /\ \A m \in 1..t.nx : Column(t, t.ny)[m] = <<m, t.ny>>
      BY <1>5, ColumnIs
    <3>3. /\ Len(Column(u, 0)) = t.nx
          /\ \A m \in 1..t.nx : Column(u, 0)[m] = <<m, 0>>
      BY <1>5, <2>4, ColumnIs, SMTT(30)
    <3> DEFINE out == Column(t, t.ny)
               inn == Column(u, 0)
    <3> HIDE DEF out, inn
    <3>4. \A m \in DOMAIN out : names[out[m]] = there[inn[m]]
      <4> SUFFICES ASSUME NEW m \in DOMAIN out PROVE names[out[m]] = there[inn[m]]
        OBVIOUS
      <4>1. m \in 1..t.nx
        BY <3>2 DEF out
      <4>2. out[m] = <<m, t.ny>> /\ inn[m] = <<m, 0>>
        BY <3>2, <3>3, <4>1 DEF out, inn
      <4> QED BY <3>1, <4>1, <4>2
    <3>5. Len(out) = Len(inn) /\ DOMAIN out = 1..Len(out)
      BY <3>2, <3>3 DEF out, inn
    <3>6. Pairs(out, inn)
      BY <3>4, <3>5
    <3> QED BY <3>6 DEF out, inn
  <2> QED BY <1>3, <2>1, <2>2, <2>3, <2>5 DEF Meets
<1>10. CASE k = 4
  <2>1. to = Left(size, r) /\ calls[k].out = Column(t, 1)
    BY <1>10, HaloCallsAre
  <2>2. /\ HaloCalls(n, size, to)[k].from = Right(size, to) /\ HaloCalls(n, size, to)[k].in = Column(u, u.ny + 1)
        /\ HaloCalls(n, size, to)[3].to = Right(size, to)
    BY <1>10, HaloCallsAre
  <2>3. Right(size, to) = r
    BY <2>1, NextTo
  <2>4. u.gj0 + u.ny = t.gj0 /\ u.gi0 = t.gi0 /\ u.nx = t.nx
    BY <2>1, TilesTouch
  <2>5. Pairs(Column(t, 1), Column(u, u.ny + 1))
    <3> HIDE DEF calls, to, t, u, names, there
    <3>1. \A m \in 1..t.nx : names[<<m, 1>>] = there[<<m, u.ny + 1>>]
      <4> SUFFICES ASSUME NEW m \in 1..t.nx PROVE names[<<m, 1>>] = there[<<m, u.ny + 1>>]
        OBVIOUS
      <4>1. names[<<m, 1>>] = <<t.gi0 + m - 1, t.gj0 + 1 - 1>>
        BY <1>5, <1>6, SMTT(30)
      <4>2. there[<<m, u.ny + 1>>] = <<u.gi0 + m - 1, u.gj0 + (u.ny + 1) - 1>>
        BY <1>5, <1>6, <2>4, SMTT(30)
      <4> QED BY <1>5, <2>4, <4>1, <4>2
    <3>2. /\ Len(Column(t, 1)) = t.nx /\ DOMAIN Column(t, 1) = 1..t.nx
          /\ \A m \in 1..t.nx : Column(t, 1)[m] = <<m, 1>>
      BY <1>5, ColumnIs
    <3>3. /\ Len(Column(u, u.ny + 1)) = t.nx
          /\ \A m \in 1..t.nx : Column(u, u.ny + 1)[m] = <<m, u.ny + 1>>
      BY <1>5, <2>4, ColumnIs, SMTT(30)
    <3> DEFINE out == Column(t, 1)
               inn == Column(u, u.ny + 1)
    <3> HIDE DEF out, inn
    <3>4. \A m \in DOMAIN out : names[out[m]] = there[inn[m]]
      <4> SUFFICES ASSUME NEW m \in DOMAIN out PROVE names[out[m]] = there[inn[m]]
        OBVIOUS
      <4>1. m \in 1..t.nx
        BY <3>2 DEF out
      <4>2. out[m] = <<m, 1>> /\ inn[m] = <<m, u.ny + 1>>
        BY <3>2, <3>3, <4>1 DEF out, inn
      <4> QED BY <3>1, <4>1, <4>2
    <3>5. Len(out) = Len(inn) /\ DOMAIN out = 1..Len(out)
      BY <3>2, <3>3 DEF out, inn
    <3>6. Pairs(out, inn)
      BY <3>4, <3>5
    <3> QED BY <3>6 DEF out, inn
  <2> QED BY <1>3, <2>1, <2>2, <2>3, <2>5 DEF Meets
<1> QED BY <1>2, <1>7, <1>8, <1>9, <1>10

(* And the call a rank waits in is met by one of the neighbour's.          *)
LEMMA CallsAreMet ==
  ASSUME NEW n, NEW size \in Nat \ {0}, NEW r \in 0..(size - 1),
         NEW k \in 1..4, HaloCalls(n, size, r)[k].from # ProcNull
  PROVE  LET from == HaloCalls(n, size, r)[k].from IN
         from \in 0..(size - 1) /\ HaloCalls(n, size, from)[k].to = r
<1>1. k = 1 \/ k = 2 \/ k = 3 \/ k = 4
  OBVIOUS
<1>2. CASE k = 1
  BY <1>2, HaloCallsAre, NextTo
<1>3. CASE k = 2
  BY <1>3, HaloCallsAre, NextTo
<1>4. CASE k = 3
  BY <1>4, HaloCallsAre, NextTo
<1>5. CASE k = 4
  BY <1>5, HaloCallsAre, NextTo
<1> QED BY <1>1, <1>2, <1>3, <1>4, <1>5

-----------------------------------------------------------------------------
(* The calls of all ranks match.                                           *)
LEMMA HaloProblem ==
  ASSUME NEW p \in Problems, p.kind = "halo"
  PROVE  /\ p.n \in Nat /\ p.size \in Nat \ {0} /\ Dims(p.size)[1] <= p.n
         /\ RanksOf(p) = 0..(p.size - 1)
         /\ \A r \in RanksOf(p) : Plan[p][r] = HaloPlan(p.n, p.size, r)
         /\ \A r \in RanksOf(p) : Plan[p][r].calls = HaloCalls(p.n, p.size, r)
         /\ ProcNull \notin RanksOf(p)
<1>1. /\ p.n \in Nat /\ p.size \in Nat \ {0} /\ Dims(p.size)[1] <= p.n
      /\ RanksOf(p) = 0..(p.size - 1)
  BY ProblemsAssumption DEF RanksOf
<1>2. \A r \in RanksOf(p) : Plan[p][r] = HaloPlan(p.n, p.size, r)
  BY DEF Plan
<1>3. \A r : HaloPlan(p.n, p.size, r).calls = HaloCalls(p.n, p.size, r)
  BY DEF HaloPlan
<1>4. ProcNull \notin RanksOf(p)
  BY <1>1 DEF ProcNull
<1> QED BY <1>1, <1>2, <1>3, <1>4

LEMMA HaloChannel ==
  ASSUME NEW p \in Problems, p.kind = "halo", NEW ch
  PROVE  ch \in ChannelsOf(p) <=>
           \E r \in RanksOf(p) : \E k \in 1..4 : ch = <<r, HaloCalls(p.n, p.size, r)[k].to, k - 1>>
<1> DEFINE C(r) == {<<r, c.to, c.tag>> : c \in ToSet(HaloCalls(p.n, p.size, r))}
<1>1. \A r \in RanksOf(p) : Plan[p][r].calls = HaloCalls(p.n, p.size, r)
  BY HaloProblem
<1>2. \A r : ToSet(HaloCalls(p.n, p.size, r)) = {HaloCalls(p.n, p.size, r)[k] : k \in 1..4}
  BY HaloCallsAre DEF ToSet
<1>3. \A r : \A k \in 1..4 : HaloCalls(p.n, p.size, r)[k].tag = k - 1
  BY HaloCallsAre
<1>4. ASSUME NEW r PROVE ch \in C(r) <=> \E k \in 1..4 : ch = <<r, HaloCalls(p.n, p.size, r)[k].to, k - 1>>
  <2> DEFINE calls == HaloCalls(p.n, p.size, r)
  <2>1. C(r) = {<<r, calls[k].to, calls[k].tag>> : k \in 1..4}
    BY <1>2
  <2>2. \A k \in 1..4 : calls[k].tag = k - 1
    BY <1>3
  <2> HIDE DEF calls, C
  <2> QED BY <2>1, <2>2 DEF calls
<1>5. ChannelsOf(p) = UNION {C(r) : r \in RanksOf(p)}
  BY <1>1 DEF ChannelsOf
<1> HIDE DEF C
<1> QED BY <1>4, <1>5

LEMMA HaloMatches ==
  ASSUME NEW p \in Problems, p.kind = "halo"
  PROVE  Matched(p, Plan[p])
<1> DEFINE plan == Plan[p]
           calls(r) == HaloCalls(p.n, p.size, r)
<1>1. /\ p.n \in Nat /\ p.size \in Nat \ {0} /\ Dims(p.size)[1] <= p.n
      /\ RanksOf(p) = 0..(p.size - 1) /\ ProcNull \notin RanksOf(p)
      /\ \A r \in RanksOf(p) : plan[r].calls = calls(r)
  BY HaloProblem
<1>2. ASSUME NEW r \in RanksOf(p)
      PROVE  /\ IsSeq(calls(r)) /\ DOMAIN calls(r) = 1..4
             /\ \A k \in 1..4 : calls(r)[k].tag = k - 1
  BY HaloCallsAre
<1>3. ASSUME NEW r \in RanksOf(p), NEW k \in 1..4
      PROVE  IsSeq(calls(r)[k].out) /\ IsSeq(calls(r)[k].in)
  <2> DEFINE t == TileOf(p.n, p.size, r)
  <2>1. t.nx \in Nat /\ t.ny \in Nat
    BY <1>1, TileIs DEF TileFits
  <2>2. k = 1 \/ k = 2 \/ k = 3 \/ k = 4
    OBVIOUS
  <2>3. \A i : IsSeq(Row(t, i)) /\ IsSeq(Column(t, i))
    BY <2>1, RowIs, ColumnIs
  <2> QED BY <2>2, <2>3, HaloCallsAre
<1>4. ASSUME NEW r \in RanksOf(p), NEW k \in 1..4, calls(r)[k].to # ProcNull
      PROVE  Meets(p.n, p.size, r, k)
  BY <1>1, <1>4, CallsMeet
<1>5. ASSUME NEW r \in RanksOf(p), NEW k \in 1..4, calls(r)[k].from # ProcNull
      PROVE  calls(r)[k].from \in RanksOf(p) /\ calls(calls(r)[k].from)[k].to = r
  BY <1>1, <1>5, CallsAreMet, SMTT(30)
<1> HIDE DEF calls, plan
<1>6. ASSUME NEW ch \in ChannelsOf(p), ch[2] # ProcNull
      PROVE  /\ ch[2] \in RanksOf(p)
             /\ \E i \in SendsOn(plan, ch) : \E j \in TakesOn(plan, ch) :
                  /\ SendsOn(plan, ch) = {i} /\ TakesOn(plan, ch) = {j}
                  /\ Len(plan[ch[1]].calls[i].out) = Len(plan[ch[2]].calls[j].in)
             /\ \E back \in ChannelsOf(p) : back[1] = ch[2] /\ back[2] = ch[1]
  <2>1. PICK r \in RanksOf(p), k \in 1..4 : ch = <<r, calls(r)[k].to, k - 1>>
    BY HaloChannel DEF calls
  <2> DEFINE to == calls(r)[k].to
  <2>2. ch[1] = r /\ ch[2] = to /\ ch[3] = k - 1
    BY <2>1
  <2>3. Meets(p.n, p.size, r, k)
    BY <1>4, <1>6, <2>2
  <2>4. /\ to \in RanksOf(p) /\ calls(to)[k].from = r
        /\ Len(calls(r)[k].out) = Len(calls(to)[k].in)
        /\ \E l \in 1..4 : calls(to)[l].to = r
    BY <1>1, <2>3 DEF Meets, calls
  <2> HIDE DEF to
  <2>5. SendsOn(plan, ch) = {k}
    <3>1. SendsOn(plan, ch) = {i \in 1..4 : calls(r)[i].to = to /\ calls(r)[i].tag = k - 1}
      BY <1>1, <1>2, <2>2 DEF SendsOn
    <3>2. \A i \in 1..4 : calls(r)[i].tag = k - 1 <=> i = k
      BY <1>2
    <3> QED BY <3>1, <3>2 DEF to
  <2>6. TakesOn(plan, ch) = {k}
    <3>1. TakesOn(plan, ch) = {j \in 1..4 : calls(to)[j].from = r /\ calls(to)[j].tag = k - 1}
      BY <1>1, <1>2, <2>2, <2>4 DEF TakesOn
    <3>2. \A j \in 1..4 : calls(to)[j].tag = k - 1 <=> j = k
      BY <1>2, <2>4
    <3> QED BY <2>4, <3>1, <3>2
  <2>7. plan[ch[1]].calls = calls(r) /\ plan[ch[2]].calls = calls(to)
    BY <1>1, <2>2, <2>4
  <2>8. \E back \in ChannelsOf(p) : back[1] = to /\ back[2] = r
    <3>1. PICK l \in 1..4 : calls(to)[l].to = r
      BY <2>4
    <3>2. <<to, r, l - 1>> \in ChannelsOf(p)
      BY <2>4, <3>1, HaloChannel DEF calls
    <3> QED BY <3>2
  <2> QED BY <2>2, <2>4, <2>5, <2>6, <2>7, <2>8
<1>7. ASSUME NEW r \in RanksOf(p), NEW k \in 1..4, calls(r)[k].from # ProcNull
      PROVE  <<calls(r)[k].from, r, calls(r)[k].tag>> \in ChannelsOf(p)
  BY <1>2, <1>5, <1>7, HaloChannel DEF calls
<1>8. \A r \in RanksOf(p) :
        /\ IsSeq(plan[r].calls)
        /\ \A k \in DOMAIN plan[r].calls : IsSeq(plan[r].calls[k].out) /\ IsSeq(plan[r].calls[k].in)
  BY <1>1, <1>2, <1>3
<1>9. \A r \in RanksOf(p) : \A k \in DOMAIN plan[r].calls :
        LET c == plan[r].calls[k] IN c.from # ProcNull => <<c.from, r, c.tag>> \in ChannelsOf(p)
  BY <1>1, <1>2, <1>7
<1>10. Matched(p, plan)
  BY <1>6, <1>8, <1>9 DEF Matched
<1> QED BY <1>10 DEF plan

-----------------------------------------------------------------------------
(* The serial solver.  The recursion over its sweeps is that of a list of  *)
(* fields growing by one field every sweep.                                *)
Swept(f, reads) ==
  [place \in DOMAIN f |-> IF place \in DOMAIN reads THEN Mean(f, reads[place]) ELSE f[place]]
Grown(fields, reads) == Append(fields, Swept(Last(fields), reads))
Grows(g, start, reads, k) ==
  g = [t \in 0..k |-> IF t = 0 THEN <<start>> ELSE Grown(g[t-1], reads)]

LEMMA GrowsExists ==
  ASSUME NEW start, NEW reads, NEW k \in Nat
  PROVE  \E g : Grows(g, start, reads, k)
<1> DEFINE T == {n \in Nat : \E g : Grows(g, start, reads, n)}
<1>1. 0 \in T
  <2> DEFINE g == [t \in 0..0 |-> <<start>>]
  <2>1. Grows(g, start, reads, 0)
    BY DEF Grows
  <2> QED BY <2>1
<1>2. ASSUME NEW n \in Nat, n \in T PROVE n + 1 \in T
  <2>1. PICK g : Grows(g, start, reads, n)
    BY <1>2
  <2> DEFINE h == [t \in 0..(n+1) |-> IF t = n + 1 THEN Grown(g[n], reads) ELSE g[t]]
             e == [t \in 0..(n+1) |-> IF t = 0 THEN <<start>> ELSE Grown(h[t-1], reads)]
  <2>2. \A t \in 0..n : h[t] = g[t]
    OBVIOUS
  <2>3. h[n+1] = Grown(g[n], reads)
    OBVIOUS
  <2>4. \A t \in 0..n : g[t] = IF t = 0 THEN <<start>> ELSE Grown(g[t-1], reads)
    BY <2>1 DEF Grows
  <2>5. ASSUME NEW t \in 0..(n+1) PROVE h[t] = IF t = 0 THEN <<start>> ELSE Grown(h[t-1], reads)
    <3> HIDE DEF h
    <3>1. CASE t = n + 1
      <4>1. t # 0 /\ t - 1 = n /\ n \in 0..n
        BY <3>1
      <4> QED BY <2>2, <2>3, <3>1, <4>1
    <3>2. CASE t \in 0..n
      <4>1. t # 0 => t - 1 \in 0..n
        BY <3>2
      <4> QED BY <2>2, <2>4, <3>2, <4>1
    <3> QED BY <3>1, <3>2
  <2>6. h = e
    BY <2>5
  <2>7. Grows(h, start, reads, n + 1)
    <3> HIDE DEF h
    <3> QED BY <2>6 DEF Grows
  <2> QED BY <2>7
<1> HIDE DEF T
<1>3. Nat \subseteq T
  BY <1>1, <1>2, Induct!NatInductionOn
<1> QED BY <1>3 DEF T

LEMMA GrowsList ==
  ASSUME NEW start, NEW reads, NEW k \in Nat, NEW g, Grows(g, start, reads, k)
  PROVE  /\ g[k][1] = start
         /\ \A t \in 0..(k-1) : g[k][t + 2] = Swept(g[k][t + 1], reads)
<1> DEFINE Listed(s, n) == /\ IsSeq(s) /\ Len(s) = n + 1 /\ s[1] = start
                           /\ \A i \in 1..n : s[i + 1] = Swept(s[i], reads)
           T == {n \in Nat : n <= k => Listed(g[n], n)}
<1>1. \A t \in 0..k : g[t] = IF t = 0 THEN <<start>> ELSE Grown(g[t-1], reads)
  BY DEF Grows
<1>2. 0 \in T
  <2>1. g[0] = <<start>>
    BY <1>1
  <2>2. IsSeq(<<start>>)
    BY DEF IsSeq
  <2>3. Listed(<<start>>, 0)
    BY <2>2
  <2> HIDE DEF Listed
  <2> QED BY <2>1, <2>3
<1>3. ASSUME NEW n \in Nat, n \in T PROVE n + 1 \in T
  <2> SUFFICES ASSUME n + 1 <= k PROVE Listed(g[n+1], n + 1)
    OBVIOUS
  <2> DEFINE s == g[n]
             e == Swept(Last(s), reads)
             u == Append(s, e)
  <2>1. Listed(s, n)
    BY <1>3
  <2>2. g[n+1] = u
    <3>1. n + 1 \in 0..k /\ n + 1 # 0 /\ (n + 1) - 1 = n
      OBVIOUS
    <3> QED BY <1>1, <3>1 DEF Grown
  <2>3. Last(s) = s[n+1]
    BY <2>1 DEF Last
  <2> HIDE DEF s
  <2>4. /\ IsSeq(u) /\ Len(u) = n + 2 /\ DOMAIN u = 1..(n + 2)
        /\ \A i \in DOMAIN u : IF i = n + 2 THEN u[i] = e ELSE u[i] = s[i]
    <3> HIDE DEF e
    <3>1. /\ IsSeq(u) /\ Len(u) = Len(s) + 1
          /\ \A i \in DOMAIN u : IF i = Len(s) + 1 THEN u[i] = e ELSE i \in DOMAIN s /\ u[i] = s[i]
      BY <2>1, SeqAppend
    <3>2. Len(u) = n + 2 /\ DOMAIN u = 1..(n + 2)
      BY <2>1, <3>1, SeqDomain
    <3> HIDE DEF u
    <3> QED BY <2>1, <3>1, <3>2
  <2>5. e = Swept(s[n+1], reads)
    BY <2>3
  <2> HIDE DEF u, e
  <2>6. u[1] = start /\ \A i \in 1..(n+1) : u[i + 1] = Swept(u[i], reads)
    <3>1. u[1] = start
      BY <2>1, <2>4
    <3>2. ASSUME NEW i \in 1..(n+1) PROVE u[i + 1] = Swept(u[i], reads)
      <4>1. u[i] = s[i]
        BY <2>4
      <4>2. CASE i = n + 1
        BY <2>4, <2>5, <4>1, <4>2
      <4>3. CASE i \in 1..n
        <5>1. u[i + 1] = s[i + 1]
          BY <2>4, <4>3
        <5> QED BY <2>1, <4>1, <4>3, <5>1
      <4> QED BY <4>2, <4>3
    <3> QED BY <3>1, <3>2
  <2> QED BY <2>2, <2>4, <2>6
<1> HIDE DEF T
<1>4. Nat \subseteq T
  BY <1>2, <1>3, Induct!NatInductionOn
<1>5. Listed(g[k], k)
  BY <1>4 DEF T
<1>6. \A t \in 0..(k-1) : t + 1 \in 1..k /\ (t + 1) + 1 = t + 2
  OBVIOUS
<1> QED BY <1>5, <1>6

LEMMA SweepBySweep ==
  ASSUME NEW start, NEW reads, NEW k \in Nat
  PROVE  LET f == SweptFields(start, reads, k) IN
         f[0] = start /\ \A t \in 0..(k-1) : f[t + 1] = Swept(f[t], reads)
<1> DEFINE g == CHOOSE g : Grows(g, start, reads, k)
           f == SweptFields(start, reads, k)
<1>1. f = [t \in 0..k |-> g[k][t + 1]]
  BY DEF SweptFields, Grows, Grown, Swept
<1>2. Grows(g, start, reads, k)
  BY GrowsExists
<1> HIDE DEF g, f
<1>3. /\ g[k][1] = start
      /\ \A t \in 0..(k-1) : g[k][t + 2] = Swept(g[k][t + 1], reads)
  BY <1>2, GrowsList
<1>4. f[0] = start
  BY <1>1, <1>3
<1>5. ASSUME NEW t \in 0..(k-1) PROVE f[t + 1] = Swept(f[t], reads)
  <2>1. f[t] = g[k][t + 1] /\ f[t + 1] = g[k][t + 2]
    <3>1. t \in 0..k /\ t + 1 \in 0..k /\ (t + 1) + 1 = t + 2
      OBVIOUS
    <3> QED BY <1>1, <3>1
  <2> QED BY <1>3, <2>1
<1> QED BY <1>4, <1>5 DEF f

(* The fields keep their places, and what is not swept keeps its value.    *)
LEMMA SweepsKeep ==
  ASSUME NEW start, NEW reads, NEW k \in Nat, NEW t \in 0..k
  PROVE  LET f == SweptFields(start, reads, k) IN
         /\ DOMAIN f[t] = DOMAIN start
         /\ \A place \in DOMAIN start \ DOMAIN reads : f[t][place] = start[place]
<1> DEFINE f == SweptFields(start, reads, k)
           Keeps(h) == /\ DOMAIN h = DOMAIN start
                       /\ \A place \in DOMAIN start \ DOMAIN reads : h[place] = start[place]
           T == {n \in Nat : n <= k => Keeps(f[n])}
<1>1. f[0] = start /\ \A n \in 0..(k-1) : f[n + 1] = Swept(f[n], reads)
  BY SweepBySweep
<1> HIDE DEF f
<1>2. 0 \in T
  BY <1>1
<1>3. ASSUME NEW n \in Nat, n \in T PROVE n + 1 \in T
  <2> SUFFICES ASSUME n + 1 <= k PROVE Keeps(f[n+1])
    OBVIOUS
  <2>1. f[n+1] = Swept(f[n], reads) /\ Keeps(f[n])
    BY <1>1, <1>3
  <2> QED BY <2>1 DEF Swept
<1> HIDE DEF T
<1>4. Nat \subseteq T
  BY <1>2, <1>3, Induct!NatInductionOn
<1>5. Keeps(f[t])
  BY <1>4 DEF T
<1> QED BY <1>5 DEF f

-----------------------------------------------------------------------------
(* The serial field, and the part of it that a rank keeps.                 *)
LEMMA SerialFieldIs ==
  ASSUME NEW p \in Problems, p.kind = "halo"
  PROVE  /\ Serial[p][0] = SerialStart(p.n, T_WEST, T_SOUTH)
         /\ \A t \in 0..Iterations, i \in 0..(p.n + 1), j \in 0..(p.n + 1) :
              ~(i \in 1..p.n /\ j \in 1..p.n) =>
                Serial[p][t][<<i, j>>] = SerialStart(p.n, T_WEST, T_SOUTH)[<<i, j>>]
         /\ \A t \in 0..(Iterations - 1), i \in 1..p.n, j \in 1..p.n :
              Serial[p][t + 1][<<i, j>>] = Mean(Serial[p][t], Stencil(<<i, j>>))
<1> DEFINE start == SerialStart(p.n, T_WEST, T_SOUTH)
           reads == [cell \in (1..p.n) \X (1..p.n) |-> Stencil(cell)]
           f == SweptFields(start, reads, Iterations)
           grid == (0..(p.n + 1)) \X (0..(p.n + 1))
<1>1. p.n \in Nat /\ Iterations \in Nat
  BY HaloProblem, IterationsAssumption
<1>2. Serial[p] = f
  BY DEF Serial, Solve, SolveHalo, T_WEST, T_SOUTH
<1>3. DOMAIN start = grid /\ DOMAIN reads = (1..p.n) \X (1..p.n)
  BY DEF SerialStart
<1>4. \A cell \in DOMAIN reads : reads[cell] = Stencil(cell)
  OBVIOUS
<1>5. \A i, j \in 0..(p.n + 1) : <<i, j>> \in grid
  OBVIOUS
<1>6. \A i, j \in 1..p.n : <<i, j>> \in grid
  BY <1>1
<1>7. \A i, j : <<i, j>> \in DOMAIN reads <=> i \in 1..p.n /\ j \in 1..p.n
  BY <1>3
<1>8. f[0] = start /\ \A t \in 0..(Iterations - 1) : f[t + 1] = Swept(f[t], reads)
  BY <1>1, SweepBySweep
<1>9. \A t \in 0..Iterations :
        /\ DOMAIN f[t] = DOMAIN start
        /\ \A place \in DOMAIN start \ DOMAIN reads : f[t][place] = start[place]
  BY <1>1, SweepsKeep
<1> HIDE DEF start, reads, f, grid
<1>10. ASSUME NEW t \in 0..(Iterations - 1), NEW i \in 1..p.n, NEW j \in 1..p.n
       PROVE  f[t + 1][<<i, j>>] = Mean(f[t], Stencil(<<i, j>>))
  <2>1. <<i, j>> \in DOMAIN f[t] /\ <<i, j>> \in DOMAIN reads
    <3>1. t \in 0..Iterations
      BY <1>1
    <3> QED BY <1>3, <1>6, <1>7, <1>9, <3>1
  <2> QED BY <1>4, <1>8, <2>1 DEF Swept
<1>11. ASSUME NEW t \in 0..Iterations, NEW i \in 0..(p.n + 1), NEW j \in 0..(p.n + 1),
              ~(i \in 1..p.n /\ j \in 1..p.n)
       PROVE  f[t][<<i, j>>] = start[<<i, j>>]
  BY <1>3, <1>5, <1>7, <1>9, <1>11
<1> QED BY <1>2, <1>8, <1>10, <1>11 DEF start

(* A cell's neighbours have the names of its name's neighbours.            *)
LEMMA StencilIs ==
  ASSUME NEW i, NEW j
  PROVE  /\ DOMAIN Stencil(<<i, j>>) = 1..4
         /\ Stencil(<<i, j>>)[1] = <<i - 1, j>> /\ Stencil(<<i, j>>)[2] = <<i + 1, j>>
         /\ Stencil(<<i, j>>)[3] = <<i, j - 1>> /\ Stencil(<<i, j>>)[4] = <<i, j + 1>>
BY DEF Stencil

LEMMA StencilNames ==
  ASSUME NEW n, NEW size, NEW r, TileFits(n, size, r),
         NEW i \in 1..(TileOf(n, size, r).nx), NEW j \in 1..(TileOf(n, size, r).ny), NEW m \in 1..4
  PROVE  LET t == TileOf(n, size, r) IN
         HaloNames(n, size, r)[Stencil(<<i, j>>)[m]] = Stencil(<<t.gi0 + i - 1, t.gj0 + j - 1>>)[m]
<1> DEFINE t == TileOf(n, size, r)
           names == HaloNames(n, size, r)
           a == t.gi0 + i - 1
           b == t.gj0 + j - 1
<1>1. t.nx \in Nat \ {0} /\ t.ny \in Nat \ {0} /\ t.gi0 \in Nat /\ t.gj0 \in Nat
  BY DEF TileFits
<1>2. \A x \in 0..(t.nx + 1), y \in 0..(t.ny + 1) : names[<<x, y>>] = <<t.gi0 + x - 1, t.gj0 + y - 1>>
  <2> SUFFICES ASSUME NEW x \in 0..(t.nx + 1), NEW y \in 0..(t.ny + 1)
               PROVE  names[<<x, y>>] = <<t.gi0 + x - 1, t.gj0 + y - 1>>
    OBVIOUS
  <2> QED BY NamesAre
<1>3. i \in 1..t.nx /\ j \in 1..t.ny
  OBVIOUS
<1> HIDE DEF t, names
<1>4. /\ i \in 0..(t.nx + 1) /\ i - 1 \in 0..(t.nx + 1) /\ i + 1 \in 0..(t.nx + 1)
      /\ j \in 0..(t.ny + 1) /\ j - 1 \in 0..(t.ny + 1) /\ j + 1 \in 0..(t.ny + 1)
  BY <1>1, <1>3
<1>5. /\ t.gi0 + (i - 1) - 1 = a - 1 /\ t.gi0 + (i + 1) - 1 = a + 1
      /\ t.gj0 + (j - 1) - 1 = b - 1 /\ t.gj0 + (j + 1) - 1 = b + 1
  BY <1>1, <1>3
<1>6. names[<<i - 1, j>>] = <<a - 1, b>> /\ names[<<i + 1, j>>] = <<a + 1, b>>
  <2>1. names[<<i - 1, j>>] = <<t.gi0 + (i - 1) - 1, b>> /\ names[<<i + 1, j>>] = <<t.gi0 + (i + 1) - 1, b>>
    BY <1>2, <1>4
  <2> HIDE DEF a, b
  <2> QED BY <1>5, <2>1
<1>7. names[<<i, j - 1>>] = <<a, b - 1>> /\ names[<<i, j + 1>>] = <<a, b + 1>>
  <2>1. names[<<i, j - 1>>] = <<a, t.gj0 + (j - 1) - 1>> /\ names[<<i, j + 1>>] = <<a, t.gj0 + (j + 1) - 1>>
    BY <1>2, <1>4
  <2> HIDE DEF a, b
  <2> QED BY <1>5, <2>1
<1>8. m = 1 \/ m = 2 \/ m = 3 \/ m = 4
  OBVIOUS
<1> HIDE DEF a, b
<1>9. names[Stencil(<<i, j>>)[m]] = Stencil(<<a, b>>)[m]
  <2>1. /\ Stencil(<<i, j>>)[1] = <<i - 1, j>> /\ Stencil(<<i, j>>)[2] = <<i + 1, j>>
        /\ Stencil(<<i, j>>)[3] = <<i, j - 1>> /\ Stencil(<<i, j>>)[4] = <<i, j + 1>>
    BY StencilIs
  <2>2. /\ Stencil(<<a, b>>)[1] = <<a - 1, b>> /\ Stencil(<<a, b>>)[2] = <<a + 1, b>>
        /\ Stencil(<<a, b>>)[3] = <<a, b - 1>> /\ Stencil(<<a, b>>)[4] = <<a, b + 1>>
    BY StencilIs
  <2> QED BY <1>6, <1>7, <1>8, <2>1, <2>2
<1> QED BY <1>9 DEF t, names, a, b

(* The cells that messages fill: the four sides, each filled by one call.  *)
LEMMA FilledCells ==
  ASSUME NEW n, NEW size, NEW r, TileFits(n, size, r), NEW k \in 1..4
  PROVE  LET t == TileOf(n, size, r)  inn == HaloCalls(n, size, r)[k].in IN
         \A m \in DOMAIN inn : LET x == inn[m][1]  y == inn[m][2] IN
           /\ inn[m] \in LocalCells(t) \ Interior(t)
           /\ k = IF x = 0 THEN 1 ELSE IF x = t.nx + 1 THEN 2 ELSE IF y = 0 THEN 3 ELSE 4
           /\ m = IF x = 0 \/ x = t.nx + 1 THEN y ELSE x
<1> DEFINE t == TileOf(n, size, r)
           inn == HaloCalls(n, size, r)[k].in
<1>1. t.nx \in Nat \ {0} /\ t.ny \in Nat \ {0}
  BY DEF TileFits
<1>2. k = 1 \/ k = 2 \/ k = 3 \/ k = 4
  OBVIOUS
<1>3. /\ k = 1 => inn = Row(t, 0)
      /\ k = 2 => inn = Row(t, t.nx + 1)
      /\ k = 3 => inn = Column(t, 0)
      /\ k = 4 => inn = Column(t, t.ny + 1)
  BY HaloCallsAre
<1> HIDE DEF t, inn
<1>4. \A i : /\ DOMAIN Row(t, i) = 1..t.ny /\ \A m \in 1..t.ny : Row(t, i)[m] = <<i, m>>
             /\ DOMAIN Column(t, i) = 1..t.nx /\ \A m \in 1..t.nx : Column(t, i)[m] = <<m, i>>
  BY <1>1, RowIs, ColumnIs
<1> DEFINE Ok(cell, m) == LET x == cell[1]  y == cell[2] IN
             /\ cell \in LocalCells(t) \ Interior(t)
             /\ k = IF x = 0 THEN 1 ELSE IF x = t.nx + 1 THEN 2 ELSE IF y = 0 THEN 3 ELSE 4
             /\ m = IF x = 0 \/ x = t.nx + 1 THEN y ELSE x
<1>5. ASSUME NEW m \in DOMAIN inn PROVE Ok(inn[m], m)
  <2>1. CASE k = 1
    <3>1. m \in 1..t.ny /\ inn[m] = <<0, m>>
      <4>1. inn = Row(t, 0) /\ DOMAIN Row(t, 0) = 1..t.ny
        BY <1>3, <1>4, <2>1
      <4> QED BY <1>4, <1>5, <4>1
    <3>2. Ok(<<0, m>>, m)
      BY <1>1, <2>1, <3>1 DEF LocalCells, Interior
    <3> HIDE DEF Ok
    <3> QED BY <3>1, <3>2
  <2>2. CASE k = 2
    <3>1. m \in 1..t.ny /\ inn[m] = <<t.nx + 1, m>>
      <4>1. inn = Row(t, t.nx + 1) /\ DOMAIN Row(t, t.nx + 1) = 1..t.ny
        BY <1>3, <1>4, <2>2
      <4> QED BY <1>4, <1>5, <4>1
    <3>2. Ok(<<t.nx + 1, m>>, m)
      BY <1>1, <2>2, <3>1 DEF LocalCells, Interior
    <3> HIDE DEF Ok
    <3> QED BY <3>1, <3>2
  <2>3. CASE k = 3
    <3>1. m \in 1..t.nx /\ inn[m] = <<m, 0>>
      <4>1. inn = Column(t, 0) /\ DOMAIN Column(t, 0) = 1..t.nx
        BY <1>3, <1>4, <2>3
      <4> QED BY <1>4, <1>5, <4>1
    <3>2. Ok(<<m, 0>>, m)
      BY <1>1, <2>3, <3>1 DEF LocalCells, Interior
    <3> HIDE DEF Ok
    <3> QED BY <3>1, <3>2
  <2>4. CASE k = 4
    <3>1. m \in 1..t.nx /\ inn[m] = <<m, t.ny + 1>>
      <4>1. inn = Column(t, t.ny + 1) /\ DOMAIN Column(t, t.ny + 1) = 1..t.nx
        BY <1>3, <1>4, <2>4
      <4> QED BY <1>4, <1>5, <4>1
    <3>2. Ok(<<m, t.ny + 1>>, m)
      BY <1>1, <2>4, <3>1 DEF LocalCells, Interior
    <3> HIDE DEF Ok
    <3> QED BY <3>1, <3>2
  <2> QED BY <1>2, <2>1, <2>2, <2>3, <2>4
<1> QED BY <1>5 DEF t, inn

LEMMA HaloView ==
  ASSUME NEW p \in Problems, p.kind = "halo", NEW r \in RanksOf(p)
  PROVE  LET own == Plan[p][r]  t == TileOf(p.n, p.size, r) IN
         /\ TileFits(p.n, p.size, r)
         /\ own.calls = HaloCalls(p.n, p.size, r) /\ own.global = HaloNames(p.n, p.size, r)
         /\ own.start = SetBoundary(p.n, p.size, r) /\ DOMAIN own.start = LocalCells(t)
         /\ DOMAIN own.reads = Interior(t)
         /\ \A cell \in Interior(t) : own.reads[cell] = Stencil(cell)
<1> DEFINE own == Plan[p][r]
           t == TileOf(p.n, p.size, r)
<1>1. own = HaloPlan(p.n, p.size, r)
  BY HaloProblem
<1>2. TileFits(p.n, p.size, r)
  BY HaloProblem, TileIs
<1>3. own.calls = HaloCalls(p.n, p.size, r) /\ own.global = HaloNames(p.n, p.size, r)
  BY <1>1, HaloProblem DEF HaloNames
<1>4. own.start = SetBoundary(p.n, p.size, r) /\ own.reads = [cell \in Interior(t) |-> Stencil(cell)]
  BY <1>1 DEF HaloPlan
<1>5. DOMAIN SetBoundary(p.n, p.size, r) = LocalCells(t)
  BY DEF SetBoundary
<1> HIDE DEF own, t
<1> QED BY <1>2, <1>3, <1>4, <1>5 DEF own, t

LEMMA HaloFillsOnce ==
  ASSUME NEW p \in Problems, p.kind = "halo", NEW r \in RanksOf(p)
  PROVE  FillsOnce(Plan[p][r])
<1> DEFINE own == Plan[p][r]
           t == TileOf(p.n, p.size, r)
           calls == HaloCalls(p.n, p.size, r)
<1>1. /\ TileFits(p.n, p.size, r) /\ own.calls = calls
      /\ DOMAIN own.start = LocalCells(t) /\ DOMAIN own.reads = Interior(t)
  BY HaloView
<1>2. t.nx \in Nat \ {0} /\ t.ny \in Nat \ {0}
  BY <1>1 DEF TileFits
<1>3. DOMAIN calls = 1..4
  BY HaloCallsAre
<1>4. \A k \in 1..4 : \A m \in DOMAIN calls[k].in : LET x == calls[k].in[m][1]  y == calls[k].in[m][2] IN
        /\ calls[k].in[m] \in LocalCells(t) \ Interior(t)
        /\ k = IF x = 0 THEN 1 ELSE IF x = t.nx + 1 THEN 2 ELSE IF y = 0 THEN 3 ELSE 4
        /\ m = IF x = 0 \/ x = t.nx + 1 THEN y ELSE x
  BY <1>1, FilledCells
<1>5. \A k \in 1..4 : ToSet(calls[k].out) \subseteq Interior(t)
  <2> SUFFICES ASSUME NEW k \in 1..4 PROVE ToSet(calls[k].out) \subseteq Interior(t)
    OBVIOUS
  <2>1. k = 1 \/ k = 2 \/ k = 3 \/ k = 4
    OBVIOUS
  <2>2. /\ k = 1 => calls[k].out = Row(t, t.nx)
        /\ k = 2 => calls[k].out = Row(t, 1)
        /\ k = 3 => calls[k].out = Column(t, t.ny)
        /\ k = 4 => calls[k].out = Column(t, 1)
    BY HaloCallsAre
  <2> HIDE DEF t, calls
  <2>3. \A i \in 1..t.nx : ToSet(Row(t, i)) \subseteq Interior(t)
    <3> SUFFICES ASSUME NEW i \in 1..t.nx, NEW place \in ToSet(Row(t, i)) PROVE place \in Interior(t)
      OBVIOUS
    <3>1. /\ DOMAIN Row(t, i) = 1..t.ny /\ \A m \in 1..t.ny : Row(t, i)[m] = <<i, m>>
      BY <1>2, RowIs
    <3>2. PICK m \in 1..t.ny : place = <<i, m>>
      BY <3>1 DEF ToSet
    <3> QED BY <3>2 DEF Interior
  <2>4. \A i \in 1..t.ny : ToSet(Column(t, i)) \subseteq Interior(t)
    <3> SUFFICES ASSUME NEW i \in 1..t.ny, NEW place \in ToSet(Column(t, i)) PROVE place \in Interior(t)
      OBVIOUS
    <3>1. /\ DOMAIN Column(t, i) = 1..t.nx /\ \A m \in 1..t.nx : Column(t, i)[m] = <<m, i>>
      BY <1>2, ColumnIs
    <3>2. PICK m \in 1..t.nx : place = <<m, i>>
      BY <3>1 DEF ToSet
    <3> QED BY <3>2 DEF Interior
  <2>5. 1 \in 1..t.nx /\ t.nx \in 1..t.nx /\ 1 \in 1..t.ny /\ t.ny \in 1..t.ny
    BY <1>2
  <2> QED BY <2>1, <2>2, <2>3, <2>4, <2>5
<1> HIDE DEF t, calls, own
<1>6. Interior(t) \subseteq LocalCells(t)
  <2>1. 1..t.nx \subseteq 0..(t.nx + 1) /\ 1..t.ny \subseteq 0..(t.ny + 1)
    BY <1>2
  <2> QED BY <2>1 DEF Interior, LocalCells
<1>7. Refreshed(own) \subseteq LocalCells(t) \ Interior(t)
  <2> SUFFICES ASSUME NEW place \in Refreshed(own) PROVE place \in LocalCells(t) \ Interior(t)
    OBVIOUS
  <2>1. PICK c \in ToSet(own.calls) : place \in ToSet(c.in)
    BY DEF Refreshed
  <2>2. PICK k \in 1..4 : c = calls[k]
    BY <1>1, <1>3 DEF ToSet
  <2>3. PICK m \in DOMAIN calls[k].in : place = calls[k].in[m]
    BY <2>1, <2>2 DEF ToSet
  <2> QED BY <1>4, <2>3
<1>8. \A k, l \in 1..4 : \A m \in DOMAIN calls[k].in, i \in DOMAIN calls[l].in :
        calls[k].in[m] = calls[l].in[i] => k = l /\ m = i
  <2> SUFFICES ASSUME NEW k \in 1..4, NEW l \in 1..4, NEW m \in DOMAIN calls[k].in, NEW i \in DOMAIN calls[l].in,
                      calls[k].in[m] = calls[l].in[i]
               PROVE  k = l /\ m = i
    OBVIOUS
  <2> DEFINE x == calls[k].in[m][1]
             y == calls[k].in[m][2]
  <2>1. /\ k = IF x = 0 THEN 1 ELSE IF x = t.nx + 1 THEN 2 ELSE IF y = 0 THEN 3 ELSE 4
        /\ m = IF x = 0 \/ x = t.nx + 1 THEN y ELSE x
    BY <1>4
  <2>2. /\ l = IF x = 0 THEN 1 ELSE IF x = t.nx + 1 THEN 2 ELSE IF y = 0 THEN 3 ELSE 4
        /\ i = IF x = 0 \/ x = t.nx + 1 THEN y ELSE x
    BY <1>4
  <2> HIDE DEF x, y
  <2> QED BY <2>1, <2>2
<1>9. FillsOnce(own)
  BY <1>1, <1>3, <1>5, <1>6, <1>7, <1>8 DEF FillsOnce
<1> QED BY <1>9 DEF own

LEMMA HaloSameNames ==
  ASSUME NEW p \in Problems, p.kind = "halo"
  PROVE  SameNames(p, Plan[p])
<1> DEFINE plan == Plan[p]
           calls(r) == HaloCalls(p.n, p.size, r)
<1>1. /\ p.n \in Nat /\ p.size \in Nat \ {0} /\ Dims(p.size)[1] <= p.n
      /\ RanksOf(p) = 0..(p.size - 1)
      /\ \A r \in RanksOf(p) : plan[r].calls = calls(r)
  BY HaloProblem
<1>2. \A r \in RanksOf(p) : plan[r].global = HaloNames(p.n, p.size, r)
  BY HaloView
<1> SUFFICES ASSUME NEW ch \in ChannelsOf(p), ch[2] # ProcNull,
                    NEW i \in SendsOn(plan, ch), NEW j \in TakesOn(plan, ch), NEW m \in DOMAIN plan[ch[1]].calls[i].out
             PROVE  plan[ch[1]].global[plan[ch[1]].calls[i].out[m]] = plan[ch[2]].global[plan[ch[2]].calls[j].in[m]]
  BY DEF SameNames
<1> HIDE DEF plan
<1>3. PICK r \in RanksOf(p), k \in 1..4 : ch = <<r, calls(r)[k].to, k - 1>>
  BY HaloChannel
<1> DEFINE to == calls(r)[k].to
<1>4. ch[1] = r /\ ch[2] = to /\ ch[3] = k - 1
  BY <1>3
<1>5. Meets(p.n, p.size, r, k)
  BY <1>1, <1>4, CallsMeet
<1>6. to \in RanksOf(p)
  BY <1>1, <1>5 DEF Meets
<1>7. i = k
  <2>1. i \in 1..4 /\ calls(r)[i].tag = k - 1
    BY <1>1, <1>4, HaloCallsAre DEF SendsOn
  <2>2. calls(r)[i].tag = i - 1
    BY <2>1, HaloCallsAre
  <2> QED BY <2>1, <2>2
<1>8. j = k
  <2>0. DOMAIN calls(to) = 1..4 /\ \A l \in 1..4 : calls(to)[l].tag = l - 1
    BY HaloCallsAre
  <2>1. j \in 1..4 /\ calls(to)[j].tag = k - 1
    <3> HIDE DEF calls, to
    <3> QED BY <1>1, <1>4, <1>6, <2>0 DEF TakesOn
  <2>2. calls(to)[j].tag = j - 1
    BY <2>0, <2>1
  <2> QED BY <2>1, <2>2
<1>9. m \in DOMAIN calls(r)[k].out
  BY <1>1, <1>4, <1>7
<1>10. HaloNames(p.n, p.size, r)[calls(r)[k].out[m]] = HaloNames(p.n, p.size, to)[calls(to)[k].in[m]]
  BY <1>5, <1>9 DEF Meets
<1> HIDE DEF calls, to
<1> QED BY <1>1, <1>2, <1>4, <1>6, <1>7, <1>8, <1>10

(* A cell beside the tile is an owned one, a refreshed one or a wall.      *)
LEMMA HaloReads ==
  ASSUME NEW p \in Problems, p.kind = "halo", NEW r \in RanksOf(p),
         NEW i \in 1..(TileOf(p.n, p.size, r).nx), NEW j \in 1..(TileOf(p.n, p.size, r).ny), NEW m \in 1..4
  PROVE  LET own == Plan[p][r] IN
         Stencil(<<i, j>>)[m] \in DOMAIN own.reads \cup Refreshed(own) \cup Walls(p, own)
<1> DEFINE own == Plan[p][r]
           t == TileOf(p.n, p.size, r)
           c == CartCoords(p.size, r)
           d == Dims(p.size)
           calls == HaloCalls(p.n, p.size, r)
           names == HaloNames(p.n, p.size, r)
           start == SerialStart(p.n, T_WEST, T_SOUTH)
           here == SetBoundary(p.n, p.size, r)
<1>1. /\ TileFits(p.n, p.size, r)
      /\ own.calls = calls /\ own.global = names /\ own.start = here
      /\ DOMAIN own.start = LocalCells(t) /\ DOMAIN own.reads = Interior(t)
  BY HaloView
<1>2. /\ t.nx \in Nat \ {0} /\ t.gi0 \in Nat \ {0} /\ t.gi0 + t.nx <= p.n + 1
      /\ t.ny \in Nat \ {0} /\ t.gj0 \in Nat \ {0} /\ t.gj0 + t.ny <= p.n + 1
      /\ c[1] = 0 => t.gi0 = 1
      /\ c[2] = 0 => t.gj0 = 1
      /\ c[1] = d[1] - 1 => t.gi0 + t.nx = p.n + 1
      /\ c[2] = d[2] - 1 => t.gj0 + t.ny = p.n + 1
  BY <1>1 DEF TileFits
<1>3. /\ Up(p.size, r) = ProcNull => c[1] = 0
      /\ Down(p.size, r) = ProcNull => c[1] = d[1] - 1
      /\ Left(p.size, r) = ProcNull => c[2] = 0
      /\ Right(p.size, r) = ProcNull => c[2] = d[2] - 1
  BY HaloProblem, NextTo
<1>4. /\ calls[1].from = Up(p.size, r) /\ calls[1].in = Row(t, 0)
      /\ calls[2].from = Down(p.size, r) /\ calls[2].in = Row(t, t.nx + 1)
      /\ calls[3].from = Left(p.size, r) /\ calls[3].in = Column(t, 0)
      /\ calls[4].from = Right(p.size, r) /\ calls[4].in = Column(t, t.ny + 1)
      /\ DOMAIN calls = 1..4
  BY HaloCallsAre
<1>5. i \in 1..t.nx /\ j \in 1..t.ny /\ p.n \in Nat
  BY HaloProblem
<1>6. /\ \A x \in 0..(t.nx + 1), y \in 0..(t.ny + 1) : <<x, y>> \in LocalCells(t)
      /\ \A x \in 0..(t.nx + 1), y \in 0..(t.ny + 1) : names[<<x, y>>] = <<t.gi0 + x - 1, t.gj0 + y - 1>>
  <2> SUFFICES ASSUME NEW x \in 0..(t.nx + 1), NEW y \in 0..(t.ny + 1)
               PROVE  <<x, y>> \in LocalCells(t) /\ names[<<x, y>>] = <<t.gi0 + x - 1, t.gj0 + y - 1>>
    OBVIOUS
  <2> QED BY <1>1, NamesAre
<1>7. \A x \in 0..(t.nx + 1), y \in 0..(t.ny + 1) : here[<<x, y>>] =
        IF y = t.ny + 1 /\ c[2] = d[2] - 1 THEN T_COLD
        ELSE IF y = 0 /\ c[2] = 0 THEN T_SOUTH
        ELSE IF x = t.nx + 1 /\ c[1] = d[1] - 1 THEN T_COLD
        ELSE IF x = 0 /\ c[1] = 0 THEN T_WEST ELSE T_COLD
  BY <1>6 DEF SetBoundary
<1>8. /\ \A s \in 0..Iterations, x \in 0..(p.n + 1), y \in 0..(p.n + 1) :
           ~(x \in 1..p.n /\ y \in 1..p.n) => Serial[p][s][<<x, y>>] = start[<<x, y>>]
  BY SerialFieldIs
<1>9. \A x \in 0..(p.n + 1), y \in 0..(p.n + 1) :
        start[<<x, y>>] = IF x = 0 THEN T_WEST ELSE IF y = 0 THEN T_SOUTH ELSE T_COLD
  BY DEF SerialStart
<1>10. Stencil(<<i, j>>)[m] \in {<<i - 1, j>>, <<i + 1, j>>, <<i, j - 1>>, <<i, j + 1>>}
  <2>1. m = 1 \/ m = 2 \/ m = 3 \/ m = 4
    OBVIOUS
  <2> QED BY <2>1, StencilIs
<1> HIDE DEF own, t, c, d, calls, names, start, here
<1>11. ASSUME NEW k \in 1..4, calls[k].from # ProcNull, NEW q \in DOMAIN calls[k].in
       PROVE  calls[k].in[q] \in Refreshed(own)
  <2>1. calls[k] \in ToSet(own.calls) /\ calls[k].in[q] \in ToSet(calls[k].in)
    BY <1>1, <1>4 DEF ToSet
  <2> QED BY <1>11, <2>1 DEF Refreshed
<1>12. ASSUME NEW x \in 0..(t.nx + 1), NEW y \in 0..(t.ny + 1),
              NEW a \in 0..(p.n + 1), NEW b \in 0..(p.n + 1), names[<<x, y>>] = <<a, b>>,
              ~(a \in 1..p.n /\ b \in 1..p.n), here[<<x, y>>] = start[<<a, b>>]
       PROVE  <<x, y>> \in Refreshed(own) \cup Walls(p, own)
  <2>1. \A s \in 0..Iterations : own.start[<<x, y>>] = Serial[p][s][own.global[<<x, y>>]]
    BY <1>1, <1>8, <1>12
  <2>2. <<x, y>> \in DOMAIN own.start
    BY <1>1, <1>6
  <2>3. own.global[<<x, y>>] \notin (1..p.n) \X (1..p.n)
    BY <1>1, <1>12
  <2> QED BY <2>1, <2>2, <2>3 DEF Walls
<1> DEFINE Found(x, y) == <<x, y>> \in Interior(t) \cup Refreshed(own) \cup Walls(p, own)
<1>13. \A x \in 1..t.nx, y \in 1..t.ny : Found(x, y)
  BY DEF Interior
<1>14. \A x : /\ DOMAIN Row(t, x) = 1..t.ny /\ \A k \in 1..t.ny : Row(t, x)[k] = <<x, k>>
              /\ DOMAIN Column(t, x) = 1..t.nx /\ \A k \in 1..t.nx : Column(t, x)[k] = <<k, x>>
  BY <1>2, RowIs, ColumnIs
<1>15. Found(0, j)
  <2>1. CASE Up(p.size, r) # ProcNull
    <3>1. 1 \in 1..4 /\ calls[1].from # ProcNull /\ calls[1].in = Row(t, 0)
      BY <1>4, <2>1
    <3>2. j \in DOMAIN Row(t, 0) /\ Row(t, 0)[j] = <<0, j>>
      BY <1>5, <1>14
    <3>3. Row(t, 0)[j] \in Refreshed(own)
      BY <1>11, <3>1, <3>2
    <3> QED BY <3>2, <3>3
  <2>2. CASE Up(p.size, r) = ProcNull
    <3>1. c[1] = 0 /\ t.gi0 = 1
      BY <1>2, <1>3, <2>2
    <3> DEFINE b == t.gj0 + j - 1
    <3>2. 0 \in 0..(t.nx + 1) /\ j \in 0..(t.ny + 1) /\ j # t.ny + 1 /\ j # 0 /\ 0 # t.nx + 1
      BY <1>2, <1>5
    <3>3. b \in 0..(p.n + 1) /\ 0 \in 0..(p.n + 1) /\ t.gi0 + 0 - 1 = 0
      BY <1>2, <1>5, <3>1
    <3>4. names[<<0, j>>] = <<t.gi0 + 0 - 1, b>> /\ here[<<0, j>>] = T_WEST
      BY <1>6, <1>7, <3>1, <3>2
    <3> HIDE DEF b
    <3>5. names[<<0, j>>] = <<0, b>> /\ start[<<0, b>>] = T_WEST
      BY <1>9, <3>3, <3>4
    <3> QED BY <1>12, <3>2, <3>3, <3>4, <3>5
  <2> QED BY <2>1, <2>2
<1>16. Found(t.nx + 1, j)
  <2>1. CASE Down(p.size, r) # ProcNull
    <3>1. 2 \in 1..4 /\ calls[2].from # ProcNull /\ calls[2].in = Row(t, t.nx + 1)
      BY <1>4, <2>1
    <3>2. j \in DOMAIN Row(t, t.nx + 1) /\ Row(t, t.nx + 1)[j] = <<t.nx + 1, j>>
      BY <1>5, <1>14
    <3>3. Row(t, t.nx + 1)[j] \in Refreshed(own)
      BY <1>11, <3>1, <3>2
    <3> QED BY <3>2, <3>3
  <2>2. CASE Down(p.size, r) = ProcNull
    <3>1. c[1] = d[1] - 1 /\ t.gi0 + t.nx = p.n + 1
      BY <1>2, <1>3, <2>2
    <3> DEFINE b == t.gj0 + j - 1
    <3>2. t.nx + 1 \in 0..(t.nx + 1) /\ j \in 0..(t.ny + 1) /\ j # t.ny + 1 /\ j # 0
      BY <1>2, <1>5
    <3>3. b \in 0..(p.n + 1) /\ b # 0 /\ p.n + 1 \in 0..(p.n + 1) /\ t.gi0 + (t.nx + 1) - 1 = p.n + 1
      BY <1>2, <1>5, <3>1
    <3>4. names[<<t.nx + 1, j>>] = <<t.gi0 + (t.nx + 1) - 1, b>> /\ here[<<t.nx + 1, j>>] = T_COLD
      BY <1>6, <1>7, <3>1, <3>2
    <3> HIDE DEF b
    <3>5. names[<<t.nx + 1, j>>] = <<p.n + 1, b>> /\ start[<<p.n + 1, b>>] = T_COLD /\ p.n + 1 \notin 1..p.n
      BY <1>5, <1>9, <3>3, <3>4
    <3> QED BY <1>12, <3>2, <3>3, <3>4, <3>5
  <2> QED BY <2>1, <2>2
<1>17. Found(i, 0)
  <2>1. CASE Left(p.size, r) # ProcNull
    <3>1. 3 \in 1..4 /\ calls[3].from # ProcNull /\ calls[3].in = Column(t, 0)
      BY <1>4, <2>1
    <3>2. i \in DOMAIN Column(t, 0) /\ Column(t, 0)[i] = <<i, 0>>
      BY <1>5, <1>14
    <3>3. Column(t, 0)[i] \in Refreshed(own)
      BY <1>11, <3>1, <3>2
    <3> QED BY <3>2, <3>3
  <2>2. CASE Left(p.size, r) = ProcNull
    <3>1. c[2] = 0 /\ t.gj0 = 1
      BY <1>2, <1>3, <2>2
    <3> DEFINE a == t.gi0 + i - 1
    <3>2. i \in 0..(t.nx + 1) /\ 0 \in 0..(t.ny + 1) /\ 0 # t.ny + 1
      BY <1>2, <1>5
    <3>3. a \in 0..(p.n + 1) /\ a # 0 /\ 0 \in 0..(p.n + 1) /\ t.gj0 + 0 - 1 = 0
      BY <1>2, <1>5, <3>1
    <3>4. names[<<i, 0>>] = <<a, t.gj0 + 0 - 1>> /\ here[<<i, 0>>] = T_SOUTH
      BY <1>6, <1>7, <3>1, <3>2
    <3> HIDE DEF a
    <3>5. names[<<i, 0>>] = <<a, 0>> /\ start[<<a, 0>>] = T_SOUTH
      BY <1>9, <3>3, <3>4
    <3> QED BY <1>12, <3>2, <3>3, <3>4, <3>5
  <2> QED BY <2>1, <2>2
<1>18. Found(i, t.ny + 1)
  <2>1. CASE Right(p.size, r) # ProcNull
    <3>1. 4 \in 1..4 /\ calls[4].from # ProcNull /\ calls[4].in = Column(t, t.ny + 1)
      BY <1>4, <2>1
    <3>2. i \in DOMAIN Column(t, t.ny + 1) /\ Column(t, t.ny + 1)[i] = <<i, t.ny + 1>>
      BY <1>5, <1>14
    <3>3. Column(t, t.ny + 1)[i] \in Refreshed(own)
      BY <1>11, <3>1, <3>2
    <3> QED BY <3>2, <3>3
  <2>2. CASE Right(p.size, r) = ProcNull
    <3>1. c[2] = d[2] - 1 /\ t.gj0 + t.ny = p.n + 1
      BY <1>2, <1>3, <2>2
    <3> DEFINE a == t.gi0 + i - 1
    <3>2. i \in 0..(t.nx + 1) /\ t.ny + 1 \in 0..(t.ny + 1)
      BY <1>2, <1>5
    <3>3. a \in 0..(p.n + 1) /\ a # 0 /\ p.n + 1 \in 0..(p.n + 1) /\ t.gj0 + (t.ny + 1) - 1 = p.n + 1
      BY <1>2, <1>5, <3>1
    <3>4. names[<<i, t.ny + 1>>] = <<a, t.gj0 + (t.ny + 1) - 1>> /\ here[<<i, t.ny + 1>>] = T_COLD
      BY <1>6, <1>7, <3>1, <3>2
    <3> HIDE DEF a
    <3>5. names[<<i, t.ny + 1>>] = <<a, p.n + 1>> /\ start[<<a, p.n + 1>>] = T_COLD /\ p.n + 1 \notin 1..p.n /\ p.n + 1 # 0
      BY <1>5, <1>9, <3>3, <3>4
    <3> QED BY <1>12, <3>2, <3>3, <3>4, <3>5
  <2> QED BY <2>1, <2>2
<1>19. Found(i - 1, j) /\ Found(i + 1, j)
  <2>1. i - 1 = 0 \/ i - 1 \in 1..t.nx
    BY <1>2, <1>5
  <2>2. i + 1 = t.nx + 1 \/ i + 1 \in 1..t.nx
    BY <1>2, <1>5
  <2> HIDE DEF Found
  <2> QED BY <1>5, <1>13, <1>15, <1>16, <2>1, <2>2
<1>20. Found(i, j - 1) /\ Found(i, j + 1)
  <2>1. j - 1 = 0 \/ j - 1 \in 1..t.ny
    BY <1>2, <1>5
  <2>2. j + 1 = t.ny + 1 \/ j + 1 \in 1..t.ny
    BY <1>2, <1>5
  <2> HIDE DEF Found
  <2> QED BY <1>5, <1>13, <1>17, <1>18, <2>1, <2>2
<1>21. Stencil(<<i, j>>)[m] \in DOMAIN own.reads \cup Refreshed(own) \cup Walls(p, own)
  BY <1>1, <1>10, <1>19, <1>20
<1> QED BY <1>21 DEF own

(* Every rank sweeps its tile as the serial solver sweeps those cells.     *)
LEMMA HaloSweeps ==
  ASSUME NEW p \in Problems, p.kind = "halo", NEW r \in RanksOf(p)
  PROVE  SweepsSerially(p, Plan[p][r])
<1> DEFINE own == Plan[p][r]
           t == TileOf(p.n, p.size, r)
           names == HaloNames(p.n, p.size, r)
           start == SerialStart(p.n, T_WEST, T_SOUTH)
           here == SetBoundary(p.n, p.size, r)
<1>1. /\ TileFits(p.n, p.size, r) /\ own.global = names /\ own.start = here /\ DOMAIN own.reads = Interior(t)
      /\ \A cell \in Interior(t) : own.reads[cell] = Stencil(cell)
  BY HaloView
<1>2. /\ t.nx \in Nat \ {0} /\ t.gi0 \in Nat \ {0} /\ t.gi0 + t.nx <= p.n + 1
      /\ t.ny \in Nat \ {0} /\ t.gj0 \in Nat \ {0} /\ t.gj0 + t.ny <= p.n + 1
  BY <1>1 DEF TileFits
<1>3. /\ Serial[p][0] = start
      /\ \A s \in 0..(Iterations - 1), a \in 1..p.n, b \in 1..p.n :
           Serial[p][s + 1][<<a, b>>] = Mean(Serial[p][s], Stencil(<<a, b>>))
      /\ p.n \in Nat
  BY SerialFieldIs, HaloProblem
<1> SUFFICES ASSUME NEW place \in Interior(t)
             PROVE  LET reads == own.reads[place] IN
                    /\ own.start[place] = Serial[p][0][own.global[place]]
                    /\ \A s \in 0..(Iterations - 1) :
                         Serial[p][s + 1][own.global[place]] =
                           MeanOf([q \in DOMAIN reads |-> Serial[p][s][own.global[reads[q]]]])
                    /\ \A q \in DOMAIN reads : reads[q] \in DOMAIN own.reads \cup Refreshed(own) \cup Walls(p, own)
  BY <1>1 DEF SweepsSerially
<1>4. PICK i \in 1..t.nx, j \in 1..t.ny : place = <<i, j>>
  BY DEF Interior
<1> DEFINE a == t.gi0 + i - 1
           b == t.gj0 + j - 1
<1>5. /\ i \in 0..(t.nx + 1) /\ j \in 0..(t.ny + 1) /\ i # 0 /\ j # 0 /\ i # t.nx + 1 /\ j # t.ny + 1
      /\ a \in 1..p.n /\ b \in 1..p.n
  <2> HIDE DEF t
  <2>1. i \in Nat /\ 1 <= i /\ i <= t.nx /\ j \in Nat /\ 1 <= j /\ j <= t.ny
    BY <1>2
  <2>2. a \in Nat /\ 1 <= a /\ a <= p.n
    BY <1>2, <1>3, <2>1
  <2>3. b \in Nat /\ 1 <= b /\ b <= p.n
    BY <1>2, <1>3, <2>1
  <2> HIDE DEF a, b
  <2> QED BY <1>2, <1>3, <2>1, <2>2, <2>3
<1>6. names[<<i, j>>] = <<a, b>> /\ <<i, j>> \in LocalCells(t)
  BY <1>1, <1>5, NamesAre
<1>7. here[<<i, j>>] = T_COLD /\ start[<<a, b>>] = T_COLD
  <2>1. here[<<i, j>>] = T_COLD
    BY <1>5, <1>6 DEF SetBoundary
  <2>2. start[<<a, b>>] = T_COLD
    <3>1. a # 0 /\ b # 0 /\ a \in 0..(p.n + 1) /\ b \in 0..(p.n + 1)
      BY <1>3, <1>5
    <3> HIDE DEF a, b
    <3> QED BY <3>1 DEF SerialStart
  <2> QED BY <2>1, <2>2
<1>8. \A m \in 1..4 : names[Stencil(<<i, j>>)[m]] = Stencil(<<a, b>>)[m]
  BY <1>1, StencilNames
<1>9. DOMAIN Stencil(<<i, j>>) = 1..4 /\ DOMAIN Stencil(<<a, b>>) = 1..4
  BY StencilIs
<1>10. \A m \in 1..4 : Stencil(<<i, j>>)[m] \in DOMAIN own.reads \cup Refreshed(own) \cup Walls(p, own)
  BY HaloReads
<1>11. own.reads[place] = Stencil(<<i, j>>)
  BY <1>1, <1>4
<1> HIDE DEF own, t, names, start, here, a, b
<1>12. ASSUME NEW s \in 0..(Iterations - 1)
       PROVE  Serial[p][s + 1][names[<<i, j>>]] =
                MeanOf([q \in DOMAIN Stencil(<<i, j>>) |-> Serial[p][s][names[Stencil(<<i, j>>)[q]]]])
  <2>1. [q \in DOMAIN Stencil(<<i, j>>) |-> Serial[p][s][names[Stencil(<<i, j>>)[q]]]]
          = [q \in DOMAIN Stencil(<<a, b>>) |-> Serial[p][s][Stencil(<<a, b>>)[q]]]
    BY <1>8, <1>9
  <2>2. Serial[p][s + 1][<<a, b>>] = Mean(Serial[p][s], Stencil(<<a, b>>))
    BY <1>3, <1>5
  <2> QED BY <1>6, <2>1, <2>2 DEF Mean
<1> QED BY <1>1, <1>3, <1>4, <1>6, <1>7, <1>9, <1>10, <1>11, <1>12

-----------------------------------------------------------------------------
(* The plans of the structured solver (halo/main.cpp: block_1d, the        *)
(* Cartesian shifts, set_boundary, the four MPI_Sendrecv and jacobi_sweep) *)
(* fit together, for every extent and every number of ranks that leaves no *)
(* tile empty: what the invariants CallsPair and ViewsMirror say of them.  *)
THEOREM HaloFits ==
  ASSUME NEW p \in Problems, p.kind = "halo"
  PROVE  Matched(p, Plan[p]) /\ Mirrored[p]
<1>1. \A r \in RanksOf(p) : SweepsSerially(p, Plan[p][r]) /\ FillsOnce(Plan[p][r])
  BY HaloSweeps, HaloFillsOnce
<1>2. Mirrored[p]
  BY <1>1, HaloSameNames DEF Mirrored
<1> QED BY <1>2, HaloMatches

-----------------------------------------------------------------------------
(* Ascending lists every element of a finite set of integers once: as many *)
(* elements are below one as it has before it in the list.                 *)
LEMMA AscendingLists ==
  ASSUME NEW S \in SUBSET Int, IsFiniteSet(S)
  PROVE  /\ Cardinality(S) \in Nat
         /\ Ascending(S) \in [1..Cardinality(S) -> S]
         /\ \A i, j \in 1..Cardinality(S) : Ascending(S)[i] = Ascending(S)[j] => i = j
         /\ \A x \in S : \E i \in 1..Cardinality(S) : Ascending(S)[i] = x
<1> DEFINE n == Cardinality(S)
           Below(x) == {y \in S : y < x}
           f == [x \in S |-> Cardinality(Below(x))]
           s == Ascending(S)
<1>1. n \in Nat
  BY FS_CardinalityType
<1>2. ASSUME NEW x \in S
      PROVE  /\ IsFiniteSet(Below(x)) /\ f[x] = Cardinality(Below(x)) /\ f[x] \in 0..(n-1)
  <2>1. Below(x) \in SUBSET S /\ x \notin Below(x)
    OBVIOUS
  <2> HIDE DEF Below
  <2>2. IsFiniteSet(Below(x)) /\ Cardinality(Below(x)) <= n /\ (n = Cardinality(Below(x)) => S = Below(x))
    BY <2>1, FS_Subset
  <2>3. Cardinality(Below(x)) \in Nat /\ Cardinality(Below(x)) # n
    BY <2>1, <2>2, FS_CardinalityType
  <2> QED BY <1>1, <2>2, <2>3
<1>3. ASSUME NEW x \in S, NEW y \in S, x < y
      PROVE  f[x] < f[y]
  <2>0. x \in Int /\ y \in Int /\ \A z \in S : z \in Int
    OBVIOUS
  <2>1. Below(x) \in SUBSET Below(y) /\ x \in Below(y) /\ x \notin Below(x)
    <3>1. \A z \in Below(x) : z \in Below(y)
      BY <1>3, <2>0
    <3>2. x \in Below(y) /\ x \notin Below(x)
      BY <1>3, <2>0
    <3> HIDE DEF Below
    <3> QED BY <3>1, <3>2
  <2> HIDE DEF Below, f
  <2>2. f[x] <= f[y] /\ f[x] # f[y]
    BY <1>2, <2>1, FS_Subset
  <2> QED BY <1>2, <2>2
<1> HIDE DEF f
<1>4. \A x, y \in S : f[x] = f[y] => x = y
  <2>1. ASSUME NEW x \in S, NEW y \in S, f[x] = f[y], x # y PROVE FALSE
    <3>1. x \in Int /\ y \in Int
      OBVIOUS
    <3>2. x < y \/ y < x
      BY <2>1, <3>1
    <3>3. f[x] < f[y] \/ f[y] < f[x]
      BY <1>3, <3>2
    <3>4. f[x] \in Int
      <4>1. f[x] \in 0..(n-1)
        BY <1>2
      <4> HIDE DEF n
      <4> QED BY <1>1, <4>1
    <3> QED BY <2>1, <3>3, <3>4
  <2> QED BY <2>1
<1>5. \A k \in 0..(n-1) : \E x \in S : f[x] = k
  <2>1. f \in Injection(S, 0..(n-1))
    <3>1. f \in [S -> 0..(n-1)]
      <4>1. f = [x \in S |-> f[x]]
        BY DEF f
      <4> QED BY <1>2, <4>1
    <3> QED BY <1>4, <3>1 DEF Injection, IsInjective
  <2>2. IsFiniteSet(0..(n-1)) /\ Cardinality(0..(n-1)) = n
    BY <1>1, FS_Interval
  <2>3. f \in Surjection(S, 0..(n-1))
    BY <2>1, <2>2, FS_Injection
  <2> QED BY <2>3 DEF Surjection
<1>6. ASSUME NEW k \in 1..n
      PROVE  s[k] \in S /\ f[s[k]] = k - 1
  <2>1. k - 1 \in 0..(n-1)
    BY <1>1
  <2>2. \E x \in S : Cardinality(Below(x)) = k - 1
    BY <1>2, <1>5, <2>1
  <2>3. s[k] = CHOOSE x \in S : Cardinality(Below(x)) = k - 1
    BY DEF Ascending
  <2> HIDE DEF Below, s
  <2> QED BY <1>2, <2>2, <2>3
<1>7. DOMAIN s = 1..n /\ s = [k \in 1..n |-> s[k]]
  <2> DEFINE value(k) == CHOOSE x \in S : Cardinality(Below(x)) = k - 1
  <2>1. s = [k \in 1..n |-> value(k)]
    BY DEF Ascending
  <2> HIDE DEF s, value, n
  <2> QED BY <2>1
<1>8. s \in [1..n -> S]
  <2>1. s = [k \in 1..n |-> s[k]]
    BY <1>7
  <2> HIDE DEF s
  <2> QED BY <1>6, <2>1
<1>9. \A i, j \in 1..n : s[i] = s[j] => i = j
  <2>1. \A i, j \in 1..n : i - 1 = j - 1 => i = j
    BY <1>1
  <2> HIDE DEF s
  <2> QED BY <1>6, <2>1
<1>10. ASSUME NEW x \in S PROVE \E i \in 1..n : s[i] = x
  <2>0. f[x] \in 0..(n-1)
    BY <1>2
  <2>1. f[x] + 1 \in 1..n /\ (f[x] + 1) - 1 = f[x]
    BY ONLY <1>1, <2>0
  <2>2. s[f[x] + 1] \in S /\ f[s[f[x] + 1]] = f[x]
    BY <1>6, <2>1
  <2> HIDE DEF s
  <2>3. s[f[x] + 1] = x
    BY <1>4, <2>2
  <2> QED BY <2>1, <2>3
<1> QED BY <1>1, <1>8, <1>9, <1>10

(* The lists of a flattened sequence lie in it one after another.          *)
RunOf(s, part, at) ==
  /\ at + Len(part) <= Len(s)
  /\ \A k \in 1..Len(part) : s[at + k] = part[k]
NoRepeats(s) == \A i, j \in 1..Len(s) : s[i] = s[j] => i = j
Apart(s, t) == \A i \in 1..Len(s), j \in 1..Len(t) : s[i] # t[j]
Laid(s, seqs, n) ==
  /\ s \in Seq(Int) /\ NoRepeats(s)
  /\ \A i \in 1..n : \E at \in Nat : RunOf(s, seqs[i], at)
  /\ \A m \in 1..Len(s) : \E i \in 1..n : \E k \in 1..Len(seqs[i]) : s[m] = seqs[i][k]

LEMMA JoinedIs ==
  ASSUME NEW s \in Seq(Int), NEW t \in Seq(Int), NoRepeats(s), NoRepeats(t), Apart(s, t)
  PROVE  /\ s \o t \in Seq(Int) /\ Len(s \o t) = Len(s) + Len(t) /\ Len(s) \in Nat /\ Len(t) \in Nat
         /\ NoRepeats(s \o t)
         /\ RunOf(s \o t, s, 0) /\ RunOf(s \o t, t, Len(s))
         /\ \A m \in 1..Len(s \o t) :
              (m \in 1..Len(s) /\ (s \o t)[m] = s[m]) \/
              (m - Len(s) \in 1..Len(t) /\ (s \o t)[m] = t[m - Len(s)])
<1> DEFINE j == s \o t
<1>1. /\ j \in Seq(Int) /\ Len(j) = Len(s) + Len(t) /\ Len(s) \in Nat /\ Len(t) \in Nat
      /\ \A m \in 1..(Len(s) + Len(t)) : j[m] = IF m <= Len(s) THEN s[m] ELSE t[m - Len(s)]
  OBVIOUS
<1> HIDE DEF j
<1>2. \A m \in 1..Len(j) : \/ m \in 1..Len(s) /\ j[m] = s[m]
                           \/ m - Len(s) \in 1..Len(t) /\ j[m] = t[m - Len(s)]
  BY <1>1
<1>3. RunOf(j, s, 0) /\ RunOf(j, t, Len(s))
  <2>1. \A k \in 1..Len(s) : j[0 + k] = s[k]
    BY <1>1
  <2>2. \A k \in 1..Len(t) : j[Len(s) + k] = t[k]
    <3> TAKE k \in 1..Len(t)
    <3>1. Len(s) + k \in 1..(Len(s) + Len(t)) /\ ~(Len(s) + k <= Len(s)) /\ (Len(s) + k) - Len(s) = k
      BY <1>1
    <3> QED BY <1>1, <3>1
  <2> QED BY <1>1, <2>1, <2>2 DEF RunOf
<1>4. NoRepeats(j)
  <2> SUFFICES ASSUME NEW a \in 1..Len(j), NEW b \in 1..Len(j), j[a] = j[b] PROVE a = b
    BY DEF NoRepeats
  <2>1. a \in Int /\ b \in Int
    OBVIOUS
  <2>2. CASE a \in 1..Len(s) /\ j[a] = s[a] /\ b \in 1..Len(s) /\ j[b] = s[b]
    BY <2>2 DEF NoRepeats
  <2>3. CASE a - Len(s) \in 1..Len(t) /\ j[a] = t[a - Len(s)] /\ b - Len(s) \in 1..Len(t) /\ j[b] = t[b - Len(s)]
    <3>1. a - Len(s) = b - Len(s)
      BY <2>3 DEF NoRepeats
    <3> QED BY <1>1, <2>1, <3>1
  <2>4. CASE a \in 1..Len(s) /\ j[a] = s[a] /\ b - Len(s) \in 1..Len(t) /\ j[b] = t[b - Len(s)]
    BY <2>4 DEF Apart
  <2>5. CASE a - Len(s) \in 1..Len(t) /\ j[a] = t[a - Len(s)] /\ b \in 1..Len(s) /\ j[b] = s[b]
    BY <2>5 DEF Apart
  <2> QED BY <1>2, <2>2, <2>3, <2>4, <2>5
<1> QED BY <1>1, <1>2, <1>3, <1>4 DEF j

LEMMA NextLaid ==
  ASSUME NEW s, NEW seqs, NEW n \in Nat, Laid(s, seqs, n),
         \A i \in 1..(n+1) : seqs[i] \in Seq(Int), NoRepeats(seqs[n+1]),
         \A i \in 1..n : Apart(seqs[i], seqs[n+1])
  PROVE  Laid(s \o seqs[n+1], seqs, n + 1)
<1> DEFINE t == seqs[n+1]
           j == s \o t
<1>1. s \in Seq(Int) /\ NoRepeats(s) /\ t \in Seq(Int) /\ NoRepeats(t)
  <2>1. n + 1 \in 1..(n+1)
    OBVIOUS
  <2> QED BY <2>1 DEF Laid
<1>2. Apart(s, t)
  <2> SUFFICES ASSUME NEW m \in 1..Len(s), NEW b \in 1..Len(t) PROVE s[m] # t[b]
    BY DEF Apart
  <2>1. PICK i \in 1..n : \E k \in 1..Len(seqs[i]) : s[m] = seqs[i][k]
    BY DEF Laid
  <2>2. Apart(seqs[i], t)
    OBVIOUS
  <2> HIDE DEF t
  <2> QED BY <2>1, <2>2 DEF Apart
<1>3. /\ j \in Seq(Int) /\ Len(j) = Len(s) + Len(t) /\ Len(s) \in Nat /\ Len(t) \in Nat
      /\ NoRepeats(j) /\ RunOf(j, s, 0) /\ RunOf(j, t, Len(s))
      /\ \A m \in 1..Len(j) : \/ m \in 1..Len(s) /\ j[m] = s[m]
                              \/ m - Len(s) \in 1..Len(t) /\ j[m] = t[m - Len(s)]
  BY <1>1, <1>2, JoinedIs
<1> HIDE DEF j
<1>4. ASSUME NEW i \in 1..(n+1) PROVE \E at \in Nat : RunOf(j, seqs[i], at)
  <2>1. CASE i = n + 1
    BY <1>3, <2>1
  <2>2. CASE i \in 1..n
    <3>1. PICK at \in Nat : RunOf(s, seqs[i], at)
      BY <2>2 DEF Laid
    <3> DEFINE part == seqs[i]
    <3>2. /\ Len(part) \in Nat /\ at + Len(part) <= Len(s)
          /\ \A k \in 1..Len(part) : s[at + k] = part[k]
      BY <3>1 DEF RunOf
    <3> HIDE DEF part
    <3>3. ASSUME NEW k \in 1..Len(part) PROVE j[at + k] = part[k]
      <4>1. at + k \in 1..Len(s)
        BY <1>3, <3>2, <3>3
      <4>2. j[0 + (at + k)] = s[at + k]
        BY <1>3, <4>1 DEF RunOf
      <4> QED BY <1>3, <3>2, <3>3, <4>1, <4>2
    <3>4. RunOf(j, part, at)
      BY <1>3, <3>2, <3>3 DEF RunOf
    <3> QED BY <3>4 DEF part
  <2> QED BY <2>1, <2>2
<1>5. ASSUME NEW m \in 1..Len(j) PROVE \E i \in 1..(n+1) : \E k \in 1..Len(seqs[i]) : j[m] = seqs[i][k]
  <2>1. CASE m \in 1..Len(s) /\ j[m] = s[m]
    <3>1. PICK i \in 1..n : \E k \in 1..Len(seqs[i]) : s[m] = seqs[i][k]
      BY <2>1 DEF Laid
    <3>2. i \in 1..(n+1)
      OBVIOUS
    <3> QED BY <2>1, <3>1, <3>2
  <2>2. CASE m - Len(s) \in 1..Len(t) /\ j[m] = t[m - Len(s)]
    <3>1. n + 1 \in 1..(n+1)
      OBVIOUS
    <3> QED BY <2>2, <3>1
  <2> QED BY <1>3, <2>1, <2>2
<1> HIDE DEF t
<1> QED BY <1>3, <1>4, <1>5 DEF Laid, j, t

Strung(g, seqs, n) == g = [i \in 1..n |-> IF i = 1 THEN seqs[i] ELSE g[i-1] \o seqs[i]]

LEMMA StrungExists ==
  ASSUME NEW seqs, NEW n \in Nat
  PROVE  \E g : Strung(g, seqs, n)
<1> DEFINE T == {k \in Nat : \E g : Strung(g, seqs, k)}
<1>1. 0 \in T
  <2> DEFINE g == [i \in 1..0 |-> << >>]
             h == [i \in 1..0 |-> IF i = 1 THEN seqs[i] ELSE g[i-1] \o seqs[i]]
  <2>1. g = h
    OBVIOUS
  <2> HIDE DEF g
  <2>2. Strung(g, seqs, 0)
    BY <2>1 DEF Strung
  <2> QED BY <2>2
<1>2. ASSUME NEW k \in Nat, k \in T PROVE k + 1 \in T
  <2>1. PICK g : Strung(g, seqs, k)
    BY <1>2
  <2> DEFINE last == IF k = 0 THEN seqs[1] ELSE g[k] \o seqs[k+1]
             h == [i \in 1..(k+1) |-> IF i = k + 1 THEN last ELSE g[i]]
             e == [i \in 1..(k+1) |-> IF i = 1 THEN seqs[i] ELSE h[i-1] \o seqs[i]]
  <2>2. \A i \in 1..k : g[i] = IF i = 1 THEN seqs[i] ELSE g[i-1] \o seqs[i]
    BY <2>1 DEF Strung
  <2>3. \A i \in 1..k : h[i] = g[i]
    <3> HIDE DEF last
    <3> QED OBVIOUS
  <2>4. h[k+1] = last
    <3> HIDE DEF last
    <3> QED OBVIOUS
  <2>5. ASSUME NEW i \in 1..(k+1) PROVE h[i] = IF i = 1 THEN seqs[i] ELSE h[i-1] \o seqs[i]
    <3> HIDE DEF h
    <3>1. CASE i = k + 1
      <4>1. k # 0 => k \in 1..k /\ i - 1 = k /\ i # 1
        BY <3>1
      <4>2. k = 0 => i = 1
        BY <3>1
      <4> QED BY <2>3, <2>4, <3>1, <4>1, <4>2
    <3>2. CASE i \in 1..k
      <4>1. i # 1 => i - 1 \in 1..k
        BY <3>2
      <4> QED BY <2>2, <2>3, <3>2, <4>1
    <3> QED BY <3>1, <3>2
  <2>6. h = e
    <3>1. h = [i \in 1..(k+1) |-> h[i]]
      OBVIOUS
    <3> HIDE DEF h
    <3> QED BY <2>5, <3>1
  <2>7. Strung(h, seqs, k + 1)
    <3> HIDE DEF h
    <3> QED BY <2>6 DEF Strung
  <2> QED BY <2>7
<1> HIDE DEF T
<1>3. Nat \subseteq T
  BY <1>1, <1>2, Induct!NatInductionOn
<1> QED BY <1>3 DEF T

LEMMA FlattenedIs ==
  ASSUME NEW n \in Nat \ {0}, NEW seqs \in [1..n -> Seq(Int)],
         \A i \in 1..n : NoRepeats(seqs[i]),
         \A i, k \in 1..n : i # k => Apart(seqs[i], seqs[k])
  PROVE  Laid(FlattenSeq(seqs), seqs, n)
<1> DEFINE g == CHOOSE g : Strung(g, seqs, n)
           T == {k \in Nat : k + 1 <= n => Laid(g[k+1], seqs, k + 1)}
<1>1. Len(seqs) = n
  OBVIOUS
<1>2. FlattenSeq(seqs) = g[n]
  BY <1>1 DEF FlattenSeq, Strung
<1>3. Strung(g, seqs, n)
  BY StrungExists
<1> HIDE DEF g
<1>4. \A i \in 1..n : g[i] = IF i = 1 THEN seqs[i] ELSE g[i-1] \o seqs[i]
  BY <1>3 DEF Strung
<1>5. 0 \in T
  <2>1. 1 \in 1..n /\ 0 + 1 = 1
    OBVIOUS
  <2>2. g[1] = seqs[1] /\ seqs[1] \in Seq(Int) /\ NoRepeats(seqs[1])
    BY <1>4, <2>1
  <2> DEFINE part == seqs[1]
  <2>3. /\ part \in Seq(Int) /\ Len(part) \in Nat
        /\ \A m \in 1..Len(part) : 0 + m = m
    BY <2>2
  <2>4. RunOf(part, part, 0)
    <3> HIDE DEF part
    <3> QED BY <2>3 DEF RunOf
  <2>5. \A i \in 1..1 : i = 1
    OBVIOUS
  <2>6. Laid(part, seqs, 1)
    <3>1. \A i \in 1..1 : \E at \in Nat : RunOf(part, seqs[i], at)
      BY <2>4, <2>5
    <3>2. \A m \in 1..Len(part) : \E i \in 1..1 : \E k \in 1..Len(seqs[i]) : part[m] = seqs[i][k]
      OBVIOUS
    <3> QED BY <2>2, <3>1, <3>2 DEF Laid
  <2> QED BY <2>1, <2>2, <2>6
<1>6. ASSUME NEW k \in Nat, k \in T PROVE k + 1 \in T
  <2> SUFFICES ASSUME k + 2 <= n PROVE Laid(g[k+2], seqs, k + 2)
    <3>1. (k + 1) + 1 = k + 2
      OBVIOUS
    <3> QED BY <3>1
  <2>1. Laid(g[k+1], seqs, k + 1)
    BY <1>6
  <2>2. k + 2 \in 1..n /\ k + 2 # 1 /\ (k + 2) - 1 = k + 1 /\ k + 1 \in Nat /\ (k + 1) + 1 = k + 2
    OBVIOUS
  <2>3. g[k+2] = g[k+1] \o seqs[k+2]
    BY <1>4, <2>2
  <2>4. \A i \in 1..(k+1) : i \in 1..n /\ i # k + 2
    OBVIOUS
  <2>5. \A i \in 1..(k+2) : i \in 1..n
    OBVIOUS
  <2> HIDE DEF T
  <2> QED BY <2>1, <2>2, <2>3, <2>4, <2>5, NextLaid
<1> HIDE DEF T
<1>7. Nat \subseteq T
  BY <1>5, <1>6, Induct!NatInductionOn
<1>8. PICK k \in Nat : k + 1 = n
  <2>1. n - 1 \in Nat /\ (n - 1) + 1 = n
    OBVIOUS
  <2> QED BY <2>1
<1>9. Laid(g[k+1], seqs, k + 1)
  BY <1>7, <1>8 DEF T
<1> QED BY <1>2, <1>8, <1>9

-----------------------------------------------------------------------------
(* The blocks share the nodes out: every node has one owner.               *)
LEMMA BlocksApart ==
  ASSUME NEW n \in Nat, NEW parts \in Nat \ {0}, parts <= n,
         NEW a \in 0..(parts - 1), NEW b \in 0..(parts - 1), a < b
  PROVE  BlockStart(a, parts, n) + BlockCount(a, parts, n) <= BlockStart(b, parts, n)
<1> DEFINE q == n \div parts
           rest == n % parts
<1>1. q \in Nat /\ rest \in 0..(parts - 1)
  OBVIOUS
<1>2. /\ BlockStart(a, parts, n) = a * q + (IF a <= rest THEN a ELSE rest)
      /\ BlockStart(b, parts, n) = b * q + (IF b <= rest THEN b ELSE rest)
      /\ BlockCount(a, parts, n) = q + (IF a < rest THEN 1 ELSE 0)
  BY <1>1, SmallerOfTwo DEF BlockStart, BlockCount
<1> HIDE DEF q, rest
<1>3. PICK k \in Nat : b = a + 1 + k
  <2>1. b - a - 1 \in Nat /\ b = a + 1 + (b - a - 1)
    OBVIOUS
  <2> QED BY <2>1
<1>4. b * q = a * q + q + k * q /\ a * q \in Nat /\ k * q \in Nat
  BY <1>1, <1>3
<1> QED BY <1>1, <1>2, <1>3, <1>4

LEMMA OwnedIs ==
  ASSUME NEW v \in Nat, NEW size \in Nat \ {0}, size <= v, NEW r \in 0..(size - 1)
  PROVE  /\ Owned(v, size, r) = BlockStart(r, size, v)..(BlockStart(r, size, v) + BlockCount(r, size, v) - 1)
         /\ Owned(v, size, r) \in SUBSET Nodes(v)
         /\ IsFiniteSet(Owned(v, size, r))
         /\ Cardinality(Owned(v, size, r)) = BlockCount(r, size, v)
         /\ BlockCount(r, size, v) \in Nat \ {0}
<1> DEFINE s == BlockStart(r, size, v)
           k == BlockCount(r, size, v)
<1>1. s \in Nat /\ k \in Nat \ {0} /\ s + k <= v
  BY BlockWithin
<1> HIDE DEF s, k
<1>2. {s + i : i \in 0..(k - 1)} = s..(s + k - 1)
  <2>1. \A x \in s..(s + k - 1) : x - s \in 0..(k - 1) /\ x = s + (x - s)
    BY <1>1
  <2>2. \A i \in 0..(k - 1) : s + i \in s..(s + k - 1)
    BY <1>1
  <2> QED BY <2>1, <2>2
<1>3. Owned(v, size, r) = s..(s + k - 1)
  BY <1>2 DEF Owned, s, k
<1>4. s..(s + k - 1) \subseteq 0..(v - 1)
  BY <1>1
<1>5. IsFiniteSet(s..(s + k - 1)) /\ Cardinality(s..(s + k - 1)) = k
  BY <1>1, FS_Interval
<1> QED BY <1>1, <1>3, <1>4, <1>5 DEF s, k, Nodes

LEMMA OwnedApart ==
  ASSUME NEW v \in Nat, NEW size \in Nat \ {0}, size <= v,
         NEW a \in 0..(size - 1), NEW b \in 0..(size - 1),
         NEW g \in Owned(v, size, a), g \in Owned(v, size, b)
  PROVE  a = b
<1> DEFINE s(c) == BlockStart(c, size, v)
           k(c) == BlockCount(c, size, v)
<1>1. \A c \in {a, b} : s(c) \in Nat /\ k(c) \in Nat
  BY BlockWithin
<1>2. g \in s(a)..(s(a) + k(a) - 1) /\ g \in s(b)..(s(b) + k(b) - 1)
  BY OwnedIs
<1>3. (a < b => s(a) + k(a) <= s(b)) /\ (b < a => s(b) + k(b) <= s(a))
  BY BlocksApart
<1> HIDE DEF s, k
<1> QED BY <1>1, <1>2, <1>3

LEMMA OwnerExists ==
  ASSUME NEW v \in Nat, NEW size \in Nat \ {0}, size <= v, NEW g \in Nodes(v)
  PROVE  \E r \in 0..(size - 1) : g \in Owned(v, size, r)
<1> DEFINE T == {c \in Nat : c <= size /\ g < BlockStart(c, size, v)}
<1>1. 0 \in 0..(size - 1) /\ BlockStart(0, size, v) = 0 /\ BlockStart(size, size, v) = v
  BY BlocksTile
<1>2. g \in Nat /\ g < v
  BY DEF Nodes
<1>3. size \in T /\ 0 \notin T
  BY <1>1, <1>2
<1>4. PICK c \in T : \A d \in T : c <= d
  <2>1. T \in SUBSET Nat /\ T # {}
    BY <1>3
  <2> HIDE DEF T
  <2> QED BY <2>1, Induct!LeastNatural
<1>5. c \in Nat /\ c # 0 /\ c <= size
  BY <1>3
<1>6. PICK r \in 0..(size - 1) : c = r + 1
  <2>1. c - 1 \in 0..(size - 1) /\ c = (c - 1) + 1
    BY <1>5
  <2> QED BY <2>1
<1>7. r \notin T
  BY <1>4, <1>6
<1> DEFINE s == BlockStart(r, size, v)
           k == BlockCount(r, size, v)
<1>8. s \in Nat /\ k \in Nat /\ BlockStart(r + 1, size, v) = s + k
  BY BlockWithin, BlocksTile
<1>9. s <= g /\ g < s + k
  <2>1. g < BlockStart(r + 1, size, v)
    BY <1>6
  <2>2. ~(g < s)
    BY <1>6, <1>7
  <2> HIDE DEF s, k
  <2> QED BY <1>2, <1>8, <2>1, <2>2
<1>10. Owned(v, size, r) = s..(s + k - 1)
  BY OwnedIs
<1> HIDE DEF s, k
<1> QED BY <1>2, <1>8, <1>9, <1>10

LEMMA OwnerIs ==
  ASSUME NEW v \in Nat, NEW size \in Nat \ {0}, size <= v, NEW q \in 0..(size - 1), NEW g
  PROVE  g \in Nodes(v) => (OwnerOf(v, size, g) = q <=> g \in Owned(v, size, q))
<1> SUFFICES ASSUME g \in Nodes(v)
             PROVE  OwnerOf(v, size, g) = q <=> g \in Owned(v, size, q)
  OBVIOUS
<1>1. PICK r \in 0..(size - 1) : g \in Owned(v, size, r)
  BY OwnerExists
<1>2. OwnerOf(v, size, g) \in 0..(size - 1) /\ g \in Owned(v, size, OwnerOf(v, size, g))
  BY <1>1 DEF OwnerOf
<1> QED BY <1>2, OwnedApart

LEMMA AdjacentBothWays ==
  ASSUME NEW v, NEW chords, NEW g \in Nodes(v), NEW x
  PROVE  x \in Adjacent(v, chords, g) => x \in Nodes(v) /\ g \in Adjacent(v, chords, x)
<1> {g, x} = {x, g}
  OBVIOUS
<1> QED BY DEF Adjacent

(* What a rank sends a neighbour is what the neighbour needs of it.        *)
LEMMA NeededIsGhosts ==
  ASSUME NEW v \in Nat, NEW chords, NEW size \in Nat \ {0}, size <= v,
         NEW r \in 0..(size - 1), NEW q \in 0..(size - 1)
  PROVE  Needed(v, chords, size, r, q) = GhostsFrom(v, chords, size, q, r)
<1>1. Owned(v, size, r) \in SUBSET Nodes(v) /\ Owned(v, size, q) \in SUBSET Nodes(v)
  BY OwnedIs
<1>2. ASSUME NEW u \in Owned(v, size, r)
      PROVE  (\E x \in Adjacent(v, chords, u) : OwnerOf(v, size, x) = q)
               <=> \E x \in Owned(v, size, q) : u \in Adjacent(v, chords, x)
  BY <1>1, AdjacentBothWays, OwnerIs
<1> QED BY <1>2 DEF Needed, GhostsFrom

LEMMA GhostsBothWays ==
  ASSUME NEW v \in Nat, NEW chords, NEW size \in Nat \ {0}, size <= v,
         NEW r \in 0..(size - 1), NEW q \in 0..(size - 1), GhostsFrom(v, chords, size, r, q) # {}
  PROVE  GhostsFrom(v, chords, size, q, r) # {}
<1>1. Owned(v, size, r) \in SUBSET Nodes(v) /\ Owned(v, size, q) \in SUBSET Nodes(v)
  BY OwnedIs
<1>2. PICK x \in Owned(v, size, q), u \in Owned(v, size, r) : x \in Adjacent(v, chords, u)
  BY DEF GhostsFrom
<1>3. u \in Adjacent(v, chords, x)
  BY <1>1, <1>2, AdjacentBothWays
<1> QED BY <1>2, <1>3 DEF GhostsFrom

ListOf(list, S) ==
  /\ list \in Seq(Int) /\ NoRepeats(list)
  /\ \A k \in 1..Len(list) : list[k] \in S
  /\ \A x \in S : \E k \in 1..Len(list) : list[k] = x

LEMMA AscendingIs ==
  ASSUME NEW S \in SUBSET Int, IsFiniteSet(S)
  PROVE  ListOf(Ascending(S), S) /\ Len(Ascending(S)) = Cardinality(S)
<1> DEFINE s == Ascending(S)
           n == Cardinality(S)
<1>1. /\ n \in Nat /\ s \in [1..n -> S]
      /\ \A i, j \in 1..n : s[i] = s[j] => i = j
      /\ \A x \in S : \E i \in 1..n : s[i] = x
  BY AscendingLists
<1> HIDE DEF s, n
<1>2. s \in [1..n -> Int]
  BY <1>1
<1>3. s \in Seq(Int) /\ Len(s) = n
  BY <1>1, <1>2
<1>4. \A k \in 1..n : s[k] \in S
  BY <1>1
<1>5. ListOf(s, S)
  BY <1>1, <1>3, <1>4 DEF NoRepeats, ListOf
<1> QED BY <1>3, <1>5 DEF s, n

LEMMA GhostsListed ==
  ASSUME NEW v \in Nat, NEW chords, NEW size \in Nat \ {0}, size <= v, NEW r, NEW q \in 0..(size - 1)
  PROVE  /\ GhostsFrom(v, chords, size, r, q) \in SUBSET Owned(v, size, q)
         /\ ListOf(Ascending(GhostsFrom(v, chords, size, r, q)), GhostsFrom(v, chords, size, r, q))
<1> DEFINE ghosts == GhostsFrom(v, chords, size, r, q)
<1>1. ghosts \in SUBSET Owned(v, size, q)
  BY DEF GhostsFrom
<1>2. Owned(v, size, q) \in SUBSET Int /\ IsFiniteSet(Owned(v, size, q))
  BY OwnedIs DEF Nodes
<1> HIDE DEF ghosts
<1>3. ghosts \in SUBSET Int /\ IsFiniteSet(ghosts)
  BY <1>1, <1>2, FS_Subset
<1> QED BY <1>1, <1>3, AscendingIs DEF ghosts

(* The local list of nodes: those owned, then a run of ghosts for every    *)
(* other owner; none is listed twice.                                      *)
OwnedThenGhosts(v, chords, size, r, nodes, count) ==
  /\ nodes \in Seq(Int) /\ NoRepeats(nodes)
  /\ count \in Nat \ {0} /\ count <= Len(nodes)
  /\ \A m \in 1..count : nodes[m] \in Owned(v, size, r)
  /\ \A g \in Owned(v, size, r) : \E m \in 1..count : nodes[m] = g
  /\ \A q \in (0..(size - 1)) \ {r} : \E at \in Nat :
       at >= count /\ RunOf(nodes, Ascending(GhostsFrom(v, chords, size, r, q)), at)

LEMMA LocalNodesAre ==
  ASSUME NEW v \in Nat, NEW chords, NEW size \in Nat \ {0}, size <= v, NEW r \in 0..(size - 1)
  PROVE  OwnedThenGhosts(v, chords, size, r, LocalNodes(v, chords, size, r), BlockCount(r, size, v))
<1> DEFINE mine == Owned(v, size, r)
           own == Ascending(mine)
           count == BlockCount(r, size, v)
           ghosts == [q \in 0..(size-1) |->
                        IF q = r THEN << >> ELSE Ascending(GhostsFrom(v, chords, size, r, q))]
           seqs == [q \in 1..size |-> ghosts[q - 1]]
           rest == FlattenSeq(seqs)
           nodes == own \o rest
<1>1. LocalNodes(v, chords, size, r) = nodes
  BY DEF LocalNodes
<1>2. /\ own \in Seq(Int) /\ NoRepeats(own) /\ Len(own) = count /\ count \in Nat \ {0}
      /\ \A m \in 1..count : own[m] \in mine
      /\ \A g \in mine : \E m \in 1..count : own[m] = g
  <2>1. mine \in SUBSET Int /\ IsFiniteSet(mine) /\ Cardinality(mine) = count /\ count \in Nat \ {0}
    BY OwnedIs DEF Nodes
  <2> HIDE DEF mine, count
  <2>2. ListOf(own, mine) /\ Len(own) = count
    BY <2>1, AscendingIs
  <2> HIDE DEF own
  <2> QED BY <2>1, <2>2 DEF ListOf
<1> HIDE DEF own, count
<1>3. ASSUME NEW i \in 1..size
      PROVE  /\ i - 1 \in 0..(size - 1) /\ seqs[i] \in Seq(Int) /\ NoRepeats(seqs[i])
             /\ i - 1 = r => Len(seqs[i]) = 0
             /\ i - 1 # r => seqs[i] = Ascending(GhostsFrom(v, chords, size, r, i - 1))
             /\ \A k \in 1..Len(seqs[i]) : seqs[i][k] \in Owned(v, size, i - 1)
  <2>1. i - 1 \in 0..(size - 1)
    OBVIOUS
  <2>2. seqs[i] = IF i - 1 = r THEN << >> ELSE Ascending(GhostsFrom(v, chords, size, r, i - 1))
    BY <2>1
  <2> HIDE DEF seqs
  <2>3. CASE i - 1 = r
    BY <2>1, <2>2, <2>3 DEF NoRepeats
  <2>4. CASE i - 1 # r
    <3> DEFINE g == GhostsFrom(v, chords, size, r, i - 1)
               list == Ascending(g)
    <3>1. g \in SUBSET Owned(v, size, i - 1) /\ ListOf(list, g)
      BY <2>1, GhostsListed
    <3>2. seqs[i] = list
      BY <2>2, <2>4
    <3> HIDE DEF g, list
    <3>3. list \in Seq(Int) /\ NoRepeats(list) /\ \A k \in 1..Len(list) : list[k] \in Owned(v, size, i - 1)
      BY <3>1 DEF ListOf
    <3> QED BY <2>1, <2>2, <2>4, <3>2, <3>3
  <2> QED BY <2>3, <2>4
<1>4. seqs \in [1..size -> Seq(Int)]
  <2>1. seqs = [i \in 1..size |-> seqs[i]]
    OBVIOUS
  <2> HIDE DEF seqs
  <2> QED BY <1>3, <2>1
<1> HIDE DEF seqs, rest
<1>5. ASSUME NEW i \in 1..size, NEW k \in 1..size, i # k PROVE Apart(seqs[i], seqs[k])
  <2> SUFFICES ASSUME NEW a \in 1..Len(seqs[i]), NEW b \in 1..Len(seqs[k]), seqs[i][a] = seqs[k][b] PROVE FALSE
    BY DEF Apart
  <2>1. i - 1 = k - 1
    BY <1>3, OwnedApart
  <2> QED BY <1>5, <2>1
<1>6. Laid(rest, seqs, size)
  BY <1>3, <1>4, <1>5, FlattenedIs DEF rest
<1>7. rest \in Seq(Int) /\ NoRepeats(rest)
  BY <1>6 DEF Laid
<1>8. Apart(own, rest)
  <2> SUFFICES ASSUME NEW a \in 1..Len(own), NEW b \in 1..Len(rest), own[a] = rest[b] PROVE FALSE
    BY DEF Apart
  <2>1. PICK i \in 1..size : \E k \in 1..Len(seqs[i]) : rest[b] = seqs[i][k]
    BY <1>6 DEF Laid
  <2>2. PICK k \in 1..Len(seqs[i]) : rest[b] = seqs[i][k]
    BY <2>1
  <2>3. own[a] \in Owned(v, size, r) /\ own[a] \in Owned(v, size, i - 1)
    BY <1>2, <1>3, <2>2
  <2>4. i - 1 = r
    BY <1>3, <2>3, OwnedApart
  <2>5. Len(seqs[i]) = 0
    BY <1>3, <2>4
  <2> QED BY <2>2, <2>5
<1>9. /\ nodes \in Seq(Int) /\ Len(nodes) = count + Len(rest) /\ Len(rest) \in Nat /\ NoRepeats(nodes)
      /\ RunOf(nodes, own, 0) /\ RunOf(nodes, rest, count)
  BY <1>2, <1>7, <1>8, JoinedIs
<1> HIDE DEF nodes
<1>10. \A m \in 1..count : nodes[m] = own[m]
  BY <1>2, <1>9 DEF RunOf
<1>11. ASSUME NEW q \in (0..(size - 1)) \ {r}
       PROVE  \E at \in Nat : at >= count /\ RunOf(nodes, Ascending(GhostsFrom(v, chords, size, r, q)), at)
  <2> DEFINE list == Ascending(GhostsFrom(v, chords, size, r, q))
  <2>1. q + 1 \in 1..size /\ (q + 1) - 1 = q
    OBVIOUS
  <2>2. seqs[q + 1] = list /\ list \in Seq(Int)
    BY <1>3, <2>1
  <2>3. PICK at \in Nat : RunOf(rest, list, at)
    BY <1>6, <2>1, <2>2 DEF Laid
  <2> HIDE DEF list
  <2>4. RunOf(nodes, list, count + at)
    <3>1. /\ Len(list) \in Nat /\ at + Len(list) <= Len(rest)
          /\ \A k \in 1..Len(list) : rest[at + k] = list[k]
      BY <2>2, <2>3 DEF RunOf
    <3>2. ASSUME NEW k \in 1..Len(list) PROVE nodes[(count + at) + k] = list[k]
      <4>1. at + k \in 1..Len(rest) /\ count + (at + k) = (count + at) + k
        BY <1>2, <1>9, <3>1
      <4>2. nodes[count + (at + k)] = rest[at + k]
        BY <1>9, <4>1 DEF RunOf
      <4> QED BY <3>1, <4>1, <4>2
    <3> QED BY <1>2, <1>9, <3>1, <3>2 DEF RunOf
  <2>5. count + at \in Nat /\ count + at >= count
    BY <1>2
  <2> QED BY <2>4, <2>5 DEF list
<1>12. count <= Len(nodes)
  BY <1>2, <1>9
<1>13. /\ \A m \in 1..count : nodes[m] \in mine
       /\ \A g \in mine : \E m \in 1..count : nodes[m] = g
  BY <1>2, <1>10
<1> HIDE DEF ghosts
<1> QED BY <1>1, <1>2, <1>9, <1>11, <1>12, <1>13 DEF count, OwnedThenGhosts

LEMMA SlotsAre ==
  ASSUME NEW v \in Nat, NEW chords, NEW size \in Nat \ {0}, size <= v, NEW r \in 0..(size - 1)
  PROVE  LET nodes == LocalNodes(v, chords, size, r)  slot == SlotOf(v, chords, size, r) IN
         \A m \in 1..Len(nodes) : slot[nodes[m]] = m - 1
<1> DEFINE nodes == LocalNodes(v, chords, size, r)
           slot == SlotOf(v, chords, size, r)
<1>1. nodes \in Seq(Int) /\ NoRepeats(nodes)
  BY LocalNodesAre DEF OwnedThenGhosts
<1>2. slot = [g \in ToSet(nodes) |-> (CHOOSE k \in DOMAIN nodes : nodes[k] = g) - 1]
  BY DEF SlotOf
<1> HIDE DEF nodes, slot
<1>3. DOMAIN nodes = 1..Len(nodes)
  BY <1>1
<1>4. ASSUME NEW m \in 1..Len(nodes) PROVE slot[nodes[m]] = m - 1
  <2> DEFINE k == CHOOSE k \in DOMAIN nodes : nodes[k] = nodes[m]
  <2>1. k \in 1..Len(nodes) /\ nodes[k] = nodes[m]
    BY <1>3
  <2>2. k = m
    BY <1>1, <2>1 DEF NoRepeats
  <2>3. nodes[m] \in ToSet(nodes)
    BY <1>3 DEF ToSet
  <2> HIDE DEF k
  <2>4. slot[nodes[m]] = k - 1
    BY <1>2, <2>3 DEF k
  <2> QED BY <2>2, <2>4
<1> QED BY <1>4 DEF nodes, slot

-----------------------------------------------------------------------------
(* A message takes owned nodes and fills ghosts, both in the order of the  *)
(* list of what the receiver needs.                                        *)
SlotsIn(places, list, nodes, first, last) ==
  /\ Len(list) \in Nat /\ places = [k \in 1..Len(list) |-> places[k]]
  /\ \A k \in 1..Len(list) : places[k] \in first..last /\ nodes[places[k] + 1] = list[k]

LEMMA DisplIs ==
  ASSUME NEW v \in Nat, NEW chords, NEW size \in Nat \ {0}, size <= v,
         NEW r \in 0..(size - 1), NEW q \in 0..(size - 1)
  PROVE  SlotsIn(Displ(v, chords, size, r, q), Ascending(GhostsFrom(v, chords, size, q, r)),
                 LocalNodes(v, chords, size, r), 0, BlockCount(r, size, v) - 1)
<1> DEFINE list == Ascending(GhostsFrom(v, chords, size, q, r))
           out == Displ(v, chords, size, r, q)
           nodes == LocalNodes(v, chords, size, r)
           slot == SlotOf(v, chords, size, r)
           count == BlockCount(r, size, v)
<1>1. out = [k \in DOMAIN list |-> slot[list[k]]]
  BY NeededIsGhosts DEF Displ
<1>2. /\ list \in Seq(Int)
      /\ \A k \in 1..Len(list) : list[k] \in Owned(v, size, r)
  BY GhostsListed DEF ListOf
<1>3. OwnedThenGhosts(v, chords, size, r, nodes, count)
  BY LocalNodesAre
<1>4. \A m \in 1..Len(nodes) : slot[nodes[m]] = m - 1
  BY SlotsAre
<1> HIDE DEF list, out, nodes, slot, count
<1>5. /\ nodes \in Seq(Int) /\ count \in Nat \ {0} /\ count <= Len(nodes)
      /\ \A g \in Owned(v, size, r) : \E m \in 1..count : nodes[m] = g
  BY <1>3 DEF OwnedThenGhosts
<1>6. Len(list) \in Nat /\ DOMAIN list = 1..Len(list)
  BY <1>2
<1>7. ASSUME NEW k \in 1..Len(list) PROVE out[k] \in 0..(count - 1) /\ nodes[out[k] + 1] = list[k]
  <2>1. PICK m \in 1..count : nodes[m] = list[k]
    BY <1>2, <1>5
  <2>2. m \in 1..Len(nodes) /\ m - 1 \in 0..(count - 1) /\ (m - 1) + 1 = m
    BY <1>5
  <2>3. out[k] = m - 1
    BY <1>1, <1>4, <1>6, <2>1, <2>2
  <2> QED BY <2>1, <2>2, <2>3
<1>8. out = [k \in 1..Len(list) |-> out[k]]
  BY <1>1, <1>6
<1>9. SlotsIn(out, list, nodes, 0, count - 1)
  BY <1>6, <1>7, <1>8 DEF SlotsIn
<1> QED BY <1>9 DEF list, out, nodes, count

LEMMA GhostBlockIs ==
  ASSUME NEW v \in Nat, NEW chords, NEW size \in Nat \ {0}, size <= v,
         NEW r \in 0..(size - 1), NEW q \in (0..(size - 1)) \ {r}
  PROVE  LET nodes == LocalNodes(v, chords, size, r) IN
         SlotsIn(GhostBlock(v, chords, size, r, q), Ascending(GhostsFrom(v, chords, size, r, q)),
                 nodes, BlockCount(r, size, v), Len(nodes) - 1)
<1> DEFINE list == Ascending(GhostsFrom(v, chords, size, r, q))
           in == GhostBlock(v, chords, size, r, q)
           nodes == LocalNodes(v, chords, size, r)
           slot == SlotOf(v, chords, size, r)
           count == BlockCount(r, size, v)
<1>1. in = [k \in DOMAIN list |-> slot[list[1]] + k - 1]
  BY DEF GhostBlock
<1>2. list \in Seq(Int)
  BY GhostsListed DEF ListOf
<1>3. nodes \in Seq(Int) /\ count \in Nat \ {0}
  BY LocalNodesAre DEF OwnedThenGhosts
<1>4. PICK at \in Nat : at >= count /\ RunOf(nodes, list, at)
  BY LocalNodesAre DEF OwnedThenGhosts
<1>5. \A m \in 1..Len(nodes) : slot[nodes[m]] = m - 1
  BY SlotsAre
<1> HIDE DEF list, in, nodes, slot, count
<1>6. Len(list) \in Nat /\ DOMAIN list = 1..Len(list)
  BY <1>2
<1>7. at + Len(list) <= Len(nodes) /\ \A k \in 1..Len(list) : nodes[at + k] = list[k]
  BY <1>4 DEF RunOf
<1>8. ASSUME NEW k \in 1..Len(list)
      PROVE  in[k] \in count..(Len(nodes) - 1) /\ nodes[in[k] + 1] = list[k]
  <2>1. 1 \in 1..Len(list) /\ at + 1 \in 1..Len(nodes) /\ (at + 1) - 1 = at
    BY <1>3, <1>6, <1>7
  <2>2. slot[list[1]] = at
    <3>1. nodes[at + 1] = list[1]
      BY <1>7, <2>1
    <3>2. slot[nodes[at + 1]] = (at + 1) - 1
      BY <1>5, <2>1
    <3> QED BY <2>1, <3>1, <3>2
  <2>3. in[k] = at + k - 1 /\ (at + k - 1) + 1 = at + k
    BY <1>1, <1>6, <2>2
  <2>4. at + k - 1 \in count..(Len(nodes) - 1)
    BY <1>3, <1>4, <1>6, <1>7
  <2> QED BY <1>7, <2>3, <2>4
<1>9. in = [k \in 1..Len(list) |-> in[k]]
  BY <1>1, <1>6
<1>10. SlotsIn(in, list, nodes, count, Len(nodes) - 1)
  BY <1>6, <1>8, <1>9 DEF SlotsIn
<1> QED BY <1>10 DEF list, in, nodes, count

Partners(v, chords, size, r) == {q \in 0..(size-1) : q # r /\ GhostsFrom(v, chords, size, r, q) # {}}

LEMMA NeighboursAre ==
  ASSUME NEW v \in Nat, NEW chords, NEW size \in Nat \ {0}, NEW r
  PROVE  ListOf(Neighbours(v, chords, size, r), Partners(v, chords, size, r))
<1> DEFINE with == Partners(v, chords, size, r)
<1>1. with \in SUBSET (0..(size-1)) /\ 0..(size-1) \subseteq Int
  BY DEF Partners
<1>2. Neighbours(v, chords, size, r) = Ascending(with)
  BY DEF Neighbours, Partners
<1>3. IsFiniteSet(0..(size-1))
  BY FS_Interval
<1> HIDE DEF with
<1>4. with \in SUBSET Int /\ IsFiniteSet(with)
  BY <1>1, <1>3, FS_Subset
<1>5. ListOf(Ascending(with), with)
  BY <1>4, AscendingIs
<1> QED BY <1>2, <1>5 DEF with

LEMMA AdjIs ==
  ASSUME NEW v \in Nat, NEW chords, NEW g
  PROVE  ListOf(Adj(v, chords, g), Adjacent(v, chords, g))
<1> DEFINE beside == Adjacent(v, chords, g)
<1>1. beside \in SUBSET (0..(v-1)) /\ 0..(v-1) \subseteq Int
  BY DEF Adjacent, Nodes
<1>2. IsFiniteSet(0..(v-1))
  BY FS_Interval
<1> HIDE DEF beside
<1>3. beside \in SUBSET Int /\ IsFiniteSet(beside)
  BY <1>1, <1>2, FS_Subset
<1>4. ListOf(Ascending(beside), beside)
  BY <1>3, AscendingIs
<1> QED BY <1>4 DEF Adj, beside

LEMMA GraphProblem ==
  ASSUME NEW p \in Problems, p.kind # "halo"
  PROVE  /\ p.v \in Nat /\ p.size \in Nat \ {0} /\ p.size <= p.v
         /\ RanksOf(p) = 0..(p.size - 1)
         /\ \A r \in RanksOf(p) : Plan[p][r] = GraphPlan(p.v, p.chords, p.size, r)
         /\ ProcNull \notin RanksOf(p)
<1>1. p.v \in Nat /\ p.size \in Nat \ {0} /\ p.size <= p.v /\ RanksOf(p) = 0..(p.size - 1)
  BY ProblemsAssumption DEF RanksOf
<1>2. \A r \in RanksOf(p) : Plan[p][r] = GraphPlan(p.v, p.chords, p.size, r)
  BY DEF Plan
<1>3. ProcNull \notin RanksOf(p)
  BY <1>1 DEF ProcNull
<1> QED BY <1>1, <1>2, <1>3

(* The plan of a rank, field by field.                                     *)
PlanIs(own, p, r, nodes, nbs) ==
  /\ own.start = SeedSources(p.v, p.size, r, nodes)
  /\ DOMAIN own.start = 0..(Len(nodes) - 1)
  /\ own.global = [u \in 0..(Len(nodes) - 1) |-> nodes[u + 1]]
  /\ own.reads = [u \in 0..(BlockCount(r, p.size, p.v) - 1) |->
                    ReadsOf(p.v, p.chords, nodes[u + 1], SlotOf(p.v, p.chords, p.size, r))]
  /\ DOMAIN own.calls = 1..Len(nbs) /\ IsSeq(own.calls) /\ Len(nbs) \in Nat
  /\ \A k \in 1..Len(nbs) :
       /\ own.calls[k].to = nbs[k] /\ own.calls[k].from = nbs[k] /\ own.calls[k].tag = 7
       /\ own.calls[k].out = Displ(p.v, p.chords, p.size, r, nbs[k])
       /\ own.calls[k].in = GhostBlock(p.v, p.chords, p.size, r, nbs[k])

LEMMA GraphView ==
  ASSUME NEW p \in Problems, p.kind # "halo", NEW r \in RanksOf(p)
  PROVE  PlanIs(Plan[p][r], p, r, LocalNodes(p.v, p.chords, p.size, r), Neighbours(p.v, p.chords, p.size, r))
<1> DEFINE own == Plan[p][r]
           nodes == LocalNodes(p.v, p.chords, p.size, r)
           nbs == Neighbours(p.v, p.chords, p.size, r)
           calls == GraphCalls(p.v, p.chords, p.size, r)
<1>1. own = GraphPlan(p.v, p.chords, p.size, r)
  BY GraphProblem
<1>2. /\ own.calls = calls
      /\ own.start = SeedSources(p.v, p.size, r, nodes)
      /\ own.global = [u \in 0..(Len(nodes) - 1) |-> nodes[u + 1]]
      /\ own.reads = [u \in 0..(BlockCount(r, p.size, p.v) - 1) |->
                        ReadsOf(p.v, p.chords, nodes[u + 1], SlotOf(p.v, p.chords, p.size, r))]
  BY <1>1 DEF GraphPlan
<1>3. DOMAIN SeedSources(p.v, p.size, r, nodes) = 0..(Len(nodes) - 1)
  BY DEF SeedSources
<1>4. calls = [k \in DOMAIN nbs |->
                 [to |-> nbs[k], out |-> Displ(p.v, p.chords, p.size, r, nbs[k]),
                  from |-> nbs[k], in |-> GhostBlock(p.v, p.chords, p.size, r, nbs[k]), tag |-> 7]]
  BY DEF GraphCalls
<1>5. nbs \in Seq(Int)
  <2>1. ListOf(nbs, Partners(p.v, p.chords, p.size, r))
    BY GraphProblem, NeighboursAre
  <2> QED BY <2>1 DEF ListOf
<1> HIDE DEF calls, nbs, nodes, own
<1>6. DOMAIN nbs = 1..Len(nbs) /\ Len(nbs) \in Nat
  BY <1>5
<1>7. DOMAIN calls = 1..Len(nbs)
  BY <1>4, <1>6
<1>8. calls \in [1..Len(nbs) -> {calls[k] : k \in 1..Len(nbs)}]
  BY <1>4, <1>6
<1>9. IsSeq(calls)
  BY <1>6, <1>7, <1>8 DEF IsSeq
<1>10. \A k \in 1..Len(nbs) :
         /\ calls[k].to = nbs[k] /\ calls[k].from = nbs[k] /\ calls[k].tag = 7
         /\ calls[k].out = Displ(p.v, p.chords, p.size, r, nbs[k])
         /\ calls[k].in = GhostBlock(p.v, p.chords, p.size, r, nbs[k])
  BY <1>4, <1>6
<1>11. PlanIs(own, p, r, nodes, nbs)
  BY <1>2, <1>3, <1>6, <1>7, <1>9, <1>10 DEF PlanIs
<1> QED BY <1>11 DEF own, nodes, nbs

LEMMA ListIsSeq ==
  ASSUME NEW n \in Nat, NEW f, f = [k \in 1..n |-> f[k]]
  PROVE  IsSeq(f) /\ Len(f) = n /\ DOMAIN f = 1..n
<1>1. DOMAIN f = 1..n
  OBVIOUS
<1>2. f \in [1..n -> {f[k] : k \in 1..n}]
  OBVIOUS
<1> QED BY <1>1, <1>2 DEF IsSeq

(* Both ends of a message, by the global ids of its nodes.                 *)
MessageOf(p, r, own, q, out, in, sent, got) ==
  /\ q \in RanksOf(p) /\ q # r
  /\ \E l \in 1..Len(Neighbours(p.v, p.chords, p.size, q)) :
       Neighbours(p.v, p.chords, p.size, q)[l] = r
  /\ IsSeq(out) /\ Len(out) = Len(sent) /\ DOMAIN out = 1..Len(sent)
  /\ IsSeq(in) /\ Len(in) = Len(got) /\ DOMAIN in = 1..Len(got)
  /\ \A n \in DOMAIN out : out[n] \in DOMAIN own.reads /\ own.global[out[n]] = sent[n]
  /\ \A n \in DOMAIN in : /\ in[n] \in DOMAIN own.start \ DOMAIN own.reads
                          /\ own.global[in[n]] = got[n]

LEMMA GraphMessage ==
  ASSUME NEW p \in Problems, p.kind # "halo", NEW r \in RanksOf(p),
         NEW k \in 1..Len(Neighbours(p.v, p.chords, p.size, r))
  PROVE  LET own == Plan[p][r]
             q == Neighbours(p.v, p.chords, p.size, r)[k] IN
         MessageOf(p, r, own, q, own.calls[k].out, own.calls[k].in,
                   Ascending(GhostsFrom(p.v, p.chords, p.size, q, r)),
                   Ascending(GhostsFrom(p.v, p.chords, p.size, r, q)))
<1> DEFINE own == Plan[p][r]
           nbs == Neighbours(p.v, p.chords, p.size, r)
           q == nbs[k]
           out == own.calls[k].out
           in == own.calls[k].in
           sent == Ascending(GhostsFrom(p.v, p.chords, p.size, q, r))
           got == Ascending(GhostsFrom(p.v, p.chords, p.size, r, q))
           nodes == LocalNodes(p.v, p.chords, p.size, r)
           count == BlockCount(r, p.size, p.v)
<1>1. /\ p.v \in Nat /\ p.size \in Nat \ {0} /\ p.size <= p.v
      /\ RanksOf(p) = 0..(p.size - 1) /\ r \in 0..(p.size - 1)
  BY GraphProblem
<1>2. ListOf(nbs, Partners(p.v, p.chords, p.size, r))
  BY <1>1, NeighboursAre
<1>3. PlanIs(own, p, r, nodes, nbs)
  BY GraphView
<1>4. OwnedThenGhosts(p.v, p.chords, p.size, r, nodes, count)
  BY <1>1, LocalNodesAre
<1> HIDE DEF own, nbs, nodes
<1>5. q \in (0..(p.size - 1)) \ {r} /\ GhostsFrom(p.v, p.chords, p.size, r, q) # {}
  BY <1>2 DEF ListOf, Partners, nbs
<1>6. /\ DOMAIN own.start = 0..(Len(nodes) - 1) /\ DOMAIN own.reads = 0..(count - 1)
      /\ own.global = [u \in 0..(Len(nodes) - 1) |-> nodes[u + 1]]
      /\ out = Displ(p.v, p.chords, p.size, r, q) /\ in = GhostBlock(p.v, p.chords, p.size, r, q)
  BY <1>3 DEF PlanIs, nbs
<1> HIDE DEF q, out, in, sent, got, count
<1>7. Len(nodes) \in Nat /\ count \in Nat \ {0} /\ count <= Len(nodes)
  BY <1>4 DEF OwnedThenGhosts
<1>8. SlotsIn(out, sent, nodes, 0, count - 1)
  BY <1>1, <1>5, <1>6, DisplIs DEF sent, nodes, count
<1>9. SlotsIn(in, got, nodes, count, Len(nodes) - 1)
  BY <1>1, <1>5, <1>6, GhostBlockIs DEF got, nodes, count
<1>10. \E l \in 1..Len(Neighbours(p.v, p.chords, p.size, q)) : Neighbours(p.v, p.chords, p.size, q)[l] = r
  <2>1. GhostsFrom(p.v, p.chords, p.size, q, r) # {}
    BY <1>1, <1>5, GhostsBothWays
  <2>2. r \in Partners(p.v, p.chords, p.size, q)
    BY <1>1, <1>5, <2>1 DEF Partners
  <2>3. ListOf(Neighbours(p.v, p.chords, p.size, q), Partners(p.v, p.chords, p.size, q))
    BY <1>1, NeighboursAre
  <2> QED BY <2>2, <2>3 DEF ListOf
<1>11. IsSeq(out) /\ Len(out) = Len(sent) /\ DOMAIN out = 1..Len(sent)
  BY <1>8, ListIsSeq DEF SlotsIn
<1>12. IsSeq(in) /\ Len(in) = Len(got) /\ DOMAIN in = 1..Len(got)
  BY <1>9, ListIsSeq DEF SlotsIn
<1>13. \A n \in DOMAIN out : out[n] \in DOMAIN own.reads /\ own.global[out[n]] = sent[n]
  BY <1>6, <1>7, <1>8, <1>11 DEF SlotsIn
<1>14. \A n \in DOMAIN in : /\ in[n] \in DOMAIN own.start \ DOMAIN own.reads
                            /\ own.global[in[n]] = got[n]
  BY <1>6, <1>7, <1>9, <1>12 DEF SlotsIn
<1>15. MessageOf(p, r, own, q, out, in, sent, got)
  BY <1>1, <1>5, <1>10, <1>11, <1>12, <1>13, <1>14 DEF MessageOf
<1> QED BY <1>15 DEF own, out, in, sent, got, q, nbs

LEMMA GraphChannel ==
  ASSUME NEW p \in Problems, p.kind # "halo", NEW ch
  PROVE  ch \in ChannelsOf(p) <=>
           \E r \in RanksOf(p) : \E k \in 1..Len(Neighbours(p.v, p.chords, p.size, r)) :
             ch = <<r, Neighbours(p.v, p.chords, p.size, r)[k], 7>>
<1> DEFINE nbs(r) == Neighbours(p.v, p.chords, p.size, r)
           C(r) == {<<r, c.to, c.tag>> : c \in ToSet(Plan[p][r].calls)}
<1>1. ASSUME NEW r \in RanksOf(p) PROVE ch \in C(r) <=> \E k \in 1..Len(nbs(r)) : ch = <<r, nbs(r)[k], 7>>
  <2> DEFINE calls == Plan[p][r].calls
             list == nbs(r)
  <2>1. /\ DOMAIN calls = 1..Len(list)
        /\ \A k \in 1..Len(list) : calls[k].to = list[k] /\ calls[k].tag = 7
    BY GraphView DEF PlanIs
  <2>2. C(r) = {<<r, c.to, c.tag>> : c \in ToSet(calls)}
    OBVIOUS
  <2> HIDE DEF calls, list, C, nbs
  <2>3. ToSet(calls) = {calls[k] : k \in 1..Len(list)}
    BY <2>1 DEF ToSet
  <2>4. C(r) = {<<r, calls[k].to, calls[k].tag>> : k \in 1..Len(list)}
    BY <2>2, <2>3
  <2> QED BY <2>1, <2>4 DEF list
<1>2. ChannelsOf(p) = UNION {C(r) : r \in RanksOf(p)}
  BY DEF ChannelsOf
<1> HIDE DEF C
<1> QED BY <1>1, <1>2

(* The two calls at the ends of a channel.                                 *)
Paired(plan, r, q, ch, k, l) ==
  /\ SendsOn(plan, ch) = {k} /\ TakesOn(plan, ch) = {l}
  /\ Len(plan[r].calls[k].out) = Len(plan[q].calls[l].in)
  /\ \A n \in DOMAIN plan[r].calls[k].out :
       plan[r].global[plan[r].calls[k].out[n]] = plan[q].global[plan[q].calls[l].in[n]]

LEMMA GraphPair ==
  ASSUME NEW p \in Problems, p.kind # "halo", NEW r \in RanksOf(p),
         NEW k \in 1..Len(Neighbours(p.v, p.chords, p.size, r))
  PROVE  LET q == Neighbours(p.v, p.chords, p.size, r)[k] IN
         /\ q \in RanksOf(p) /\ <<q, r, 7>> \in ChannelsOf(p)
         /\ \E l : Paired(Plan[p], r, q, <<r, q, 7>>, k, l)
<1> DEFINE plan == Plan[p]
           nbs(x) == Neighbours(p.v, p.chords, p.size, x)
           q == nbs(r)[k]
           ghosts(x, y) == Ascending(GhostsFrom(p.v, p.chords, p.size, x, y))
           calls(x) == plan[x].calls
           ch == <<r, q, 7>>
<1>1. MessageOf(p, r, plan[r], q, calls(r)[k].out, calls(r)[k].in, ghosts(q, r), ghosts(r, q))
  BY GraphMessage
<1>2. PICK l \in 1..Len(nbs(q)) : nbs(q)[l] = r
  BY <1>1 DEF MessageOf
<1>3. q \in RanksOf(p)
  BY <1>1 DEF MessageOf
<1>4. MessageOf(p, q, plan[q], r, calls(q)[l].out, calls(q)[l].in, ghosts(r, q), ghosts(q, r))
  BY <1>2, <1>3, GraphMessage
<1>5. ASSUME NEW x \in RanksOf(p)
      PROVE  /\ DOMAIN calls(x) = 1..Len(nbs(x))
             /\ \A i \in 1..Len(nbs(x)) :
                  calls(x)[i].to = nbs(x)[i] /\ calls(x)[i].from = nbs(x)[i] /\ calls(x)[i].tag = 7
             /\ \A i, j \in 1..Len(nbs(x)) : nbs(x)[i] = nbs(x)[j] => i = j
  <2> DEFINE own == plan[x]
             list == nbs(x)
  <2>1. PlanIs(own, p, x, LocalNodes(p.v, p.chords, p.size, x), list)
    BY GraphView
  <2>2. ListOf(list, Partners(p.v, p.chords, p.size, x))
    BY GraphProblem, NeighboursAre
  <2> HIDE DEF own, list
  <2>3. \A i, j \in 1..Len(list) : list[i] = list[j] => i = j
    BY <2>2 DEF ListOf, NoRepeats
  <2>4. /\ DOMAIN own.calls = 1..Len(list)
        /\ \A i \in 1..Len(list) :
             own.calls[i].to = list[i] /\ own.calls[i].from = list[i] /\ own.calls[i].tag = 7
    BY <2>1 DEF PlanIs
  <2> QED BY <2>3, <2>4 DEF own, list
<1>6. <<q, r, 7>> \in ChannelsOf(p)
  BY <1>2, <1>3, GraphChannel
<1>7. ch[1] = r /\ ch[2] = q /\ ch[3] = 7
  OBVIOUS
<1> HIDE DEF plan, ghosts, ch, q
<1>8. SendsOn(plan, ch) = {k}
  <2>1. SendsOn(plan, ch) = {i \in 1..Len(nbs(r)) : nbs(r)[i] = q}
    BY <1>5, <1>7 DEF SendsOn
  <2>2. \A i \in 1..Len(nbs(r)) : nbs(r)[i] = q <=> i = k
    BY <1>5 DEF q
  <2> HIDE DEF nbs
  <2> QED BY <2>1, <2>2 DEF nbs
<1>9. TakesOn(plan, ch) = {l}
  <2>1. TakesOn(plan, ch) = {i \in 1..Len(nbs(q)) : nbs(q)[i] = r}
    BY <1>3, <1>5, <1>7 DEF TakesOn
  <2>2. \A i \in 1..Len(nbs(q)) : nbs(q)[i] = r <=> i = l
    BY <1>2, <1>3, <1>5
  <2> HIDE DEF nbs
  <2> QED BY <1>2, <2>1, <2>2
<1> DEFINE out == calls(r)[k].out
           in == calls(q)[l].in
<1>10. Len(out) = Len(in) /\ \A n \in DOMAIN out : plan[r].global[out[n]] = plan[q].global[in[n]]
  <2>1. /\ Len(out) = Len(ghosts(q, r)) /\ DOMAIN out = 1..Len(ghosts(q, r))
        /\ \A n \in DOMAIN out : plan[r].global[out[n]] = ghosts(q, r)[n]
    BY <1>1 DEF MessageOf
  <2>2. /\ Len(in) = Len(ghosts(q, r)) /\ DOMAIN in = 1..Len(ghosts(q, r))
        /\ \A n \in DOMAIN in : plan[q].global[in[n]] = ghosts(q, r)[n]
    BY <1>4 DEF MessageOf
  <2> HIDE DEF out, in
  <2> QED BY <2>1, <2>2
<1>11. Paired(plan, r, q, ch, k, l)
  BY <1>8, <1>9, <1>10 DEF Paired
<1> QED BY <1>3, <1>6, <1>11 DEF plan, q, ch

LEMMA GraphMatches ==
  ASSUME NEW p \in Problems, p.kind # "halo"
  PROVE  Matched(p, Plan[p]) /\ SameNames(p, Plan[p])
<1> DEFINE plan == Plan[p]
           nbs(r) == Neighbours(p.v, p.chords, p.size, r)
<1>1. ASSUME NEW r \in RanksOf(p)
      PROVE  /\ DOMAIN plan[r].calls = 1..Len(nbs(r)) /\ IsSeq(plan[r].calls)
             /\ \A k \in 1..Len(nbs(r)) : plan[r].calls[k].from = nbs(r)[k] /\ plan[r].calls[k].tag = 7
  BY GraphView DEF PlanIs
<1>2. ASSUME NEW r \in RanksOf(p), NEW k \in 1..Len(nbs(r))
      PROVE  IsSeq(plan[r].calls[k].out) /\ IsSeq(plan[r].calls[k].in)
  BY GraphMessage DEF MessageOf
<1>3. ASSUME NEW r \in RanksOf(p), NEW k \in 1..Len(nbs(r))
      PROVE  /\ nbs(r)[k] \in RanksOf(p) /\ <<nbs(r)[k], r, 7>> \in ChannelsOf(p)
             /\ \E l : Paired(plan, r, nbs(r)[k], <<r, nbs(r)[k], 7>>, k, l)
  BY GraphPair
<1>4. ASSUME NEW ch \in ChannelsOf(p)
      PROVE  \E r \in RanksOf(p) : \E k \in 1..Len(nbs(r)) : ch = <<r, nbs(r)[k], 7>>
  BY GraphChannel
<1> HIDE DEF plan, nbs
<1>5. ASSUME NEW ch \in ChannelsOf(p)
      PROVE  /\ ch[2] \in RanksOf(p)
             /\ \E back \in ChannelsOf(p) : back[1] = ch[2] /\ back[2] = ch[1]
             /\ \E k, l : Paired(plan, ch[1], ch[2], ch, k, l)
  <2>1. PICK r \in RanksOf(p) : \E k \in 1..Len(nbs(r)) : ch = <<r, nbs(r)[k], 7>>
    BY <1>4
  <2>2. PICK k \in 1..Len(nbs(r)) : ch = <<r, nbs(r)[k], 7>>
    BY <2>1
  <2>3. ch[1] = r /\ ch[2] = nbs(r)[k]
    BY <2>2
  <2>4. <<ch[2], ch[1], 7>> \in ChannelsOf(p) /\ ch[2] \in RanksOf(p)
    BY <1>3, <2>3
  <2>5. \E l : Paired(plan, ch[1], ch[2], ch, k, l)
    BY <1>3, <2>2, <2>3
  <2> QED BY <2>4, <2>5
<1>6. ASSUME NEW ch \in ChannelsOf(p)
      PROVE  /\ \E i \in SendsOn(plan, ch) : \E j \in TakesOn(plan, ch) :
                  /\ SendsOn(plan, ch) = {i} /\ TakesOn(plan, ch) = {j}
                  /\ Len(plan[ch[1]].calls[i].out) = Len(plan[ch[2]].calls[j].in)
             /\ \A i \in SendsOn(plan, ch) : \A j \in TakesOn(plan, ch) :
                  \A n \in DOMAIN plan[ch[1]].calls[i].out :
                    plan[ch[1]].global[plan[ch[1]].calls[i].out[n]] = plan[ch[2]].global[plan[ch[2]].calls[j].in[n]]
  <2>1. PICK k, l : Paired(plan, ch[1], ch[2], ch, k, l)
    BY <1>5
  <2> DEFINE sends == SendsOn(plan, ch)
             takes == TakesOn(plan, ch)
  <2>2. /\ sends = {k} /\ takes = {l}
        /\ Len(plan[ch[1]].calls[k].out) = Len(plan[ch[2]].calls[l].in)
        /\ \A n \in DOMAIN plan[ch[1]].calls[k].out :
             plan[ch[1]].global[plan[ch[1]].calls[k].out[n]] = plan[ch[2]].global[plan[ch[2]].calls[l].in[n]]
    BY <2>1 DEF Paired
  <2> HIDE DEF sends, takes
  <2> QED BY <2>2 DEF sends, takes
<1>7. SameNames(p, plan)
  BY <1>6 DEF SameNames
<1>8. \A r \in RanksOf(p) :
        /\ IsSeq(plan[r].calls)
        /\ \A k \in DOMAIN plan[r].calls : IsSeq(plan[r].calls[k].out) /\ IsSeq(plan[r].calls[k].in)
  BY <1>1, <1>2
<1>9. \A r \in RanksOf(p) : \A k \in DOMAIN plan[r].calls :
        LET c == plan[r].calls[k] IN c.from # ProcNull => <<c.from, r, c.tag>> \in ChannelsOf(p)
  BY <1>1, <1>3
<1>10. Matched(p, plan)
  BY <1>5, <1>6, <1>8, <1>9 DEF Matched
<1> QED BY <1>7, <1>10 DEF plan

LEMMA GraphFillsOnce ==
  ASSUME NEW p \in Problems, p.kind # "halo", NEW r \in RanksOf(p)
  PROVE  FillsOnce(Plan[p][r])
<1> DEFINE own == Plan[p][r]
           nbs == Neighbours(p.v, p.chords, p.size, r)
           nodes == LocalNodes(p.v, p.chords, p.size, r)
           count == BlockCount(r, p.size, p.v)
           got(k) == Ascending(GhostsFrom(p.v, p.chords, p.size, r, nbs[k]))
           sent(k) == Ascending(GhostsFrom(p.v, p.chords, p.size, nbs[k], r))
<1>1. /\ p.v \in Nat /\ p.size \in Nat \ {0} /\ p.size <= p.v
      /\ RanksOf(p) = 0..(p.size - 1) /\ r \in 0..(p.size - 1)
  BY GraphProblem
<1>2. PlanIs(own, p, r, nodes, nbs)
  BY GraphView
<1>3. OwnedThenGhosts(p.v, p.chords, p.size, r, nodes, count)
  BY <1>1, LocalNodesAre
<1>4. ListOf(nbs, Partners(p.v, p.chords, p.size, r))
  BY <1>1, NeighboursAre
<1>5. ASSUME NEW k \in 1..Len(nbs)
      PROVE  MessageOf(p, r, own, nbs[k], own.calls[k].out, own.calls[k].in, sent(k), got(k))
  BY GraphMessage
<1>6. ASSUME NEW k \in 1..Len(nbs)
      PROVE  /\ NoRepeats(got(k))
             /\ \A n \in 1..Len(got(k)) : got(k)[n] \in Owned(p.v, p.size, nbs[k])
             /\ nbs[k] \in 0..(p.size - 1)
  <2> DEFINE q == nbs[k]
             ghosts == GhostsFrom(p.v, p.chords, p.size, r, q)
             list == Ascending(ghosts)
  <2>1. q \in 0..(p.size - 1)
    BY <1>4 DEF ListOf, Partners
  <2> HIDE DEF q
  <2>2. ghosts \in SUBSET Owned(p.v, p.size, q) /\ ListOf(list, ghosts)
    BY <1>1, <2>1, GhostsListed
  <2> HIDE DEF ghosts, list
  <2>3. NoRepeats(list) /\ \A n \in 1..Len(list) : list[n] \in Owned(p.v, p.size, q)
    BY <2>2 DEF ListOf
  <2> QED BY <2>1, <2>3 DEF q, ghosts, list
<1> HIDE DEF own, nbs, nodes, count, got, sent
<1>7. DOMAIN own.calls = 1..Len(nbs)
  BY <1>2 DEF PlanIs
<1>8. DOMAIN own.reads \subseteq DOMAIN own.start
  <2>1. /\ DOMAIN own.start = 0..(Len(nodes) - 1)
        /\ DOMAIN own.reads = 0..(count - 1)
    BY <1>2 DEF PlanIs, count
  <2>2. Len(nodes) \in Nat /\ count \in Nat /\ count <= Len(nodes)
    BY <1>3 DEF OwnedThenGhosts
  <2> QED BY <2>1, <2>2
<1>9. ASSUME NEW k \in 1..Len(nbs)
      PROVE  /\ ToSet(own.calls[k].out) \subseteq DOMAIN own.reads
             /\ ToSet(own.calls[k].in) \subseteq DOMAIN own.start \ DOMAIN own.reads
  BY <1>5 DEF MessageOf, ToSet
<1>10. Refreshed(own) \subseteq DOMAIN own.start \ DOMAIN own.reads
  <2>1. \A c \in ToSet(own.calls) : ToSet(c.in) \subseteq DOMAIN own.start \ DOMAIN own.reads
    BY <1>7, <1>9 DEF ToSet
  <2> QED BY <2>1 DEF Refreshed
<1>11. ASSUME NEW k \in 1..Len(nbs), NEW l \in 1..Len(nbs),
              NEW m \in DOMAIN own.calls[k].in, NEW n \in DOMAIN own.calls[l].in,
              own.calls[k].in[m] = own.calls[l].in[n]
       PROVE  k = l /\ m = n
  <2>1. m \in 1..Len(got(k)) /\ own.global[own.calls[k].in[m]] = got(k)[m]
    <3> DEFINE in == own.calls[k].in
    <3>1. MessageOf(p, r, own, nbs[k], own.calls[k].out, in, sent(k), got(k)) /\ m \in DOMAIN in
      BY <1>5, <1>11
    <3> HIDE DEF in
    <3>2. m \in 1..Len(got(k)) /\ own.global[in[m]] = got(k)[m]
      BY <3>1 DEF MessageOf
    <3> QED BY <3>2 DEF in
  <2>2. n \in 1..Len(got(l)) /\ own.global[own.calls[l].in[n]] = got(l)[n]
    <3> DEFINE in == own.calls[l].in
    <3>1. MessageOf(p, r, own, nbs[l], own.calls[l].out, in, sent(l), got(l)) /\ n \in DOMAIN in
      BY <1>5, <1>11
    <3> HIDE DEF in
    <3>2. n \in 1..Len(got(l)) /\ own.global[in[n]] = got(l)[n]
      BY <3>1 DEF MessageOf
    <3> QED BY <3>2 DEF in
  <2>3. got(k)[m] = got(l)[n]
    BY <1>11, <2>1, <2>2
  <2>4. nbs[k] = nbs[l]
    BY <1>1, <1>6, <2>1, <2>2, <2>3, OwnedApart
  <2>5. k = l
    BY <1>4, <2>4 DEF ListOf, NoRepeats
  <2>6. m = n
    BY <1>6, <2>1, <2>2, <2>3, <2>5 DEF NoRepeats
  <2> QED BY <2>5, <2>6
<1>12. FillsOnce(own)
  BY <1>7, <1>8, <1>9, <1>10, <1>11 DEF FillsOnce
<1> QED BY <1>12 DEF own

-----------------------------------------------------------------------------
(* The serial solver of the graph, and the nodes of it that a rank keeps.  *)
SelfSlots(p) == [g \in Nodes(p.v) |-> g]

LEMMA SerialGraphIs ==
  ASSUME NEW p \in Problems, p.kind # "halo"
  PROVE  /\ Serial[p][0] = [g \in Nodes(p.v) |->
                              IF g = SRC_B(p.v) THEN T_B ELSE IF g = SRC_A THEN T_A ELSE Lift(0)]
         /\ \A t \in 0..Iterations : DOMAIN Serial[p][t] = Nodes(p.v)
         /\ \A t \in 0..(Iterations - 1) : \A g \in Nodes(p.v) :
              Serial[p][t + 1][g] = Mean(Serial[p][t], ReadsOf(p.v, p.chords, g, SelfSlots(p)))
<1> DEFINE start == [g \in Nodes(p.v) |->
                       IF g = SRC_B(p.v) THEN T_B ELSE IF g = SRC_A THEN T_A ELSE Lift(0)]
           reads == [g \in Nodes(p.v) |-> ReadsOf(p.v, p.chords, g, SelfSlots(p))]
           f == SweptFields(start, reads, Iterations)
<1>1. Serial[p] = f
  BY DEF Serial, Solve, SolveGraph, T_A, T_B, SelfSlots
<1>2. f[0] = start /\ \A t \in 0..(Iterations - 1) : f[t + 1] = Swept(f[t], reads)
  BY SweepBySweep, IterationsAssumption
<1>3. \A t \in 0..Iterations : DOMAIN f[t] = DOMAIN start
  BY SweepsKeep, IterationsAssumption
<1>4. DOMAIN start = Nodes(p.v) /\ DOMAIN reads = Nodes(p.v)
  OBVIOUS
<1>5. \A g \in Nodes(p.v) : reads[g] = ReadsOf(p.v, p.chords, g, SelfSlots(p))
  OBVIOUS
<1> HIDE DEF f, reads, start
<1>6. ASSUME NEW t \in 0..(Iterations - 1), NEW g \in Nodes(p.v)
      PROVE  f[t + 1][g] = Mean(f[t], ReadsOf(p.v, p.chords, g, SelfSlots(p)))
  <2>1. t \in 0..Iterations
    BY IterationsAssumption
  <2>2. DOMAIN f[t] = Nodes(p.v)
    BY <1>3, <1>4, <2>1
  <2>3. Swept(f[t], reads)[g] = Mean(f[t], reads[g])
    BY <1>4, <2>2 DEF Swept
  <2> QED BY <1>2, <1>5, <2>3
<1> QED BY <1>1, <1>2, <1>3, <1>4, <1>6 DEF start

(* A node next to one of its own a rank owns, or has as a ghost.           *)
Located(own, place, x) ==
  /\ place \in DOMAIN own.global /\ own.global[place] = x
  /\ place \in DOMAIN own.reads \cup Refreshed(own)

LEMMA GraphSlots ==
  ASSUME NEW p \in Problems, p.kind # "halo", NEW r \in RanksOf(p),
         NEW g \in Owned(p.v, p.size, r), NEW x, x = g \/ x \in Adjacent(p.v, p.chords, g)
  PROVE  Located(Plan[p][r], SlotOf(p.v, p.chords, p.size, r)[x], x)
<1> DEFINE own == Plan[p][r]
           slot == SlotOf(p.v, p.chords, p.size, r)
           nbs == Neighbours(p.v, p.chords, p.size, r)
           nodes == LocalNodes(p.v, p.chords, p.size, r)
           count == BlockCount(r, p.size, p.v)
<1>1. /\ p.v \in Nat /\ p.size \in Nat \ {0} /\ p.size <= p.v
      /\ RanksOf(p) = 0..(p.size - 1) /\ r \in 0..(p.size - 1)
  BY GraphProblem
<1>2. PlanIs(own, p, r, nodes, nbs)
  BY GraphView
<1>3. OwnedThenGhosts(p.v, p.chords, p.size, r, nodes, count)
  BY <1>1, LocalNodesAre
<1>4. ListOf(nbs, Partners(p.v, p.chords, p.size, r))
  BY <1>1, NeighboursAre
<1>5. \A m \in 1..Len(nodes) : slot[nodes[m]] = m - 1
  BY <1>1, SlotsAre
<1>6. x \in Nodes(p.v)
  BY <1>1, OwnedIs, AdjacentBothWays
<1>7. PICK q \in 0..(p.size - 1) : x \in Owned(p.v, p.size, q)
  BY <1>1, <1>6, OwnerExists
<1> HIDE DEF own, slot, nodes, count
<1>8. /\ DOMAIN own.reads = 0..(count - 1) /\ DOMAIN own.global = 0..(Len(nodes) - 1)
      /\ \A m \in 1..Len(nodes) : own.global[m - 1] = nodes[m]
  <2>1. /\ DOMAIN own.reads = 0..(count - 1)
        /\ own.global = [u \in 0..(Len(nodes) - 1) |-> nodes[u + 1]]
    BY <1>2 DEF PlanIs, count
  <2>2. Len(nodes) \in Nat
    BY <1>3 DEF OwnedThenGhosts
  <2>3. ASSUME NEW m \in 1..Len(nodes) PROVE own.global[m - 1] = nodes[m]
    <3>1. m - 1 \in 0..(Len(nodes) - 1) /\ (m - 1) + 1 = m
      BY <2>2
    <3> QED BY <2>1, <3>1
  <2> QED BY <2>1, <2>3
<1>9. Len(nodes) \in Nat /\ count \in Nat /\ count <= Len(nodes)
  BY <1>3 DEF OwnedThenGhosts
<1>10. CASE q = r
  <2>1. PICK m \in 1..count : nodes[m] = x
    BY <1>3, <1>7, <1>10 DEF OwnedThenGhosts
  <2>2. m \in 1..Len(nodes) /\ m - 1 \in 0..(count - 1) /\ m - 1 \in 0..(Len(nodes) - 1)
    BY <1>9
  <2>3. slot[x] = m - 1 /\ own.global[m - 1] = x
    BY <1>5, <1>8, <2>1, <2>2
  <2>4. slot[x] \in DOMAIN own.global /\ slot[x] \in DOMAIN own.reads
    BY <1>8, <2>2, <2>3
  <2>5. Located(own, slot[x], x)
    BY <2>3, <2>4 DEF Located
  <2> QED BY <2>5 DEF own, slot
<1>11. CASE q # r
  <2>1. x \in Adjacent(p.v, p.chords, g)
    BY <1>1, <1>7, <1>11, OwnedApart
  <2> DEFINE ghosts == GhostsFrom(p.v, p.chords, p.size, r, q)
             got == Ascending(ghosts)
  <2>2. x \in ghosts
    BY <1>7, <2>1 DEF GhostsFrom
  <2>3. q \in Partners(p.v, p.chords, p.size, r)
    BY <1>11, <2>2 DEF Partners
  <2>4. PICK k \in 1..Len(nbs) : nbs[k] = q
    BY <1>4, <2>3 DEF ListOf
  <2> DEFINE in == own.calls[k].in
  <2>5. MessageOf(p, r, own, q, own.calls[k].out, in, Ascending(GhostsFrom(p.v, p.chords, p.size, q, r)), got)
    BY <2>4, GraphMessage DEF own
  <2>6. PICK n \in 1..Len(got) : got[n] = x
    <3>1. ListOf(got, ghosts)
      BY <1>1, GhostsListed
    <3> HIDE DEF got, ghosts
    <3> QED BY <2>2, <3>1 DEF ListOf
  <2>7. SlotsIn(in, got, nodes, count, Len(nodes) - 1)
    <3>1. in = GhostBlock(p.v, p.chords, p.size, r, q)
      BY <1>2, <2>4 DEF PlanIs
    <3> QED BY <1>1, <1>11, <3>1, GhostBlockIs DEF nodes, count
  <2> HIDE DEF got, ghosts
  <2>8. n \in DOMAIN in /\ in[n] \in count..(Len(nodes) - 1) /\ nodes[in[n] + 1] = x
    BY <2>5, <2>6, <2>7 DEF MessageOf, SlotsIn
  <2>9. in[n] \in Refreshed(own)
    <3>1. own.calls[k] \in ToSet(own.calls) /\ own.calls[k].from = q
      BY <1>2, <2>4 DEF PlanIs, ToSet
    <3>2. q # ProcNull
      BY <1>1, GraphProblem
    <3>3. in[n] \in ToSet(in)
      BY <2>8 DEF ToSet
    <3> QED BY <3>1, <3>2, <3>3 DEF Refreshed
  <2> HIDE DEF in
  <2>10. in[n] + 1 \in 1..Len(nodes) /\ (in[n] + 1) - 1 = in[n] /\ in[n] \in 0..(Len(nodes) - 1)
    BY <1>9, <2>8
  <2>11. slot[x] = in[n] /\ own.global[in[n]] = x
    BY <1>5, <1>8, <2>8, <2>10
  <2>12. slot[x] \in DOMAIN own.global
    BY <1>8, <2>10, <2>11
  <2>13. Located(own, slot[x], x)
    BY <2>9, <2>11, <2>12 DEF Located
  <2> QED BY <2>13 DEF own, slot
<1> QED BY <1>10, <1>11

LEMMA GraphSweeps ==
  ASSUME NEW p \in Problems, p.kind # "halo", NEW r \in RanksOf(p)
  PROVE  SweepsSerially(p, Plan[p][r])
<1> SUFFICES ASSUME NEW place \in DOMAIN Plan[p][r].reads
             PROVE  LET own == Plan[p][r]  reads == own.reads[place] IN
                    /\ own.start[place] = Serial[p][0][own.global[place]]
                    /\ \A t \in 0..(Iterations - 1) :
                         Serial[p][t + 1][own.global[place]] =
                           MeanOf([n \in DOMAIN reads |-> Serial[p][t][own.global[reads[n]]]])
                    /\ \A n \in DOMAIN reads : reads[n] \in DOMAIN own.reads \cup Refreshed(own) \cup Walls(p, own)
  BY DEF SweepsSerially
<1> DEFINE own == Plan[p][r]
           slot == SlotOf(p.v, p.chords, p.size, r)
           nodes == LocalNodes(p.v, p.chords, p.size, r)
           count == BlockCount(r, p.size, p.v)
           g == nodes[place + 1]
           reads == own.reads[place]
           where == ReadsOf(p.v, p.chords, g, SelfSlots(p))
           adj == Adj(p.v, p.chords, g)
<1>1. /\ p.v \in Nat /\ p.size \in Nat \ {0} /\ p.size <= p.v
      /\ RanksOf(p) = 0..(p.size - 1) /\ r \in 0..(p.size - 1)
  BY GraphProblem
<1>2. /\ place \in 0..(count - 1) /\ reads = ReadsOf(p.v, p.chords, g, slot)
      /\ own.start = SeedSources(p.v, p.size, r, nodes)
      /\ own.global = [u \in 0..(Len(nodes) - 1) |-> nodes[u + 1]]
  <2>1. PlanIs(own, p, r, nodes, Neighbours(p.v, p.chords, p.size, r))
    BY GraphView
  <2>2. place \in DOMAIN own.reads
    OBVIOUS
  <2> HIDE DEF own, nodes, slot
  <2> QED BY <2>1, <2>2 DEF PlanIs, slot
<1>3. OwnedThenGhosts(p.v, p.chords, p.size, r, nodes, count)
  BY <1>1, LocalNodesAre
<1> HIDE DEF nodes, count
<1>4. place \in 0..(Len(nodes) - 1) /\ place + 1 \in 1..count
  BY <1>2, <1>3 DEF OwnedThenGhosts
<1>5. g \in Owned(p.v, p.size, r)
  BY <1>3, <1>4 DEF OwnedThenGhosts
<1>6. g \in Nodes(p.v)
  BY <1>1, <1>5, OwnedIs
<1>7. own.global[place] = g
  BY <1>2, <1>4
<1>8. own.start[place] = Serial[p][0][g]
  <2>1. own.start[place] = IF g = SRC_B(p.v) THEN T_B ELSE IF g = SRC_A THEN T_A ELSE Lift(0)
    <3>1. OwnerOf(p.v, p.size, g) = r
      BY <1>1, <1>5, <1>6, OwnerIs
    <3> QED BY <1>2, <1>4, <3>1 DEF SeedSources
  <2> HIDE DEF g, own, slot, reads
  <2>2. Serial[p][0] = [x \in Nodes(p.v) |->
                          IF x = SRC_B(p.v) THEN T_B ELSE IF x = SRC_A THEN T_A ELSE Lift(0)]
    BY SerialGraphIs
  <2>3. Serial[p][0][g] = IF g = SRC_B(p.v) THEN T_B ELSE IF g = SRC_A THEN T_A ELSE Lift(0)
    BY <1>6, <2>2
  <2> QED BY <2>1, <2>3
<1>9. ASSUME NEW x, x = g \/ x \in Adjacent(p.v, p.chords, g)
      PROVE  Located(own, slot[x], x) /\ x \in Nodes(p.v)
  <2>1. x \in Nodes(p.v)
    BY <1>6, <1>9, AdjacentBothWays
  <2> QED BY <1>5, <1>9, <2>1, GraphSlots
<1>10. ListOf(adj, Adjacent(p.v, p.chords, g))
  BY <1>1, AdjIs
<1> HIDE DEF g, slot, adj, own
<1>11. /\ DOMAIN reads = DOMAIN where
       /\ \A n \in DOMAIN where :
            /\ own.global[reads[n]] = where[n]
            /\ reads[n] \in DOMAIN own.reads \cup Refreshed(own)
  <2>1. CASE Source(p.v, g)
    <3>1. reads = <<slot[g]>> /\ where = <<g>>
      BY <1>2, <1>6, <2>1 DEF ReadsOf, SelfSlots
    <3> QED BY <1>9, <3>1 DEF Located
  <2>2. CASE ~Source(p.v, g)
    <3>1. reads = [k \in DOMAIN adj |-> slot[adj[k]]] /\ where = [k \in DOMAIN adj |-> SelfSlots(p)[adj[k]]]
      BY <1>2, <2>2 DEF ReadsOf, adj
    <3>2. \A k \in DOMAIN adj : adj[k] \in Adjacent(p.v, p.chords, g)
      BY <1>10 DEF ListOf
    <3>3. \A k \in DOMAIN adj : SelfSlots(p)[adj[k]] = adj[k]
      BY <1>9, <3>2 DEF SelfSlots
    <3> HIDE DEF reads, where
    <3> QED BY <1>9, <3>1, <3>2, <3>3 DEF Located
  <2> QED BY <2>1, <2>2
<1> HIDE DEF reads, where
<1>12. ASSUME NEW t \in 0..(Iterations - 1)
       PROVE  Serial[p][t + 1][g] = MeanOf([n \in DOMAIN reads |-> Serial[p][t][own.global[reads[n]]]])
  <2>1. Serial[p][t + 1][g] = Mean(Serial[p][t], where)
    BY <1>6, SerialGraphIs DEF where
  <2>2. [n \in DOMAIN reads |-> Serial[p][t][own.global[reads[n]]]] = [n \in DOMAIN where |-> Serial[p][t][where[n]]]
    BY <1>11
  <2> QED BY <2>1, <2>2 DEF Mean
<1> QED BY <1>7, <1>8, <1>11, <1>12 DEF own, reads

(* The plans of the unstructured solver (unstructured/main.cpp: block_1d,  *)
(* the ghosts and their slots, MPI_Type_indexed and relax_node) fit, for   *)
(* every graph and every number of ranks up to that of its nodes.          *)
THEOREM GraphFits ==
  ASSUME NEW p \in Problems, p.kind # "halo"
  PROVE  Matched(p, Plan[p]) /\ Mirrored[p]
<1>1. \A r \in RanksOf(p) : SweepsSerially(p, Plan[p][r]) /\ FillsOnce(Plan[p][r])
  BY GraphSweeps, GraphFillsOnce
<1>2. Mirrored[p]
  BY <1>1, GraphMatches DEF Mirrored
<1> QED BY <1>2, GraphMatches

-----------------------------------------------------------------------------
(* Types: every cell that a sweep computes is the mean of at least one and *)
(* of fewer than P others, so that its weight exists.                      *)
LEMMA WeightExists ==
  ASSUME NEW k \in 1..(P-1)
  PROVE  OneOver(k) \in Coeffs
<1>1. P \in Nat /\ P > 4 /\ \A d \in 2..(P-1) : P % d # 0
  BY SweepAssumption
<1>2. PICK x, q \in Int : k * x = P * q + 1
  <2>1. Induct!IsPrime(P)
    BY <1>1 DEF Induct!IsPrime
  <2> QED BY <2>1, Induct!PrimeInverse
<1> DEFINE w == x % P
           h == x \div P
<1>3. w \in Coeffs /\ h \in Int /\ x = P * h + w
  BY <1>1 DEF Coeffs
<1> HIDE DEF w, h
<1>4. w \in Nat /\ w * k \in Nat
  BY <1>1, <1>3 DEF Coeffs
<1>5. w * k = (q - h * k) * P + 1
  <2>1. k * x = k * (P * h) + k * w
    BY <1>1, <1>3, <1>4
  <2>2. k * (P * h) = P * (h * k) /\ k * w = w * k /\ h * k \in Int
    BY <1>1, <1>3, <1>4
  <2>3. (q - h * k) * P = P * q - P * (h * k)
    BY <1>1, <2>2
  <2>4. P * q \in Int /\ P * (h * k) \in Int
    BY <1>1, <2>2
  <2> QED BY <1>2, <1>4, <2>1, <2>2, <2>3, <2>4
<1>6. q - h * k \in Nat /\ 1 \in 0..(P-1)
  <2> DEFINE d == q - h * k
  <2>1. d \in Int /\ d * P + 1 >= 0
    BY <1>1, <1>3, <1>4, <1>5
  <2> HIDE DEF d
  <2>2. d >= 0
    <3> SUFFICES ASSUME d <= -1 PROVE FALSE
      BY <2>1
    <3>1. -d - 1 \in Nat /\ d * P = -((-d - 1) * P) - P
      BY <1>1, <2>1
    <3>2. (-d - 1) * P \in Nat
      BY <1>1, <3>1
    <3> QED BY <1>1, <2>1, <3>1, <3>2
  <2> QED BY <1>1, <2>1, <2>2 DEF d
<1>7. (w * k) % P = 1
  BY <1>1, <1>4, <1>5, <1>6, Divided
<1> QED BY <1>3, <1>7 DEF OneOver

LEMMA SumIsNumber ==
  ASSUME NEW S, IsFiniteSet(S), NEW f \in [S -> Int]
  PROVE  SumFunction(f) \in Int
<1>1. Induct!Closed
  BY DEF Induct!Closed
<1>2. Induct!ValuesOn(f, S)
  BY DEF Induct!ValuesOn
<1>3. Induct!Fold(f, S) \in Int
  <2>1. Induct!IsFiniteSet(S)
    BY DEF IsFiniteSet, Induct!IsFiniteSet
  <2> QED BY <1>1, <1>2, <2>1, Induct!FoldType
<1>4. SumFunction(f) = Induct!Fold(f, S)
  BY DEF SumFunction, SumFunctionOnSet, FoldFunctionOnSet, MapThenFoldSet, Induct!Fold,
         Induct!FoldFunctionOnSet, Induct!MapThenFoldSet
<1> QED BY <1>3, <1>4

LEMMA MeanIsJet ==
  ASSUME NEW k \in 1..(P-1), NEW jets \in [1..k -> Jet]
  PROVE  MeanOf(jets) \in Jet
<1>1. Len(jets) = k /\ DOMAIN jets = 1..k /\ P \in Nat \ {0} /\ OneOver(k) \in Int
  BY WeightExists, SweepAssumption DEF Coeffs
<1>2. ASSUME NEW c \in 0..2
      PROVE  (OneOver(Len(jets)) * SumFunction([n \in DOMAIN jets |-> jets[n][c]])) % P \in Coeffs
  <2> DEFINE f == [n \in DOMAIN jets |-> jets[n][c]]
  <2>1. f \in [1..k -> Int]
    <3>1. \A n \in 1..k : jets[n][c] \in Coeffs
      BY DEF Jet
    <3> QED BY <1>1, <3>1 DEF Coeffs
  <2> HIDE DEF f
  <2>2. SumFunction(f) \in Int
    <3>1. \A a, b \in Int : IsFiniteSet(a..b)
      BY FS_Interval
    <3>2. 1 \in Int /\ k \in Int
      OBVIOUS
    <3>3. IsFiniteSet(1..k)
      BY ONLY <3>1, <3>2
    <3> QED BY ONLY <2>1, <3>3, SumIsNumber
  <2>3. \A a, b \in Int : (a * b) % P \in 0..(P-1)
    BY <1>1
  <2>4. (OneOver(k) * SumFunction(f)) % P \in 0..(P-1)
    BY <1>1, <2>2, <2>3
  <2> QED BY <1>1, <2>4 DEF Coeffs, f
<1> QED BY <1>2 DEF MeanOf, Jet

LEMMA HaloTyped ==
  ASSUME NEW p \in Problems, p.kind = "halo", NEW r \in RanksOf(p)
  PROVE  PlanTyped(Plan[p][r])
<1> DEFINE own == Plan[p][r]
           t == TileOf(p.n, p.size, r)
<1>1. /\ TileFits(p.n, p.size, r) /\ own.start = SetBoundary(p.n, p.size, r)
      /\ DOMAIN own.start = LocalCells(t) /\ DOMAIN own.reads = Interior(t)
      /\ \A cell \in Interior(t) : own.reads[cell] = Stencil(cell)
  BY HaloView
<1>2. t.nx \in Nat \ {0} /\ t.ny \in Nat \ {0}
  BY <1>1 DEF TileFits
<1>3. T_COLD \in Jet /\ T_WEST \in Jet /\ T_SOUTH \in Jet
  BY SweepAssumption DEF T_COLD, T_WEST, T_SOUTH, Lift, Seeded, Jet, Coeffs
<1>4. own.start \in [DOMAIN own.start -> Jet]
  BY <1>1, <1>3 DEF SetBoundary
<1> HIDE DEF own, t
<1>5. IsFiniteSet(Interior(t))
  <2>1. 1 \in Int /\ t.nx \in Int /\ t.ny \in Int
    BY <1>2
  <2>2. \A a, b \in Int : IsFiniteSet(a..b)
    BY FS_Interval
  <2>3. IsFiniteSet(1..t.nx) /\ IsFiniteSet(1..t.ny)
    BY <2>1, <2>2
  <2> QED BY <2>3, FS_Product DEF Interior
<1>6. ASSUME NEW cell \in Interior(t), NEW field \in [LocalCells(t) -> Jet]
      PROVE  Mean(field, Stencil(cell)) \in Jet
  <2>1. PICK i \in 1..t.nx, j \in 1..t.ny : cell = <<i, j>>
    BY DEF Interior
  <2>2. /\ DOMAIN Stencil(cell) = 1..4
        /\ \A m \in 1..4 : Stencil(cell)[m] \in LocalCells(t)
    <3>1. /\ <<i - 1, j>> \in LocalCells(t) /\ <<i + 1, j>> \in LocalCells(t)
          /\ <<i, j - 1>> \in LocalCells(t) /\ <<i, j + 1>> \in LocalCells(t)
      BY <1>2 DEF LocalCells
    <3>2. \A m \in 1..4 : m = 1 \/ m = 2 \/ m = 3 \/ m = 4
      OBVIOUS
    <3>3. /\ DOMAIN Stencil(cell) = 1..4
          /\ Stencil(cell)[1] = <<i - 1, j>> /\ Stencil(cell)[2] = <<i + 1, j>>
          /\ Stencil(cell)[3] = <<i, j - 1>> /\ Stencil(cell)[4] = <<i, j + 1>>
      BY <2>1, StencilIs
    <3> QED BY <3>1, <3>2, <3>3
  <2>3. [m \in DOMAIN Stencil(cell) |-> field[Stencil(cell)[m]]] \in [1..4 -> Jet]
    BY <2>2
  <2>4. 4 \in 1..(P-1)
    BY SweepAssumption
  <2> QED BY <2>3, <2>4, MeanIsJet DEF Mean
<1>7. PlanTyped(own)
  BY <1>1, <1>4, <1>5, <1>6 DEF PlanTyped
<1> QED BY <1>7 DEF own

(* A node that is no source has a neighbour in the ring, and fewer than P. *)
LEMMA DegreeIs ==
  ASSUME NEW p \in Problems, p.kind # "halo", NEW g \in Nodes(p.v), ~Source(p.v, g)
  PROVE  Len(Adj(p.v, p.chords, g)) \in 1..(P-1)
<1> DEFINE beside == Adjacent(p.v, p.chords, g)
           v == p.v
<1>1. v \in Nat /\ v <= P /\ P \in Nat
  BY GraphProblem, WeightsAssumption, SweepAssumption
<1>2. g \in 0..(v-1) /\ g # 0 /\ g # v - 1
  BY DEF Source, SRC_A, SRC_B, Nodes
<1>3. beside \in SUBSET (Nodes(v) \ {g})
  BY DEF Adjacent
<1>4. g + 1 \in beside
  <2>1. g + 1 \in 0..(v-1) /\ g + 1 # g /\ (g + 1) % v = g + 1
    BY <1>1, <1>2
  <2>2. {g, (g + 1) % v} \in Edges(v, p.chords)
    BY <1>2 DEF Edges, Nodes
  <2> QED BY <2>1, <2>2 DEF Adjacent, Nodes
<1> HIDE DEF beside, v
<1>5. IsFiniteSet(0..(v-1)) /\ Cardinality(0..(v-1)) = v
  BY <1>1, <1>2, FS_Interval
<1>6. beside \in SUBSET (0..(v-1)) /\ g \notin beside /\ 0..(v-1) \subseteq Int
  BY <1>3 DEF Nodes
<1>7. IsFiniteSet(beside) /\ Cardinality(beside) <= v /\ Cardinality(beside) # v /\ Cardinality(beside) \in Nat
  BY <1>2, <1>5, <1>6, FS_Subset, FS_CardinalityType
<1>8. Cardinality(beside) # 0
  BY <1>4, <1>7, FS_EmptySet
<1>9. Len(Ascending(beside)) = Cardinality(beside)
  <2>1. beside \in SUBSET Int
    BY <1>6
  <2> QED BY <1>7, <2>1, AscendingIs
<1>10. Cardinality(beside) \in 1..(P-1)
  BY <1>1, <1>7, <1>8
<1> QED BY <1>9, <1>10 DEF Adj, beside, v

LEMMA GraphTyped ==
  ASSUME NEW p \in Problems, p.kind # "halo", NEW r \in RanksOf(p)
  PROVE  PlanTyped(Plan[p][r])
<1> DEFINE own == Plan[p][r]
           nodes == LocalNodes(p.v, p.chords, p.size, r)
           count == BlockCount(r, p.size, p.v)
           slot == SlotOf(p.v, p.chords, p.size, r)
<1>1. /\ p.v \in Nat /\ p.size \in Nat \ {0} /\ p.size <= p.v
      /\ RanksOf(p) = 0..(p.size - 1) /\ r \in 0..(p.size - 1)
  BY GraphProblem
<1>2. PlanIs(own, p, r, nodes, Neighbours(p.v, p.chords, p.size, r))
  BY GraphView
<1>3. OwnedThenGhosts(p.v, p.chords, p.size, r, nodes, count)
  BY <1>1, LocalNodesAre
<1>4. FillsOnce(own)
  BY GraphFillsOnce
<1> HIDE DEF own, nodes
<1>5. own.start \in [DOMAIN own.start -> Jet]
  <2>1. T_A \in Jet /\ T_B \in Jet /\ Lift(0) \in Jet
    BY SweepAssumption DEF T_A, T_B, Lift, Seeded, Jet, Coeffs
  <2>2. own.start = SeedSources(p.v, p.size, r, nodes)
    BY <1>2 DEF PlanIs
  <2> QED BY <2>1, <2>2 DEF SeedSources
<1>6. DOMAIN own.reads = 0..(count - 1) /\ count \in Nat
  BY <1>2, <1>3 DEF PlanIs, OwnedThenGhosts
<1>7. IsFiniteSet(DOMAIN own.reads)
  BY <1>6, FS_Interval
<1>8. DOMAIN own.global = DOMAIN own.start
  BY <1>2 DEF PlanIs
<1>9. ASSUME NEW place \in DOMAIN own.reads, NEW field \in [DOMAIN own.start -> Jet]
      PROVE  Mean(field, own.reads[place]) \in Jet
  <2> DEFINE g == nodes[place + 1]
             reads == own.reads[place]
             adj == Adj(p.v, p.chords, g)
  <2>1. reads = ReadsOf(p.v, p.chords, g, slot)
    BY <1>2 DEF PlanIs
  <2>2. g \in Owned(p.v, p.size, r)
    <3>1. place + 1 \in 1..count
      BY <1>6
    <3> QED BY <1>3, <3>1 DEF OwnedThenGhosts
  <2>3. g \in Nodes(p.v)
    BY <1>1, <2>2, OwnedIs
  <2>4. ASSUME NEW x, x = g \/ x \in Adjacent(p.v, p.chords, g)
        PROVE  slot[x] \in DOMAIN own.start
    BY <1>8, <2>2, <2>4, GraphSlots DEF Located, own
  <2>5. ListOf(adj, Adjacent(p.v, p.chords, g))
    BY <1>1, AdjIs
  <2> HIDE DEF g, reads, adj, slot
  <2>6. \E k \in 1..(P-1) : DOMAIN reads = 1..k /\ \A n \in 1..k : reads[n] \in DOMAIN own.start
    <3>1. CASE Source(p.v, g)
      <4>1. reads = <<slot[g]>> /\ 1 \in 1..(P-1)
        BY <2>1, <3>1, SweepAssumption DEF ReadsOf
      <4> QED BY <2>4, <4>1
    <3>2. CASE ~Source(p.v, g)
      <4>1. Len(adj) \in 1..(P-1)
        BY <2>3, <3>2, DegreeIs DEF adj
      <4>2. DOMAIN adj = 1..Len(adj) /\ \A n \in 1..Len(adj) : adj[n] \in Adjacent(p.v, p.chords, g)
        BY <2>5 DEF ListOf
      <4>3. reads = [n \in DOMAIN adj |-> slot[adj[n]]]
        BY <2>1, <3>2 DEF ReadsOf, adj
      <4> QED BY <2>4, <4>1, <4>2, <4>3
    <3> QED BY <3>1, <3>2
  <2>7. PICK k \in 1..(P-1) : DOMAIN reads = 1..k /\ \A n \in 1..k : reads[n] \in DOMAIN own.start
    BY <2>6
  <2>8. [n \in DOMAIN reads |-> field[reads[n]]] \in [1..k -> Jet]
    BY <2>7
  <2>9. Mean(field, reads) \in Jet
    BY <2>8, MeanIsJet DEF Mean
  <2> QED BY <2>9 DEF reads
<1>10. PlanTyped(own)
  BY <1>5, <1>7, <1>9 DEF PlanTyped
<1> QED BY <1>10 DEF own

-----------------------------------------------------------------------------
(* What a rank works out on its own before the loop fits what the others   *)
(* do, in both solvers: their calls match, their views are pieces of the   *)
(* serial field, and every cell swept has a mean.                          *)
THEOREM PlansAllFit == PlansMatch /\ PlansFit /\ PlansTyped
<1>1. ASSUME NEW p \in Problems PROVE Matched(p, Plan[p]) /\ Mirrored[p]
  BY HaloFits, GraphFits
<1>2. ASSUME NEW p \in Problems, NEW r \in RanksOf(p) PROVE PlanTyped(Plan[p][r])
  BY HaloTyped, GraphTyped
<1> QED BY <1>1, <1>2 DEF PlansMatch, PlansFit, PlansTyped

(* What a rank sends its neighbour takes, call by call, in the same size,  *)
(* and every neighbour answers: Cartesian shifts and ghost lists, which    *)
(* the ranks compute independently, pair up.                               *)
THEOREM CallsPairHolds == Spec => []CallsPair
<1>1. Init => Setting
  BY DEF Init, Setting
<1>2. Setting /\ [Next]_vars => Setting'
  BY DEF Setting, Next, vars, Post, Receive, Return, ReturnBuffered, LeaveCall, Relax, Verify, Conclude, Ended
<1>3. Setting => CallsPair
  BY PlansAllFit, PlanOfProblem DEF Setting, PlansMatch, CallsPair
<1> QED BY <1>1, <1>2, <1>3, PTL DEF Spec

(* Tiles, ghosts and walls, or local nodes and their slots, are the serial *)
(* field's cells of their global names; every ghost read is filled once,   *)
(* from the rank that owns its cell.                                       *)
THEOREM ViewsMirrorHolds == Spec => []ViewsMirror
<1>1. Init => problem \in Problems
  BY DEF Init
<1>2. problem \in Problems /\ [Next]_vars => (problem \in Problems)'
  BY DEF Next, vars, Post, Receive, Return, ReturnBuffered, LeaveCall, Relax, Verify, Conclude, Ended
<1>3. problem \in Problems => ViewsMirror
  BY PlansAllFit DEF PlansFit, ViewsMirror
<1> QED BY <1>1, <1>2, <1>3, PTL DEF Spec

(* Buffers, messages, counters and verdicts of both solvers keep their     *)
(* types: nothing leaves a buffer, and a jet stays one in every sweep.     *)
THEOREM TypeCorrect == Spec => []TypeOK
BY PlansAllFit, TypesByPlans

(* Every message that waits has the size the call of its receiver expects, *)
(* and at most two wait on a channel: Receive never meets a message longer *)
(* than its ghosts, in any interleaving of the ranks' MPI_Sendrecv calls,  *)
(* whatever the grid or graph, the ranks and the iterations.               *)
THEOREM ReceiveFitsHolds == Spec => []ReceiveFits
BY PlansAllFit, ReceiveFitsByPlans

(* The ghosts that a rank has received in an iteration hold what their     *)
(* owners had after as many sweeps, though owners run ahead and reuse both *)
(* their buffers and the one tag: for every grid or graph, any ranks and   *)
(* sweeps, whatever the interleaving of the MPI_Sendrecv calls.            *)
THEOREM GhostsCurrentHolds == Spec => []GhostsCurrent
BY PlansAllFit, GhostsCurrentByPlans

(* The distributed solvers implement the serial one: the tile of every     *)
(* rank goes through the serial fields one by one, and no rank sweeps      *)
(* before its neighbours have made the sweep before.  For every grid or    *)
(* graph, any ranks and iterations, with or without buffered sends.        *)
THEOREM ImplementsSerialSweepsHolds == Spec => ImplementsSerialSweeps
BY PlansAllFit, SerialSweepsByPlans

(* No rank is more than a sweep ahead of a rank it exchanges cells with:   *)
(* the ghosts that reach it are those of its own sweep or of the next.     *)
THEOREM NeighbourSkewHolds == Spec => []Serially!NeighbourSkew
BY PlansAllFit, NeighbourSkewByPlans

=============================================================================
