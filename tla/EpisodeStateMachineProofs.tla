---------------------- MODULE EpisodeStateMachineProofs ----------------------
(***************************************************************************)
(* Theorems about the episode state machine, for any metadata that callers *)
(* pass and any number of transitions, detours and reloads.                *)
(***************************************************************************)
EXTENDS EpisodeStateMachine, TLAPS

(***************************************************************************)
(* The lifecycle as a table.                                               *)
(***************************************************************************)
LEMMA LifecycleDomain == DOMAIN Lifecycle = 1..16 /\ Len(Lifecycle) = 16
BY DEF Lifecycle

LEMMA LifecycleInjective ==
    ASSUME NEW i \in 1..16, NEW j \in 1..16, Lifecycle[i] = Lifecycle[j]
    PROVE  i = j
BY SMTT(60) DEF Lifecycle

LEMMA RankOf == ASSUME NEW i \in 1..16 PROVE Rank(Lifecycle[i]) = i
BY LifecycleDomain, LifecycleInjective DEF Rank

LEMMA BlockedIsNoStage == "blocked" \notin Stages
BY LifecycleDomain, SMTT(60) DEF Stages, Lifecycle

\* A transition of the table leads to the next stage, or drops a candidate.
LEMMA NextStage ==
    ASSUME NEW from, NEW to, <<from, to>> \in AllowedTransitions, to # "archived"
    PROVE  /\ from \in Stages \ {"archived"} /\ to \in Stages
           /\ Rank(from) \in Nat /\ Rank(to) = Rank(from) + 1
<1>1. PICK i \in 1..15 : from = Lifecycle[i] /\ to = Lifecycle[i + 1]
  BY LifecycleDomain DEF AllowedTransitions
<1>2. i \in 1..16 /\ i + 1 \in 1..16
  OBVIOUS
<1>3. Rank(from) = i /\ Rank(to) = i + 1
  BY <1>1, <1>2, RankOf
<1>4. from \in Stages /\ to \in Stages
  BY <1>1, <1>2, LifecycleDomain DEF Stages
<1>5. Lifecycle[16] = "archived"
  BY DEF Lifecycle
<1>6. from # "archived"
  BY <1>1, <1>2, <1>5, LifecycleInjective
<1> QED BY <1>3, <1>4, <1>6

LEMMA RankInjective ==
    ASSUME NEW s \in Stages, NEW t \in Stages, Rank(s) = Rank(t)
    PROVE  s = t
<1>1. PICK i \in 1..16 : s = Lifecycle[i]
  BY LifecycleDomain DEF Stages
<1>2. PICK j \in 1..16 : t = Lifecycle[j]
  BY LifecycleDomain DEF Stages
<1> QED BY <1>1, <1>2, RankOf

\* The three transitions that need a human are steps of the lifecycle.
LEMMA HumanSteps ==
    ASSUME NEW h \in HumanRequired
    PROVE  /\ h \in AllowedTransitions /\ h = <<h[1], h[2]>>
           /\ h[2] # "archived" /\ h[1] # "blocked" /\ h[2] # "blocked"
<1>1. ASSUME NEW i \in 1..15, NEW j, j = i + 1
      PROVE  <<Lifecycle[i], Lifecycle[j]>> \in AllowedTransitions
  BY <1>1, LifecycleDomain DEF AllowedTransitions
<1>2. /\ <<Lifecycle[2], Lifecycle[3]>> = <<"candidate", "approved_topic">>
      /\ <<Lifecycle[8], Lifecycle[9]>> = <<"human_qa", "storyboarding">>
      /\ <<Lifecycle[12], Lifecycle[13]>> = <<"production_qa", "scheduled">>
  BY DEF Lifecycle
<1>3. /\ <<Lifecycle[2], Lifecycle[3]>> \in AllowedTransitions
      /\ <<Lifecycle[8], Lifecycle[9]>> \in AllowedTransitions
      /\ <<Lifecycle[12], Lifecycle[13]>> \in AllowedTransitions
  <2>1. /\ 2 \in 1..15 /\ 8 \in 1..15 /\ 12 \in 1..15
        /\ 3 = 2 + 1 /\ 9 = 8 + 1 /\ 13 = 12 + 1
    OBVIOUS
  <2> QED BY <1>1, <2>1
<1> QED BY <1>2, <1>3 DEF HumanRequired

(***************************************************************************)
(* Types, the shape of the history, and the way back from blocked.         *)
(***************************************************************************)
MachineInv == MachineTypeOK /\ CanonicalHistory /\ BlockedCanReturn

\* A record appended to the history.
LEMMA Appended ==
    ASSUME MachineInv, NEW to \in CanonicalStates, NEW meta, meta.kind \in ActorKinds,
           NEW required \in BOOLEAN, AppendTransition(to, meta, required)
    PROVE  /\ current' = to /\ Len(history) \in Nat /\ DOMAIN history = 1..Len(history)
           /\ history' \in Seq([from : CanonicalStates, to : CanonicalStates,
                                kind : ActorKinds, required : BOOLEAN])
           /\ Len(history') = Len(history) + 1 /\ DOMAIN history' = 1..(Len(history) + 1)
           /\ \A i \in 1..Len(history) : history'[i] = history[i]
           /\ history'[Len(history) + 1].from = current
           /\ history'[Len(history) + 1].to = to
           /\ history'[Len(history) + 1].kind = meta.kind
           /\ history'[Len(history) + 1].required = required
<1> DEFINE R == [from : CanonicalStates, to : CanonicalStates, kind : ActorKinds,
                 required : BOOLEAN]
           rec == [from |-> current, to |-> to, kind |-> meta.kind, required |-> required]
<1>1. rec \in R /\ history \in Seq(R)
  BY DEF MachineInv, MachineTypeOK
<1>2. history' = Append(history, rec) /\ current' = to
  BY DEF AppendTransition
<1>3. /\ rec.from = current /\ rec.to = to /\ rec.kind = meta.kind
      /\ rec.required = required
  OBVIOUS
<1> HIDE DEF rec
<1>4. history' \in Seq(R)
  <2> HIDE DEF R
  <2> QED BY <1>1, <1>2
<1>5. /\ Len(history) \in Nat /\ DOMAIN history = 1..Len(history)
      /\ Len(history') = Len(history) + 1
      /\ DOMAIN history' = 1..(Len(history) + 1)
      /\ \A i \in 1..Len(history) : history'[i] = history[i]
      /\ history'[Len(history) + 1] = rec
  <2> HIDE DEF R
  <2> QED BY <1>1, <1>2
<1> QED BY <1>2, <1>3, <1>4, <1>5, Zenon

\* A record that the lifecycle allows after the i-1 records before it.
Fine(h, start, i) ==
    /\ h[i].from = (IF i = 1 THEN start ELSE h[i - 1].to)
    /\ h[i].required = (<<h[i].from, h[i].to>> \in HumanRequired)
    /\ \/ <<h[i].from, h[i].to>> \in AllowedTransitions
       \/ h[i].from \in Stages \ {"archived"} /\ h[i].to = "blocked"
       \/ i > 1 /\ h[i].from = "blocked" /\ h[i].to = h[i - 1].from

LEMMA CanonicalIsFine ==
    Len(history) \in Nat /\ DOMAIN history = 1..Len(history)
        => (CanonicalHistory <=>
                /\ current = (IF Len(history) = 0 THEN origin ELSE history[Len(history)].to)
                /\ \A i \in 1..Len(history) : Fine(history, origin, i))
<1> SUFFICES ASSUME Len(history) \in Nat, DOMAIN history = 1..Len(history)
             PROVE  CanonicalHistory <=>
               /\ current = (IF Len(history) = 0 THEN origin ELSE history[Len(history)].to)
               /\ \A i \in 1..Len(history) : Fine(history, origin, i)
  OBVIOUS
<1>1. \A i \in 1..Len(history) : Visited(i - 1) = IF i = 1 THEN origin ELSE history[i - 1].to
  BY DEF Visited
<1>2. Visited(Len(history)) = IF Len(history) = 0 THEN origin ELSE history[Len(history)].to
  BY DEF Visited
<1>3. ASSUME CanonicalHistory, NEW i \in 1..Len(history) PROVE Fine(history, origin, i)
  BY <1>1, <1>3 DEF CanonicalHistory, Fine
<1>4. ASSUME NEW i \in DOMAIN history, Fine(history, origin, i)
      PROVE  LET r == history[i] IN
             /\ r.from = Visited(i - 1)
             /\ r.required = (<<r.from, r.to>> \in HumanRequired)
             /\ \/ <<r.from, r.to>> \in AllowedTransitions
                \/ r.from \in Stages \ {"archived"} /\ r.to = "blocked"
                \/ i > 1 /\ r.from = "blocked" /\ r.to = history[i - 1].from
  BY <1>1, <1>4 DEF Fine
<1> QED BY <1>2, <1>3, <1>4 DEF CanonicalHistory

\* The history stays canonical when the new record is of one of its three kinds.
LEMMA HistoryGrows ==
    ASSUME MachineInv, NEW to \in CanonicalStates, NEW meta, meta.kind \in ActorKinds,
           NEW required \in BOOLEAN, AppendTransition(to, meta, required), origin' = origin,
           required <=> <<current, to>> \in HumanRequired,
           \/ <<current, to>> \in AllowedTransitions
           \/ current \in Stages \ {"archived"} /\ to = "blocked"
           \/ Len(history) > 0 /\ current = "blocked" /\ to = history[Len(history)].from
    PROVE  CanonicalHistory'
<1>1. PICK n \in Nat : n = Len(history)
  BY Appended
<1>2. /\ current' = to /\ DOMAIN history = 1..n
      /\ Len(history') = n + 1 /\ DOMAIN history' = 1..(n + 1)
      /\ \A i \in 1..n : history'[i] = history[i]
      /\ history'[n + 1].from = current /\ history'[n + 1].to = to
      /\ history'[n + 1].required = required
  BY <1>1, Appended
<1>3. /\ current = (IF n = 0 THEN origin ELSE history[n].to)
      /\ \A i \in 1..n : Fine(history, origin, i)
  BY <1>1, <1>2, CanonicalIsFine DEF MachineInv
<1>4. ASSUME NEW i \in 1..n PROVE Fine(history', origin', i)
  <2>1. history'[i] = history[i] /\ (i > 1 => history'[i - 1] = history[i - 1])
    BY <1>2
  <2>2. origin' = origin /\ Fine(history, origin, i)
    BY <1>3
  <2> QED BY <2>1, <2>2 DEF Fine
<1>5. Fine(history', origin', n + 1)
  <2>1. n + 1 - 1 = n /\ (n + 1 = 1 <=> n = 0) /\ (n > 0 => n + 1 > 1 /\ history'[n] = history[n])
    BY <1>2
  <2>2. history'[n + 1].from = (IF n + 1 = 1 THEN origin' ELSE history'[n].to)
    BY <1>2, <1>3, <2>1
  <2>3. history'[n + 1].required = (<<history'[n + 1].from, history'[n + 1].to>> \in HumanRequired)
    BY <1>2
  <2>4. \/ <<history'[n + 1].from, history'[n + 1].to>> \in AllowedTransitions
        \/ history'[n + 1].from \in Stages \ {"archived"} /\ history'[n + 1].to = "blocked"
        \/ n + 1 > 1 /\ history'[n + 1].from = "blocked" /\ history'[n + 1].to = history'[n].from
    BY <1>1, <1>2, <2>1
  <2> QED BY <2>1, <2>2, <2>3, <2>4 DEF Fine
<1>6. \A i \in 1..(n + 1) : Fine(history', origin', i)
  BY <1>4, <1>5
<1>7. /\ Len(history') \in Nat /\ DOMAIN history' = 1..Len(history')
      /\ current' = (IF Len(history') = 0 THEN origin' ELSE history'[Len(history')].to)
      /\ \A i \in 1..Len(history') : Fine(history', origin', i)
  BY <1>2, <1>6
<1>8. (Len(history) \in Nat /\ DOMAIN history = 1..Len(history)
        => (CanonicalHistory <=>
                /\ current = (IF Len(history) = 0 THEN origin ELSE history[Len(history)].to)
                /\ \A i \in 1..Len(history) : Fine(history, origin, i)))'
  BY CanonicalIsFine, PTL
<1> QED BY <1>7, <1>8

LEMMA MachineStarts == MachineInit => MachineInv
<1> SUFFICES ASSUME MachineInit PROVE MachineInv
  OBVIOUS
<1>1. /\ origin \in CanonicalStates /\ current = origin /\ history = <<>>
      /\ blockedFrom = NoState /\ reloaded = FALSE
  BY DEF MachineInit
<1>2. MachineTypeOK
  <2>1. ASSUME NEW R PROVE <<>> \in Seq(R)
    OBVIOUS
  <2>2. history \in Seq([from : CanonicalStates, to : CanonicalStates, kind : ActorKinds,
                         required : BOOLEAN])
    BY <1>1, <2>1
  <2> QED BY <1>1, <2>2 DEF MachineTypeOK
<1>3. CanonicalHistory
  <2>1. Len(history) = 0 /\ DOMAIN history = {}
    BY <1>1
  <2> QED BY <1>1, <2>1 DEF CanonicalHistory, Visited
<1>4. BlockedCanReturn
  BY <1>1 DEF BlockedCanReturn
<1> QED BY <1>2, <1>3, <1>4 DEF MachineInv

LEMMA TransitionKeeps ==
    ASSUME MachineInv, NEW to \in Stages, NEW meta, Transition(to, meta)
    PROVE  MachineInv'
<1>1. /\ meta.kind \in ActorKinds /\ <<current, to>> \in AllowedTransitions
      /\ current # "blocked" /\ to \in CanonicalStates
      /\ AppendTransition(to, meta, <<current, to>> \in HumanRequired)
      /\ UNCHANGED <<blockedFrom, origin, reloaded>>
  BY DEF Transition, ValidMetadata, CanonicalStates
<1>2. (<<current, to>> \in HumanRequired) \in BOOLEAN
  OBVIOUS
<1>3. CanonicalHistory'
  BY <1>1, <1>2, HistoryGrows
<1>4. blockedFrom = NoState
  BY <1>1, BlockedIsNoStage, MachineAssumption DEF MachineInv, MachineTypeOK, CanonicalStates
<1>5. MachineTypeOK'
  BY <1>1, <1>2, <1>4, Appended DEF MachineInv, MachineTypeOK
<1>6. current' # "blocked"
  BY <1>1, BlockedIsNoStage DEF AppendTransition
<1> QED BY <1>3, <1>5, <1>6 DEF MachineInv, BlockedCanReturn

LEMMA BlockKeeps ==
    ASSUME MachineInv, NEW meta, Block(meta)
    PROVE  MachineInv'
<1>1. /\ meta.kind \in ActorKinds /\ current \in Stages \ {"archived"}
      /\ AppendTransition("blocked", meta, FALSE) /\ blockedFrom' = current
      /\ UNCHANGED <<origin, reloaded>> /\ "blocked" \in CanonicalStates
  BY DEF Block, ValidMetadata, CanonicalStates, MachineInv, MachineTypeOK
<1>2. <<current, "blocked">> \notin HumanRequired
  BY HumanSteps
<1>3. CanonicalHistory'
  BY <1>1, <1>2, HistoryGrows
<1>4. /\ Len(history') = Len(history) + 1 /\ Len(history) \in Nat
      /\ history'[Len(history) + 1].from = current /\ current' = "blocked"
      /\ history' \in Seq([from : CanonicalStates, to : CanonicalStates,
                           kind : ActorKinds, required : BOOLEAN])
  BY <1>1, Appended
<1>5. MachineTypeOK'
  BY <1>1, <1>4 DEF MachineInv, MachineTypeOK
<1>6. BlockedCanReturn'
  BY <1>1, <1>4 DEF BlockedCanReturn
<1> QED BY <1>3, <1>5, <1>6 DEF MachineInv

LEMMA UnblockKeeps ==
    ASSUME MachineInv, NEW meta, Unblock(meta)
    PROVE  MachineInv'
<1>1. /\ meta.kind \in ActorKinds /\ current = "blocked" /\ blockedFrom # NoState
      /\ AppendTransition(blockedFrom, meta, FALSE) /\ blockedFrom' = NoState
      /\ UNCHANGED <<origin, reloaded>>
  BY DEF Unblock, ValidMetadata
<1>2. /\ blockedFrom \in Stages /\ blockedFrom \in CanonicalStates
      /\ Len(history) > 0 /\ blockedFrom = history[Len(history)].from
  BY <1>1 DEF MachineInv, MachineTypeOK, BlockedCanReturn, CanonicalStates
<1>3. <<current, blockedFrom>> \notin HumanRequired
  BY <1>1, HumanSteps
<1>4. CanonicalHistory'
  BY <1>1, <1>2, <1>3, HistoryGrows
<1>5. /\ current' = blockedFrom
      /\ history' \in Seq([from : CanonicalStates, to : CanonicalStates,
                           kind : ActorKinds, required : BOOLEAN])
  BY <1>1, <1>2, Appended
<1>6. MachineTypeOK'
  BY <1>1, <1>2, <1>5 DEF MachineInv, MachineTypeOK
<1>7. BlockedCanReturn'
  BY <1>2, <1>5, BlockedIsNoStage DEF BlockedCanReturn
<1> QED BY <1>4, <1>6, <1>7 DEF MachineInv

LEMMA ReloadKeeps == ASSUME MachineInv, Reload PROVE MachineInv'
BY DEF Reload, MachineInv, MachineTypeOK, CanonicalHistory, BlockedCanReturn, Visited

LEMMA StandsStill == ASSUME MachineInv, UNCHANGED machineVars PROVE MachineInv'
BY DEF machineVars, MachineInv, MachineTypeOK, CanonicalHistory, BlockedCanReturn, Visited

LEMMA MachineKeeps == MachineInv /\ [MachineNext]_machineVars => MachineInv'
<1> SUFFICES ASSUME MachineInv, [MachineNext]_machineVars PROVE MachineInv'
  OBVIOUS
<1>1. ASSUME NEW meta \in Metas, NEW to \in Stages, Transition(to, meta) PROVE MachineInv'
  BY <1>1, TransitionKeeps
<1>2. ASSUME NEW meta \in Metas, Block(meta) PROVE MachineInv'
  BY <1>2, BlockKeeps
<1>3. ASSUME NEW meta \in Metas, Unblock(meta) PROVE MachineInv'
  BY <1>3, UnblockKeeps
<1> QED BY <1>1, <1>2, <1>3, ReloadKeeps, StandsStill DEF MachineNext

LEMMA MachineAlways == MachineSpec => []MachineInv
<1> QED BY MachineStarts, MachineKeeps, PTL DEF MachineSpec

\* The history of a machine is a path through the canonical lifecycle, whatever was
\* blocked, unblocked and reloaded.
THEOREM HistoryCorrect == MachineSpec => [](MachineTypeOK /\ CanonicalHistory)
<1> QED BY MachineAlways, PTL DEF MachineInv

\* A blocked machine can be unblocked unless it was created blocked or reloaded while it
\* was blocked.
THEOREM ReturnCorrect == MachineSpec => []BlockedCanReturn
<1> QED BY MachineAlways, PTL DEF MachineInv

(***************************************************************************)
(* Human decisions. Blocking keeps the place an episode will come back to, *)
(* so the decisions that lead to that place are what stays true.           *)
(***************************************************************************)
Place == IF current = "blocked" THEN blockedFrom ELSE current

Decided(h) == \E i \in DOMAIN history : history[i].from = h[1] /\ history[i].to = h[2]
                                        /\ history[i].kind = "human"

Owed(h) == /\ Place \in Stages \ {"archived"} /\ origin \in Stages
           /\ Rank(origin) <= Rank(h[1]) /\ Rank(h[2]) <= Rank(Place)

DecisionInv == \A h \in HumanRequired : Owed(h) => Decided(h)

LEMMA DecisionStarts == MachineInit => DecisionInv
<1> SUFFICES ASSUME MachineInit, NEW h \in HumanRequired, Owed(h) PROVE FALSE
  BY DEF DecisionInv
<1>1. Place = origin
  BY MachineAssumption, BlockedIsNoStage DEF Place, MachineInit, Owed, CanonicalStates
<1>2. Rank(h[1]) \in Nat /\ Rank(h[2]) = Rank(h[1]) + 1
  BY HumanSteps, NextStage
<1>3. \A s \in Stages : Rank(s) \in Nat
  BY LifecycleDomain, RankOf DEF Stages
<1> QED BY <1>1, <1>2, <1>3 DEF Owed

\* A step that keeps the place and the records owes nothing new.
LEMMA DecisionKept ==
    ASSUME MachineInv, DecisionInv, origin' = origin, Place' = Place,
           \A i \in DOMAIN history : i \in DOMAIN history' /\ history'[i] = history[i]
    PROVE  DecisionInv'
BY DEF DecisionInv, Owed, Decided

LEMMA DecisionMade ==
    ASSUME MachineInv, DecisionInv, NEW to \in Stages, NEW meta, Transition(to, meta)
    PROVE  DecisionInv'
<1>1. /\ meta.kind \in ActorKinds /\ <<current, to>> \in AllowedTransitions
      /\ current # "blocked" /\ to \in CanonicalStates
      /\ AppendTransition(to, meta, <<current, to>> \in HumanRequired)
      /\ UNCHANGED <<blockedFrom, origin, reloaded>>
  BY DEF Transition, ValidMetadata, CanonicalStates
<1> SUFFICES ASSUME NEW h \in HumanRequired, Owed(h)' PROVE Decided(h)'
  BY DEF DecisionInv
<1>2. /\ current' = to /\ DOMAIN history = 1..Len(history) /\ Len(history) \in Nat
      /\ DOMAIN history' = 1..(Len(history) + 1)
      /\ \A i \in 1..Len(history) : history'[i] = history[i]
      /\ history'[Len(history) + 1].from = current
      /\ history'[Len(history) + 1].to = to
      /\ history'[Len(history) + 1].kind = meta.kind
  <2>1. (<<current, to>> \in HumanRequired) \in BOOLEAN
    OBVIOUS
  <2> QED BY <1>1, <2>1, Appended
<1>3. Place' = to /\ Place = current /\ to # "archived"
  BY <1>1, <1>2, BlockedIsNoStage DEF Place, Owed
<1>4. current \in Stages \ {"archived"} /\ Rank(current) \in Nat /\ Rank(to) = Rank(current) + 1
  BY <1>1, <1>3, NextStage
<1>5. /\ h[2] \in Stages /\ h[1] \in Stages /\ Rank(h[1]) \in Nat /\ Rank(h[2]) = Rank(h[1]) + 1
      /\ h = <<h[1], h[2]>>
  BY HumanSteps, NextStage
<1>6. CASE Rank(h[2]) <= Rank(current)
  <2>1. Owed(h)
    BY <1>1, <1>3, <1>4, <1>6 DEF Owed
  <2> QED BY <1>2, <2>1 DEF DecisionInv, Decided
<1>7. CASE ~(Rank(h[2]) <= Rank(current))
  <2>1. Rank(h[2]) = Rank(to)
    BY <1>3, <1>4, <1>5, <1>7 DEF Owed
  <2>2. h[2] = to /\ h[1] = current
    BY <1>4, <1>5, <2>1, RankInjective
  <2>3. meta.kind = "human"
    BY <1>5, <2>2 DEF Transition
  <2> QED BY <1>2, <2>2, <2>3 DEF Decided
<1> QED BY <1>6, <1>7

LEMMA DecisionStep ==
    ASSUME MachineInv, DecisionInv, [MachineNext]_machineVars
    PROVE  DecisionInv'
<1>1. ASSUME NEW meta \in Metas, Block(meta) PROVE DecisionInv'
  <2>1. /\ meta.kind \in ActorKinds /\ current # "blocked" /\ "blocked" \in CanonicalStates
        /\ AppendTransition("blocked", meta, FALSE) /\ blockedFrom' = current /\ origin' = origin
    BY <1>1 DEF Block, ValidMetadata, CanonicalStates
  <2>2. /\ \A i \in DOMAIN history : i \in DOMAIN history' /\ history'[i] = history[i]
        /\ current' = "blocked"
    <3>1. FALSE \in BOOLEAN
      OBVIOUS
    <3>2. /\ current' = "blocked" /\ Len(history) \in Nat /\ DOMAIN history = 1..Len(history)
          /\ DOMAIN history' = 1..(Len(history) + 1)
          /\ \A i \in 1..Len(history) : history'[i] = history[i]
      BY <2>1, <3>1, Appended
    <3> QED BY <3>2
  <2> QED BY <2>1, <2>2, DecisionKept DEF Place
<1>2. ASSUME NEW meta \in Metas, Unblock(meta) PROVE DecisionInv'
  <2>1. /\ meta.kind \in ActorKinds /\ current = "blocked"
        /\ blockedFrom \in Stages /\ blockedFrom \in CanonicalStates
        /\ AppendTransition(blockedFrom, meta, FALSE) /\ origin' = origin
    BY <1>2 DEF Unblock, ValidMetadata, MachineInv, MachineTypeOK, CanonicalStates
  <2>2. /\ \A i \in DOMAIN history : i \in DOMAIN history' /\ history'[i] = history[i]
        /\ current' = blockedFrom
    <3>1. FALSE \in BOOLEAN
      OBVIOUS
    <3>2. /\ current' = blockedFrom /\ Len(history) \in Nat /\ DOMAIN history = 1..Len(history)
          /\ DOMAIN history' = 1..(Len(history) + 1)
          /\ \A i \in 1..Len(history) : history'[i] = history[i]
      BY <2>1, <3>1, Appended
    <3> QED BY <3>2
  <2> QED BY <2>1, <2>2, DecisionKept, BlockedIsNoStage DEF Place
<1>3. ASSUME Reload PROVE DecisionInv'
  <2>1. /\ current = "blocked" /\ current' = current /\ blockedFrom' = NoState
        /\ NoState \notin Stages
    BY <1>3, MachineAssumption DEF Reload, MachineInv, MachineTypeOK, CanonicalStates
  <2> QED BY <2>1 DEF DecisionInv, Owed, Place
<1>4. ASSUME UNCHANGED machineVars PROVE DecisionInv'
  BY <1>4, DecisionKept DEF machineVars, Place
<1> QED BY <1>1, <1>2, <1>3, <1>4, DecisionMade DEF MachineNext

LEMMA DecisionsCover == DecisionInv => HumansDecided
BY BlockedIsNoStage DEF DecisionInv, HumansDecided, Owed, Decided, Place

\* No episode stands beyond a human decision that no human made.
THEOREM HumansCorrect == MachineSpec => []HumansDecided
<1>1. MachineInv /\ DecisionInv /\ [MachineNext]_machineVars => (MachineInv /\ DecisionInv)'
  BY MachineKeeps, DecisionStep
<1>2. MachineSpec => [](MachineInv /\ DecisionInv)
  BY MachineStarts, DecisionStarts, <1>1, PTL DEF MachineSpec
<1> QED BY <1>2, DecisionsCover, PTL
=============================================================================
