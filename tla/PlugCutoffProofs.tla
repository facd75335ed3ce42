-------------------------- MODULE PlugCutoffProofs --------------------------
(***************************************************************************)
(* For every number of batteries and circuits, every power reading, every  *)
(* timing and every outcome of the HTTP calls: the bookkeeping of a cut is *)
(* consistent, a relay is opened only after an overload that lasted the    *)
(* whole escalation, and a running cut is never extended.  Where calls are *)
(* answered in time, an open relay is never forgotten, neither by the      *)
(* emergency cutoff nor by the night cutoff.                               *)
(***************************************************************************)
EXTENDS PlugCutoff, TLAPS

-----------------------------------------------------------------------------
\* The ages and windows a cycle computes have their types.
LEMMA AgesTyped ==
    ASSUME TypeOK, NEW d \in 1..MaxLate
    PROVE  /\ \A c \in Circuit : OverloadAge(c, d) \in For /\ SoftAge(c, d) \in For
           /\ \A b \in Battery : Left(plug_cut_until[b], d) \in Nat \cup {None}
           /\ \A b \in Battery : StampedCut(b, d) \in Nat \cup {None}
           /\ \A b \in Battery : StampedReason(b, d) \in Reason
           /\ NightLeft(d) \in 0..NightLength
<1> USE ConstantsOK
<1>1. d \in Nat /\ MaxFor \in Nat
  OBVIOUS
<1>2. ASSUME NEW t \in For PROVE Since(t, d) \in For
  BY <1>1, <1>2 DEF Since, AtMost, For
<1>3. \A c \in Circuit : OverloadAge(c, d) \in For
  BY <1>1, <1>2 DEF OverloadAge, TypeOK, For
<1>4. \A c \in Circuit : SoftAge(c, d) \in For
  <2> TAKE c \in Circuit
  <2>1. SoftAge(c, d) \in {None, 0, Since(soft_remediation_started_at[c], d)}
    BY DEF SoftAge
  <2>2. Since(soft_remediation_started_at[c], d) \in For
    BY <1>2 DEF TypeOK
  <2>3. QED
    BY <1>1, <2>1, <2>2 DEF For
<1>5. \A b \in Battery : Left(plug_cut_until[b], d) \in Nat \cup {None}
  BY <1>1 DEF Left, TypeOK
<1>6. \A b \in Battery : StampedCut(b, d) \in Nat \cup {None}
  BY <1>5 DEF StampedCut
<1>7. \A b \in Battery : StampedReason(b, d) \in Reason
  BY DEF StampedReason, Reason, TypeOK
<1>8. NightLeft(d) \in 0..NightLength
  BY <1>1 DEF NightLeft, TypeOK
<1>9. QED
  BY <1>3, <1>4, <1>5, <1>6, <1>7, <1>8

\* The calls a cycle spawns, and those it has aged, are calls.
LEMMA CallsTyped ==
    ASSUME NEW kind \in CallKind, NEW S \in SUBSET Battery
    PROVE  Spawn(kind, S) \subseteq Call
<1> SUFFICES ASSUME NEW b \in S
             PROVE  [battery |-> b, kind |-> kind, age |-> 0, applied |-> FALSE] \in Call
  BY DEF Spawn
<1>1. 0 \in 0..CallTimeout
  BY ConstantsOK
<1>2. QED
  BY <1>1 DEF Call

LEMMA AgedTyped ==
    ASSUME TypeOK, NEW d \in 1..MaxLate, \A k \in calls : k.age + d <= CallTimeout
    PROVE  Aged(calls, d) \subseteq Call
<1> SUFFICES ASSUME NEW k \in calls PROVE [k EXCEPT !.age = @ + d] \in Call
  BY DEF Aged
<1>1. k \in Call
  BY DEF TypeOK
<1>2. k.age + d \in 0..CallTimeout
  BY <1>1, ConstantsOK DEF Call
<1>3. QED
  BY <1>1, <1>2 DEF Call

-----------------------------------------------------------------------------
\* A cycle keeps the types.
LEMMA CycleTyped ==
    ASSUME TypeOK, NEW d \in 1..MaxLate, Cycle(d)
    PROVE  TypeOK'
<1>1. plug_cut_until' \in [Battery -> Nat \cup {None}]
  <2>1. NightLeft(d) \in Nat
    BY AgesTyped, ConstantsOK
  <2>2. QED
    BY <2>1, AgesTyped DEF Cycle
<1>2. plug_cut_reason' \in [Battery -> Reason]
  BY AgesTyped DEF Cycle, Reason
<1>3. plug_relay_state' \in [Battery -> BOOLEAN]
  BY DEF Cycle, TypeOK
<1>4. /\ overload_started_at' \in [Circuit -> For]
      /\ soft_remediation_started_at' \in [Circuit -> For]
  BY AgesTyped DEF Cycle, TypeOK
<1>5. over_for' \in [Circuit -> 0..MaxFor]
  <2>1. \A c \in Circuit : AtMost(over_for[c] + d, MaxFor) \in 0..MaxFor
    BY ConstantsOK DEF TypeOK, AtMost
  <2>2. 0 \in 0..MaxFor
    BY ConstantsOK
  <2>3. QED
    BY <2>1, <2>2 DEF Cycle
<1>6. calls' \subseteq Call
  <2>1. Aged(calls, d) \subseteq Call
    BY AgedTyped DEF Cycle
  <2>2. /\ Spawn("trip", ToTrip(d)) \subseteq Call
        /\ Spawn("reenable", ToReenable(d)) \subseteq Call
        /\ Spawn("night cut", ToCut(d)) \subseteq Call
        /\ Spawn("night restore", ToRestore(d)) \subseteq Call
    BY CallsTyped DEF CallKind, ToTrip, ToReenable, ToCut, ToRestore
  <2>3. QED
    BY <2>1, <2>2 DEF Cycle
<1>7. poll' \in [Battery -> Answer \cup {Due, None}]
  <2> SUFFICES ASSUME NEW b \in Battery, InFlight(poll[b])
               PROVE  [poll[b] EXCEPT !.age = @ + d] \in Answer
    BY DEF Cycle
  <2>1. poll[b] \in Answer /\ poll[b].age + d <= PollTimeout
    BY DEF TypeOK, InFlight, Cycle
  <2>2. poll[b].age + d \in 0..PollTimeout
    BY <2>1, ConstantsOK DEF Answer
  <2>3. QED
    BY <2>1, <2>2 DEF Answer
<1>8. night' \in 0..NightLength
  BY AgesTyped DEF Cycle
<1>9. QED
  BY <1>1, <1>2, <1>3, <1>4, <1>5, <1>6, <1>7, <1>8 DEF Cycle, TypeOK

\* The steps of the HTTP tasks keep the types.
LEMMA CallTyped ==
    ASSUME TypeOK, NEW k \in calls,
           CallReachesPlug(k) \/ CallSucceeds(k) \/ CallFails(k)
    PROVE  TypeOK'
<1>1. k \in Call /\ k.battery \in Battery
  BY DEF TypeOK, Call
<1>2. CASE CallReachesPlug(k)
  <2>1. [k EXCEPT !.applied = TRUE] \in Call
    BY <1>1 DEF Call
  <2>2. ClosesRelay(k) \in BOOLEAN
    BY DEF ClosesRelay
  <2>3. QED
    BY <1>1, <1>2, <2>1, <2>2
    DEF CallReachesPlug, TypeOK, cutVars, timerVars
<1>3. CASE CallSucceeds(k)
  <2>1. plug_relay_state' \in [Battery -> BOOLEAN]
    BY <1>1, <1>3, Zenon DEF CallSucceeds, TypeOK, ClosesRelay
  <2>2. /\ plug_cut_until' \in [Battery -> Nat \cup {None}]
        /\ plug_cut_reason' \in [Battery -> Reason]
    BY <1>1, <1>3 DEF CallSucceeds, TypeOK, cutVars, Reason
  <2>3. QED
    BY <1>3, <2>1, <2>2 DEF CallSucceeds, TypeOK, timerVars
<1>4. CASE CallFails(k)
  <2>1. /\ plug_cut_until' \in [Battery -> Nat \cup {None}]
        /\ plug_cut_reason' \in [Battery -> Reason]
    BY <1>1, <1>4 DEF CallFails, TypeOK, cutVars, Reason
  <2>2. QED
    BY <1>4, <2>1 DEF CallFails, TypeOK, timerVars
<1>5. QED
  BY <1>2, <1>3, <1>4

\* The steps of the poller keep the types.
LEMMA PollTyped ==
    ASSUME TypeOK, NEW b \in Battery,
           PlugAnswersPoll(b) \/ StorePoll(b) \/ PollFails(b)
    PROVE  TypeOK'
<1>1. CASE PlugAnswersPoll(b)
  <2>1. PICK w \in PlugPower :
          poll' = [poll EXCEPT ![b] =
                     [on |-> relay[b], w |-> IF relay[b] THEN w ELSE 0, age |-> 0]]
    BY <1>1 DEF PlugAnswersPoll
  <2>2. [on |-> relay[b], w |-> IF relay[b] THEN w ELSE 0, age |-> 0] \in Answer
    BY ConstantsOK DEF Answer, TypeOK
  <2>3. QED
    BY <1>1, <2>1, <2>2 DEF PlugAnswersPoll, TypeOK, cutVars, timerVars
<1>2. CASE StorePoll(b)
  <2>1. poll[b] \in Answer
    BY <1>2 DEF StorePoll, InFlight, TypeOK
  <2>2. poll[b].on \in BOOLEAN /\ poll[b].w \in PlugPower \cup {0}
    BY <2>1 DEF Answer
  <2>3. QED
    BY <1>2, <2>2 DEF StorePoll, NextPoll, TypeOK, cutVars, timerVars
<1>3. CASE PollFails(b)
  BY <1>3 DEF PollFails, NextPoll, TypeOK, cutVars, timerVars
<1>4. QED
  BY <1>1, <1>2, <1>3

LEMMA InitTyped == Init => TypeOK
BY ConstantsOK DEF Init, TypeOK, For, Reason

\* Every step keeps the types.
LEMMA StepTyped == TypeOK /\ [Next]_vars => TypeOK'
<1> SUFFICES ASSUME TypeOK, [Next]_vars PROVE TypeOK'
  OBVIOUS
<1>1. ASSUME NEW d \in 1..MaxLate, Cycle(d) PROVE TypeOK'
  BY <1>1, CycleTyped
<1>2. ASSUME NEW k \in calls, CallReachesPlug(k) \/ CallSucceeds(k) \/ CallFails(k)
      PROVE  TypeOK'
  BY <1>2, CallTyped
<1>3. ASSUME NEW b \in Battery, ManualReset(b) PROVE TypeOK'
  <2>1. Spawn("manual reset", {b}) \subseteq Call
    BY CallsTyped DEF CallKind
  <2>2. QED
    BY <1>3, <2>1 DEF ManualReset, TypeOK, cutVars, timerVars
<1>4. ASSUME NEW b \in Battery, PlugAnswersPoll(b) \/ StorePoll(b) \/ PollFails(b)
      PROVE  TypeOK'
  BY <1>4, PollTyped
<1>5. ASSUME NEW b \in Battery, SocChanges(b) PROVE TypeOK'
  BY <1>5 DEF SocChanges, TypeOK, cutVars, timerVars
<1>6. CASE Sunset
  BY <1>6, ConstantsOK DEF Sunset, TypeOK, cutVars, timerVars
<1>7. CASE Restart
  <2>1. /\ plug_cut_until' \in [Battery -> Nat \cup {None}]
        /\ plug_cut_reason' \in [Battery -> Reason]
        /\ plug_relay_state' \in [Battery -> BOOLEAN]
        /\ last_plug_w' \in [Battery -> PlugPower \cup {0}]
        /\ poll' \in [Battery -> Answer \cup {Due, None}]
        /\ soc' \in [Battery -> {"unknown", "empty", "charged"}]
    BY <1>7 DEF Restart, Reason
  <2>2. /\ overload_started_at' \in [Circuit -> For]
        /\ soft_remediation_started_at' \in [Circuit -> For]
        /\ over_for' \in [Circuit -> 0..MaxFor]
    BY <1>7, ConstantsOK DEF Restart, For
  <2>3. QED
    BY <1>7, <2>1, <2>2 DEF Restart, TypeOK
<1>8. CASE UNCHANGED vars
  BY <1>8 DEF vars, TypeOK, cutVars, timerVars
<1>9. QED
  BY <1>1, <1>2, <1>3, <1>4, <1>5, <1>6, <1>7, <1>8 DEF Next

\* Whatever happens, every variable keeps its type.
THEOREM TypeCorrect == Spec => []TypeOK
<1>1. QED
  BY InitTyped, StepTyped, PTL DEF Spec

-----------------------------------------------------------------------------
\* A cycle keeps the flag and the reason of every cut together.
LEMMA CycleKeepsFlags ==
    ASSUME IInv, NEW d \in 1..MaxLate, Cycle(d)
    PROVE  CutFlagsAgree'
<1> SUFFICES ASSUME NEW b \in Battery
             PROVE  plug_cut_until'[b] # None
                      <=> plug_cut_reason'[b] \in {"circuit", "night"}
  BY DEF CutFlagsAgree
<1> USE ConstantsOK
<1>1. NightLeft(d) # None /\ Recovery # None
  BY DEF NightLeft, IInv, TypeOK
<1>2. Left(plug_cut_until[b], d) # None <=> plug_cut_reason[b] \in {"circuit", "night"}
  BY DEF Left, IInv, TypeOK, CutFlagsAgree
<1>3. StampedCut(b, d) # None <=> StampedReason(b, d) \in {"circuit", "night"}
  BY <1>1, <1>2 DEF StampedCut, StampedReason
<1>4. QED
  BY <1>1, <1>3 DEF Cycle

\* A cycle keeps the ages of an escalation in step with the overload.
LEMMA CycleKeepsAges ==
    ASSUME IInv, NEW d \in 1..MaxLate, Cycle(d)
    PROVE  OverloadIsReal' /\ SoftAfterGrace'
<1> USE ConstantsOK
<1>1. d \in Nat /\ d > 0 /\ Grace \in Nat /\ MaxFor \in Nat /\ None \notin Nat
  OBVIOUS
<1>2. ASSUME NEW c \in Circuit
      PROVE  /\ overload_started_at[c] \in Nat \/ overload_started_at[c] = None
             /\ overload_started_at[c] # None => overload_started_at[c] <= MaxFor
             /\ soft_remediation_started_at[c] \in Nat \/ soft_remediation_started_at[c] = None
             /\ soft_remediation_started_at[c] # None => soft_remediation_started_at[c] <= MaxFor
             /\ over_for[c] \in Nat /\ over_for[c] <= MaxFor
  BY DEF IInv, TypeOK, For
<1>3. OverloadIsReal'
  <2> SUFFICES ASSUME NEW c \in Circuit, Margin > 0, overload_started_at'[c] # None
               PROVE  over_for'[c] > overload_started_at'[c] \/ over_for'[c] = MaxFor
    BY DEF OverloadIsReal
  <2>1. overload_started_at'[c] = OverloadAge(c, d) /\ Overload(c)
    BY DEF Cycle, OverloadAge
  <2>2. over_for'[c] = AtMost(over_for[c] + d, MaxFor)
    BY <2>1 DEF Cycle
  <2>3. CASE overload_started_at[c] = None
    <3>1. overload_started_at'[c] = 0
      BY <2>1, <2>3 DEF OverloadAge
    <3>2. QED
      BY <1>1, <1>2, <2>2, <3>1 DEF AtMost
  <2>4. CASE overload_started_at[c] # None
    <3>1. overload_started_at'[c] = AtMost(overload_started_at[c] + d, MaxFor)
      BY <2>1, <2>4 DEF OverloadAge, Since
    <3>2. over_for[c] > overload_started_at[c] \/ over_for[c] = MaxFor
      BY <2>4 DEF IInv, OverloadIsReal
    <3>3. QED
      BY <1>1, <1>2, <2>2, <2>4, <3>1, <3>2 DEF AtMost
  <2>5. QED
    BY <2>3, <2>4
<1>4. SoftAfterGrace'
  <2> SUFFICES ASSUME NEW c \in Circuit, soft_remediation_started_at'[c] # None
               PROVE  /\ overload_started_at'[c] # None
                      /\ \/ overload_started_at'[c] >= soft_remediation_started_at'[c] + Grace
                         \/ overload_started_at'[c] = MaxFor
    BY DEF SoftAfterGrace
  <2>1. CASE ~(Margin > 0)
    BY <2>1 DEF Cycle, IInv, SoftAfterGrace
  <2>2. CASE Margin > 0
    <3>1. /\ overload_started_at'[c] = OverloadAge(c, d)
          /\ soft_remediation_started_at'[c] = SoftAge(c, d)
          /\ Overload(c)
      BY <2>2 DEF Cycle, SoftAge
    <3>2. CASE soft_remediation_started_at[c] # None
      <4>1. /\ overload_started_at[c] # None
            /\ \/ overload_started_at[c] >= soft_remediation_started_at[c] + Grace
               \/ overload_started_at[c] = MaxFor
        BY <3>2 DEF IInv, SoftAfterGrace
      <4>2. /\ overload_started_at'[c] = AtMost(overload_started_at[c] + d, MaxFor)
            /\ soft_remediation_started_at'[c]
                 = AtMost(soft_remediation_started_at[c] + d, MaxFor)
        BY <3>1, <3>2, <4>1 DEF OverloadAge, SoftAge, Since
      <4>3. QED
        BY <1>1, <1>2, <3>2, <4>1, <4>2 DEF AtMost
    <3>3. CASE soft_remediation_started_at[c] = None
      <4>1. AtLeast(OverloadAge(c, d), Grace) /\ soft_remediation_started_at'[c] = 0
        BY <3>1, <3>3 DEF SoftAge, Since
      <4>2. QED
        BY <1>1, <3>1, <4>1 DEF AtLeast
    <3>4. QED
      BY <3>2, <3>3
  <2>3. QED
    BY <2>1, <2>2
<1>5. QED
  BY <1>3, <1>4

\* A cycle keeps the window of every trip within the recovery time.
LEMMA CycleKeepsWindow ==
    ASSUME IInv, NEW d \in 1..MaxLate, Cycle(d)
    PROVE  WindowBounded'
<1> SUFFICES ASSUME NEW b \in Battery, plug_cut_reason'[b] = "circuit"
             PROVE  plug_cut_until'[b] <= Recovery
  BY DEF WindowBounded
<1> USE ConstantsOK
<1>1. /\ StampedReason(b, d) = "circuit"
      /\ plug_cut_until'[b] = StampedCut(b, d)
  BY DEF Cycle
<1>2. CASE b \in ToTrip(d)
  BY <1>1, <1>2 DEF StampedCut
<1>3. CASE b \notin ToTrip(d)
  <2>1. plug_cut_reason[b] = "circuit" /\ plug_cut_until'[b] = Left(plug_cut_until[b], d)
    BY <1>1, <1>3 DEF StampedCut, StampedReason
  <2>2. plug_cut_until[b] \in Nat /\ plug_cut_until[b] <= Recovery
    BY <2>1 DEF IInv, TypeOK, WindowBounded, CutFlagsAgree
  <2>3. QED
    BY <2>1, <2>2 DEF Left
<1>4. QED
  BY <1>2, <1>3

\* The invariant is inductive.
LEMMA InvInit == Init => IInv
BY InitTyped DEF Init, IInv, CutFlagsAgree, OverloadIsReal, SoftAfterGrace, WindowBounded

LEMMA InvStep == IInv /\ [Next]_vars => IInv'
<1> SUFFICES ASSUME IInv, [Next]_vars PROVE IInv'
  OBVIOUS
<1>1. TypeOK /\ TypeOK'
  BY StepTyped DEF IInv
<1>2. ASSUME NEW d \in 1..MaxLate, Cycle(d) PROVE IInv'
  BY <1>1, <1>2, CycleKeepsFlags, CycleKeepsAges, CycleKeepsWindow DEF IInv
<1>3. ASSUME NEW k \in calls, CallReachesPlug(k) PROVE IInv'
  BY <1>1, <1>3 DEF CallReachesPlug, IInv, CutFlagsAgree, OverloadIsReal,
                    SoftAfterGrace, WindowBounded, cutVars, timerVars
<1>4. ASSUME NEW k \in calls, CallSucceeds(k) \/ CallFails(k) PROVE IInv'
  <2>1. k.battery \in Battery
    BY <1>1 DEF TypeOK, Call
  <2>2. UNCHANGED timerVars
    BY <1>4 DEF CallSucceeds, CallFails
  <2>3. OverloadIsReal' /\ SoftAfterGrace'
    BY <2>2 DEF IInv, OverloadIsReal, SoftAfterGrace, timerVars
  <2>4. \A b \in Battery :
          \/ plug_cut_until'[b] = plug_cut_until[b] /\ plug_cut_reason'[b] = plug_cut_reason[b]
          \/ plug_cut_until'[b] = None /\ plug_cut_reason'[b] \notin {"circuit", "night"}
    <3>1. CASE CallSucceeds(k)
      <4>1. \/ UNCHANGED cutVars
            \/ /\ plug_cut_until' = [plug_cut_until EXCEPT ![k.battery] = None]
               /\ plug_cut_reason' = [plug_cut_reason EXCEPT ![k.battery] = "none"]
        BY <3>1, Zenon DEF CallSucceeds
      <4>2. QED
        BY <1>1, <2>1, <4>1 DEF cutVars, TypeOK
    <3>2. CASE CallFails(k)
      BY <1>1, <2>1, <3>2 DEF CallFails, cutVars, TypeOK
    <3>3. QED
      BY <1>4, <3>1, <3>2
  <2>5. CutFlagsAgree' /\ WindowBounded'
    BY <2>4 DEF IInv, CutFlagsAgree, WindowBounded
  <2>6. QED
    BY <1>1, <2>3, <2>5 DEF IInv
<1>5. ASSUME NEW b \in Battery,
             ManualReset(b) \/ PlugAnswersPoll(b) \/ StorePoll(b) \/ PollFails(b)
               \/ SocChanges(b)
      PROVE  IInv'
  <2>1. UNCHANGED <<cutVars, timerVars>>
    BY <1>5 DEF ManualReset, PlugAnswersPoll, StorePoll, PollFails, SocChanges
  <2>2. QED
    BY <1>1, <2>1 DEF IInv, CutFlagsAgree, OverloadIsReal, SoftAfterGrace,
                      WindowBounded, cutVars, timerVars
<1>6. CASE Sunset \/ UNCHANGED vars
  <2>1. UNCHANGED <<cutVars, timerVars>>
    BY <1>6 DEF Sunset, vars
  <2>2. QED
    BY <1>1, <2>1 DEF IInv, CutFlagsAgree, OverloadIsReal, SoftAfterGrace,
                      WindowBounded, cutVars, timerVars
<1>7. CASE Restart
  BY <1>1, <1>7 DEF Restart, IInv, CutFlagsAgree, OverloadIsReal, SoftAfterGrace,
                    WindowBounded
<1>8. QED
  BY <1>2, <1>3, <1>4, <1>5, <1>6, <1>7 DEF Next

\* The flags of a cut agree, the overload timer never runs ahead of the overload, the
\* second grace starts when the first has passed, and no cut has more than its
\* window left: for any batteries, circuits and graces.
THEOREM Invariance == Spec => []IInv
<1>1. QED
  BY InvInit, InvStep, PTL DEF Spec

\* Between cycles, no action starts or extends a cut.
LEMMA OnlyCyclesCut ==
    ASSUME IInv, [Next]_vars, NEW b \in Battery
    PROVE  \/ \E d \in 1..MaxLate : Cycle(d)
           \/ plug_cut_until'[b] = plug_cut_until[b]
           \/ plug_cut_until'[b] = None
<1>1. ASSUME NEW k \in calls, CallSucceeds(k) \/ CallFails(k)
      PROVE  plug_cut_until'[b] = plug_cut_until[b] \/ plug_cut_until'[b] = None
  BY <1>1 DEF CallSucceeds, CallFails, cutVars, IInv, TypeOK
<1>2. ASSUME NEW k \in calls, CallReachesPlug(k)
      PROVE  plug_cut_until'[b] = plug_cut_until[b]
  BY <1>2 DEF CallReachesPlug, cutVars
<1>3. ASSUME NEW a \in Battery,
             ManualReset(a) \/ PlugAnswersPoll(a) \/ StorePoll(a) \/ PollFails(a)
               \/ SocChanges(a)
      PROVE  plug_cut_until'[b] = plug_cut_until[b]
  BY <1>3 DEF ManualReset, PlugAnswersPoll, StorePoll, PollFails, SocChanges, cutVars
<1>4. CASE Sunset \/ Restart \/ UNCHANGED vars
  BY <1>4 DEF Sunset, Restart, vars, cutVars
<1>5. QED
  BY <1>1, <1>2, <1>3, <1>4 DEF Next

-----------------------------------------------------------------------------
\* The flag and the reason of a cut never disagree, whatever the order in
\* which the dispatcher, the HTTP tasks and the admin API write them.
THEOREM FlagsAlwaysAgree == Spec => []CutFlagsAgree
<1>1. IInv => CutFlagsAgree
  BY DEF IInv
<1>2. QED
  BY <1>1, Invariance, PTL

\* No relay is opened for an overload shorter than the two graces.
THEOREM NoEarlyTrip == Spec => TripOnlyAfterSustainedOverload
<1>1. IInv /\ IInv' /\ [Next]_vars =>
        [\A b \in Battery :
            JustTripped(b) => over_for'[CircuitOf[b]] >= Grace + SoftGrace]_vars
  <2> SUFFICES ASSUME IInv, IInv', [Next]_vars, NEW b \in Battery, JustTripped(b)
               PROVE  over_for'[CircuitOf[b]] >= Grace + SoftGrace
    OBVIOUS
  <2> USE ConstantsOK
  <2> DEFINE c == CircuitOf[b]
  <2>1. Recovery \in Nat /\ Recovery # None /\ c \in Circuit
    OBVIOUS
  <2>2. PICK d \in 1..MaxLate : Cycle(d)
    BY <2>1, OnlyCyclesCut DEF JustTripped
  <2>3. b \in ToTrip(d)
    <3> SUFFICES ASSUME b \notin ToTrip(d) PROVE FALSE
      OBVIOUS
    <3>1. /\ plug_cut_reason[b] = "circuit"
          /\ plug_cut_until'[b] = Left(plug_cut_until[b], d)
      BY <2>2 DEF JustTripped, Cycle, StampedCut, StampedReason
    <3>2. plug_cut_until[b] \in Nat /\ plug_cut_until[b] <= Recovery
      BY <3>1 DEF IInv, TypeOK, WindowBounded, CutFlagsAgree
    <3>3. QED
      BY <2>1, <3>1, <3>2 DEF JustTripped, Left
  <2>4. /\ Margin > 0
        /\ AtLeast(soft_remediation_started_at'[c], SoftGrace)
    BY <2>2, <2>3 DEF ToTrip, Cycle
  <2>5. soft_remediation_started_at'[c] \in 0..MaxFor
    BY <2>4 DEF IInv, TypeOK, For, AtLeast
  <2>6. /\ overload_started_at'[c] \in 0..MaxFor
        /\ overload_started_at'[c] >= Grace + SoftGrace
    BY <2>4, <2>5 DEF IInv, TypeOK, For, SoftAfterGrace, AtLeast
  <2>7. over_for'[c] \in 0..MaxFor
    BY DEF IInv, TypeOK
  <2>8. over_for'[c] > overload_started_at'[c] \/ over_for'[c] = MaxFor
    BY <2>4, <2>6 DEF IInv, OverloadIsReal
  <2>9. QED
    BY <2>6, <2>7, <2>8
<1>2. QED
  BY <1>1, Invariance, PTL DEF Spec, TripOnlyAfterSustainedOverload

\* No action extends a cut that is still running.
THEOREM NoCutExtended == Spec => RunningCutNotExtended
<1>1. IInv /\ [Next]_vars =>
        [\A b \in Battery :
            plug_cut_until[b] # None /\ plug_cut_until[b] > MaxLate =>
              plug_cut_until'[b] = None \/ plug_cut_until'[b] <= plug_cut_until[b]]_vars
  <2> SUFFICES ASSUME IInv, [Next]_vars, NEW b \in Battery,
                      plug_cut_until[b] # None, plug_cut_until[b] > MaxLate
               PROVE  plug_cut_until'[b] = None \/ plug_cut_until'[b] <= plug_cut_until[b]
    OBVIOUS
  <2> USE ConstantsOK
  <2>1. plug_cut_until[b] \in Nat
    BY DEF IInv, TypeOK
  <2>2. ASSUME NEW d \in 1..MaxLate, Cycle(d)
        PROVE  plug_cut_until'[b] = None \/ plug_cut_until'[b] <= plug_cut_until[b]
    <3>1. /\ Left(plug_cut_until[b], d) = plug_cut_until[b] - d
          /\ plug_cut_until[b] - d \in Nat \ {0}
      BY <2>1 DEF Left
    <3>2. b \notin ToTrip(d)
      BY <3>1 DEF ToTrip, IsWorst, Offenders, Commandable
    <3>3. StampedCut(b, d) = plug_cut_until[b] - d /\ b \notin ToCut(d)
      BY <3>1, <3>2 DEF StampedCut, ToCut
    <3>4. plug_cut_until'[b] \in {None, plug_cut_until[b] - d}
      BY <2>2, <3>3 DEF Cycle
    <3>5. plug_cut_until[b] - d <= plug_cut_until[b]
      BY <2>1
    <3>6. QED
      BY <3>4, <3>5
  <2>3. QED
    BY <2>1, <2>2, OnlyCyclesCut
<1>2. QED
  BY <1>1, Invariance, PTL DEF Spec, RunningCutNotExtended

-----------------------------------------------------------------------------
(***************************************************************************)
(* The emergency cutoff alone, with calls and polls that are answered      *)
(* within a cycle (cutoff_recovery): every relay is in one of six stages,  *)
(* and an expired cut is never tripped, for its plug was seen to be off.   *)
(***************************************************************************)
EmergencyOnly ==
    /\ ~NightCutoff /\ ResetByHand = {} /\ ~MayRestart /\ ~PollsMayFail
    /\ CallTimeout = 0 /\ PollTimeout = 0
    /\ "lost" \notin Outcomes["trip"] \cup Outcomes["reenable"]

Calls(b) == {k \in calls : k.battery = b}

\* The one call in flight for b.
One(b, kind, applied) ==
    \E k \in calls : Calls(b) = {k} /\ k.kind = kind /\ (k.applied <=> applied)

Untouched(b) == plug_cut_until[b] = None /\ relay[b] /\ Calls(b) = {}
Tripping(b)  == plug_cut_until[b] = Recovery /\ relay[b] /\ One(b, "trip", FALSE)
Tripped(b)   == plug_cut_until[b] = Recovery /\ ~relay[b] /\ One(b, "trip", TRUE)
Waiting(b)   == plug_cut_until[b] # None /\ ~relay[b] /\ Calls(b) = {}
Closing(b)   == plug_cut_until[b] = 0 /\ ~relay[b] /\ One(b, "reenable", FALSE)
Closed(b)    == plug_cut_until[b] = 0 /\ relay[b] /\ One(b, "reenable", TRUE)

Stage(b) ==
    Untouched(b) \/ Tripping(b) \/ Tripped(b) \/ Waiting(b) \/ Closing(b) \/ Closed(b)

\* What the poller knows of a relay that has been open since the last poll began.
SeenOpen(b) ==
    plug_cut_until[b] # Recovery /\ (Waiting(b) \/ Closing(b)) =>
        /\ InFlight(poll[b]) => ~poll[b].on
        /\ poll[b] = None => ~plug_relay_state[b]

Staged == \A b \in Battery :
    /\ Stage(b)
    /\ SeenOpen(b)

LEMMA StagedInit == Init => Staged
<1> SUFFICES ASSUME Init, NEW b \in Battery PROVE Untouched(b)
  BY ConstantsOK DEF Staged, Stage, SeenOpen, Waiting, Closing, Untouched
<1>1. QED
  BY DEF Init, Untouched, Calls

\* Of the calls spawned for a set of batteries, one is for each of them.
LEMMA SpawnedOne ==
    ASSUME NEW kind, NEW S, NEW b \in S
    PROVE  \E k \in Spawn(kind, S) : /\ {j \in Spawn(kind, S) : j.battery = b} = {k}
                                     /\ k.kind = kind /\ ~k.applied
<1> DEFINE f == [x \in S |-> [battery |-> x, kind |-> kind, age |-> 0, applied |-> FALSE]]
<1>1. \A x \in S : f[x].battery = x /\ f[x].kind = kind /\ f[x].applied = FALSE
  OBVIOUS
<1>2. Spawn(kind, S) = {f[x] : x \in S}
  BY DEF Spawn
<1> HIDE DEF f
<1>3. f[b] \in Spawn(kind, S) /\ {j \in Spawn(kind, S) : j.battery = b} = {f[b]}
  BY <1>1, <1>2
<1>4. f[b].kind = kind /\ ~f[b].applied
  BY <1>1, Zenon
<1>5. QED
  BY <1>3, <1>4

\* Where calls are answered within a cycle, none is in flight when the next begins.
LEMMA QuietCalls ==
    ASSUME TypeOK, CallTimeout = 0, NEW d \in 1..MaxLate, Cycle(d)
    PROVE  calls = {}
<1> SUFFICES ASSUME NEW k \in calls PROVE FALSE
  OBVIOUS
<1>1. d \in Nat /\ d >= 1
  BY ConstantsOK
<1>2. k.age \in Nat
  BY ConstantsOK DEF TypeOK, Call
<1>3. k.age + d <= 0
  BY DEF Cycle
<1>4. QED
  BY <1>1, <1>2, <1>3

\* No call and no answer of a poll outlives the distance of two cycles.
LEMMA QuietCycle ==
    ASSUME TypeOK, EmergencyOnly, NEW d \in 1..MaxLate, Cycle(d)
    PROVE  calls = {} /\ \A b \in Battery : poll[b] = None
<1>1. d \in Nat /\ d >= 1
  BY ConstantsOK
<1>2. calls = {}
  BY QuietCalls DEF EmergencyOnly
<1>3. ASSUME NEW b \in Battery, poll[b] # None PROVE FALSE
  <2>1. InFlight(poll[b])
    BY <1>3 DEF Cycle, EmergencyOnly, InFlight
  <2>2. poll[b].age \in Nat
    BY <2>1, ConstantsOK DEF TypeOK, Answer, InFlight
  <2>3. poll[b].age + d <= 0
    BY <2>1 DEF Cycle, EmergencyOnly
  <2>4. QED
    BY <1>1, <2>2, <2>3
<1>4. QED
  BY <1>2, <1>3

LEMMA CycleStaged ==
    ASSUME TypeOK, EmergencyOnly, Staged, NEW d \in 1..MaxLate, Cycle(d)
    PROVE  Staged'
<1>1. calls = {} /\ \A b \in Battery : poll[b] = None
  BY QuietCycle
<1>2. ToCut(d) = {} /\ ToRestore(d) = {}
  BY DEF ToCut, ToRestore, EmergencyOnly
<1>3. calls' = Spawn("trip", ToTrip(d)) \cup Spawn("reenable", ToReenable(d))
  BY <1>1, <1>2 DEF Cycle, Aged, Spawn
<1>4. d \in Nat \ {0} /\ Recovery \in Nat /\ Recovery > d /\ MaxLate \in Nat
  BY ConstantsOK
<1>5. SUFFICES ASSUME NEW b \in Battery PROVE (Stage(b) /\ SeenOpen(b))'
  BY DEF Staged, Stage
<1>6. /\ plug_cut_until'[b] = StampedCut(b, d)
      /\ relay'[b] = relay[b]
      /\ poll'[b] = Due
  BY <1>1, <1>2 DEF Cycle, InFlight
<1>7. SeenOpen(b)'
  BY <1>6, ConstantsOK DEF SeenOpen, InFlight
<1>8. /\ b \notin ToTrip(d) /\ b \notin ToReenable(d) => Calls(b)' = {}
      /\ b \in ToTrip(d) /\ b \notin ToReenable(d) => One(b, "trip", FALSE)'
      /\ b \notin ToTrip(d) /\ b \in ToReenable(d) => One(b, "reenable", FALSE)'
  <2>1. Calls(b)' = {k \in Spawn("trip", ToTrip(d)) : k.battery = b}
                        \cup {k \in Spawn("reenable", ToReenable(d)) : k.battery = b}
    BY <1>3 DEF Calls
  <2>3. {k \in Spawn("trip", ToTrip(d)) : k.battery = b} = {} \/ b \in ToTrip(d)
    BY DEF Spawn
  <2>4. {k \in Spawn("reenable", ToReenable(d)) : k.battery = b} = {} \/ b \in ToReenable(d)
    BY DEF Spawn
  <2>5. CASE b \notin ToTrip(d) /\ b \notin ToReenable(d)
    BY <2>1, <2>3, <2>4, <2>5
  <2>6. CASE b \in ToTrip(d) /\ b \notin ToReenable(d)
    <3>1. Calls(b)' = {k \in Spawn("trip", ToTrip(d)) : k.battery = b}
      BY <2>1, <2>4, <2>6
    <3>2. PICK k \in Spawn("trip", ToTrip(d)) :
              /\ {j \in Spawn("trip", ToTrip(d)) : j.battery = b} = {k}
              /\ k.kind = "trip" /\ ~k.applied
      BY <2>6, SpawnedOne
    <3>3. k \in calls' /\ Calls(b)' = {k}
      BY <1>3, <3>1, <3>2
    <3>4. One(b, "trip", FALSE)'
      BY <3>2, <3>3, Zenon DEF One
    <3>5. QED
      BY <2>6, <3>4
  <2>7. CASE b \notin ToTrip(d) /\ b \in ToReenable(d)
    <3>1. Calls(b)' = {k \in Spawn("reenable", ToReenable(d)) : k.battery = b}
      BY <2>1, <2>3, <2>7
    <3>2. PICK k \in Spawn("reenable", ToReenable(d)) :
              /\ {j \in Spawn("reenable", ToReenable(d)) : j.battery = b} = {k}
              /\ k.kind = "reenable" /\ ~k.applied
      BY <2>7, SpawnedOne
    <3>3. k \in calls' /\ Calls(b)' = {k}
      BY <1>3, <3>1, <3>2
    <3>4. One(b, "reenable", FALSE)'
      BY <3>2, <3>3, Zenon DEF One
    <3>5. QED
      BY <2>7, <3>4
  <2>8. QED
    BY <2>5, <2>6, <2>7
<1>9. CASE Untouched(b)
  <2>1. Left(plug_cut_until[b], d) = None /\ None # 0
    BY <1>9, ConstantsOK DEF Untouched, Left
  <2>2. b \notin ToReenable(d)
    BY <2>1 DEF ToReenable
  <2>3. CASE b \in ToTrip(d)
    <3>1. Tripping(b)'
      BY <1>6, <1>8, <1>9, <2>2, <2>3 DEF Tripping, Untouched, StampedCut
    <3>2. QED
      BY <1>7, <3>1 DEF Stage
  <2>4. CASE b \notin ToTrip(d)
    <3>1. Untouched(b)'
      BY <1>6, <1>8, <1>9, <2>1, <2>2, <2>4 DEF Untouched, StampedCut
    <3>2. QED
      BY <1>7, <3>1 DEF Stage
  <2>5. QED
    BY <2>3, <2>4
<1>10. CASE Waiting(b)
  <2>1. plug_cut_until[b] \in Nat
    BY <1>10 DEF Waiting, TypeOK
  <2>2. b \notin ToTrip(d)
    <3>1. CASE plug_cut_until[b] = Recovery
      <4>1. Left(plug_cut_until[b], d) = Recovery - d /\ Recovery - d \in Nat \ {0}
        BY <1>4, <3>1, ConstantsOK DEF Left
      <4>2. QED
        BY <4>1, ConstantsOK DEF ToTrip, IsWorst, Offenders, Commandable
    <3>2. CASE plug_cut_until[b] # Recovery
      <4>1. ~plug_relay_state[b]
        BY <1>1, <1>10, <3>2 DEF Staged, SeenOpen
      <4>2. QED
        BY <4>1 DEF ToTrip, IsWorst, Offenders, Members
    <3>3. QED
      BY <3>1, <3>2
  <2>3. Left(plug_cut_until[b], d) \in Nat
    BY <1>4, <2>1, ConstantsOK DEF Left
  <2>4. plug_cut_until'[b] = Left(plug_cut_until[b], d) /\ plug_cut_until'[b] # None
    BY <1>6, <2>2, <2>3, ConstantsOK DEF StampedCut
  <2>5. CASE b \in ToReenable(d)
    <3>1. Closing(b)'
      BY <1>6, <1>8, <1>10, <2>2, <2>4, <2>5 DEF Closing, Waiting, ToReenable
    <3>2. QED
      BY <1>7, <3>1 DEF Stage
  <2>6. CASE b \notin ToReenable(d)
    <3>1. Waiting(b)'
      BY <1>6, <1>8, <1>10, <2>2, <2>4, <2>6 DEF Waiting
    <3>2. QED
      BY <1>7, <3>1 DEF Stage
  <2>7. QED
    BY <2>5, <2>6
<1>11. Untouched(b) \/ Waiting(b)
  <2>1. \A kind, applied : ~One(b, kind, applied)
    BY <1>1 DEF One
  <2>2. QED
    BY <2>1 DEF Staged, Stage, Tripping, Tripped, Closing, Closed
<1>12. QED
  BY <1>9, <1>10, <1>11

\* A call in flight is the only one of its battery, and says in which stage it is.
LEMMA CallTells ==
    ASSUME TypeOK, Staged, NEW k \in calls
    PROVE  /\ k.battery \in Battery
           /\ Calls(k.battery) = {k}
           /\ \/ k.kind = "trip" /\ ~k.applied /\ Tripping(k.battery)
              \/ k.kind = "trip" /\ k.applied /\ Tripped(k.battery)
              \/ k.kind = "reenable" /\ ~k.applied /\ Closing(k.battery)
              \/ k.kind = "reenable" /\ k.applied /\ Closed(k.battery)
<1>1. k.battery \in Battery /\ k \in Calls(k.battery)
  BY DEF TypeOK, Call, Calls
<1>2. ~Untouched(k.battery) /\ ~Waiting(k.battery)
  BY <1>1 DEF Untouched, Waiting
<1>3. Tripping(k.battery) \/ Tripped(k.battery) \/ Closing(k.battery) \/ Closed(k.battery)
  BY <1>1, <1>2 DEF Staged, Stage
<1>4. ASSUME NEW kind, NEW applied, One(k.battery, kind, applied)
      PROVE  Calls(k.battery) = {k} /\ k.kind = kind /\ (k.applied <=> applied)
  BY <1>1, <1>4, Zenon DEF One
<1>5. QED
  BY <1>1, <1>3, <1>4, Zenon DEF Tripping, Tripped, Closing, Closed

\* What a call does to its battery leaves the others where they are.
LEMMA OthersStaged ==
    ASSUME Staged, NEW b \in Battery,
           Calls(b)' = Calls(b), plug_cut_until'[b] = plug_cut_until[b],
           relay'[b] = relay[b], plug_relay_state'[b] = plug_relay_state[b],
           poll'[b] = poll[b]
    PROVE  (Stage(b) /\ SeenOpen(b))'
<1>0. \A kind, applied : One(b, kind, applied)' = One(b, kind, applied)
  <2>1. \A k : Calls(b) = {k} => k \in calls /\ k \in calls'
    BY DEF Calls
  <2>2. QED
    BY <2>1 DEF One
<1>1. Stage(b)'
  BY <1>0 DEF Staged, Stage, Untouched, Tripping, Tripped, Waiting, Closing, Closed
<1>2. SeenOpen(b)'
  <2>1. (Waiting(b) \/ Closing(b))' = (Waiting(b) \/ Closing(b))
    BY <1>0 DEF Waiting, Closing
  <2>2. SeenOpen(b)
    BY DEF Staged
  <2>3. QED
    BY <2>1, <2>2 DEF SeenOpen, InFlight
<1>3. QED
  BY <1>1, <1>2

LEMMA CallStaged ==
    ASSUME TypeOK, EmergencyOnly, Staged, NEW k \in calls,
           CallReachesPlug(k) \/ CallSucceeds(k) \/ CallFails(k)
    PROVE  Staged'
<1> DEFINE c == k.battery
<1>1. c \in Battery /\ Calls(c) = {k}
  BY CallTells
<1>2. SUFFICES ASSUME NEW b \in Battery PROVE (Stage(b) /\ SeenOpen(b))'
  BY DEF Staged, Stage
<1>3. poll' = poll
  BY DEF CallReachesPlug, CallSucceeds, CallFails
<1>4. CASE b # c
  <2>1. Calls(b)' = Calls(b)
    <3>1. [k EXCEPT !.applied = TRUE].battery = c
      BY DEF TypeOK, Call
    <3>2. \/ calls' = calls \ {k}
          \/ calls' = (calls \ {k}) \cup {[k EXCEPT !.applied = TRUE]}
      BY DEF CallReachesPlug, CallSucceeds, CallFails
    <3>3. QED
      BY <1>4, <3>1, <3>2 DEF Calls
  <2>2. /\ plug_cut_until'[b] = plug_cut_until[b]
        /\ relay'[b] = relay[b] /\ plug_relay_state'[b] = plug_relay_state[b]
    BY <1>4 DEF TypeOK, CallReachesPlug, CallSucceeds, CallFails, cutVars
  <2>3. QED
    BY <1>3, <2>1, <2>2, OthersStaged
<1>5. CASE b = c /\ CallReachesPlug(k)
  <2> DEFINE j == [k EXCEPT !.applied = TRUE]
  <2>0. j.battery = k.battery /\ j.kind = k.kind /\ j.applied
    <3>1. k \in Call
      BY DEF TypeOK
    <3>2. j.battery = k.battery /\ j.kind = k.kind /\ j.applied = TRUE
      BY <3>1 DEF Call
    <3>3. QED
      BY <3>2, Zenon
  <2> HIDE DEF j
  <2>1. /\ plug_cut_until'[b] = plug_cut_until[b]
        /\ relay'[b] = ClosesRelay(k)
        /\ Calls(b)' = {j} /\ j \in calls' /\ j.kind = k.kind /\ j.applied
    <3>1. calls' = (calls \ {k}) \cup {j}
      BY <1>5 DEF CallReachesPlug, j
    <3>2. Calls(b)' = {j}
      BY <1>1, <1>5, <2>0, <3>1 DEF Calls
    <3>3. plug_cut_until' = plug_cut_until /\ relay'[b] = ClosesRelay(k)
      BY <1>5 DEF CallReachesPlug, TypeOK, cutVars
    <3>4. QED
      BY <2>0, <3>1, <3>2, <3>3
  <2>2. CASE k.kind = "trip"
    <3>1. Tripping(c)
      BY <1>5, <2>2, CallTells DEF CallReachesPlug
    <3>2. ~ClosesRelay(k)
      BY <2>2 DEF ClosesRelay
    <3>3. One(b, "trip", TRUE)'
      BY <2>2, <2>1, Zenon DEF One
    <3>4. Tripped(b)'
      BY <1>5, <2>1, <3>1, <3>2, <3>3 DEF Tripped, Tripping
    <3>5. ~Waiting(b)' /\ ~Closing(b)'
      BY <2>1, <3>4, ConstantsOK DEF Tripped, Waiting, Closing
    <3>6. QED
      BY <3>4, <3>5 DEF Stage, SeenOpen
  <2>3. CASE k.kind = "reenable"
    <3>1. Closing(c)
      BY <1>5, <2>3, CallTells DEF CallReachesPlug
    <3>2. ClosesRelay(k)
      BY <2>3 DEF ClosesRelay
    <3>3. One(b, "reenable", TRUE)'
      BY <2>3, <2>1, Zenon DEF One
    <3>4. Closed(b)'
      BY <1>5, <2>1, <3>1, <3>2, <3>3 DEF Closed, Closing
    <3>5. ~Waiting(b)' /\ ~Closing(b)'
      BY <2>1, <3>4, ConstantsOK DEF Closed, Waiting, Closing
    <3>6. QED
      BY <3>4, <3>5 DEF Stage, SeenOpen
  <2>4. QED
    BY <2>2, <2>3, CallTells
<1>6. CASE b = c /\ CallSucceeds(k)
  <2>1. Calls(b)' = {} /\ relay'[b] = relay[b] /\ k.applied
    BY <1>1, <1>6 DEF Calls, CallSucceeds
  <2>2. CASE k.kind = "trip"
    <3>1. Tripped(c)
      BY <2>1, <2>2, CallTells
    <3>2. plug_cut_until'[b] = Recovery
      BY <1>6, <2>2, <3>1 DEF CallSucceeds, cutVars, Tripped
    <3>3. Waiting(b)'
      BY <1>6, <2>1, <3>1, <3>2, ConstantsOK DEF Waiting, Tripped
    <3>4. QED
      BY <3>2, <3>3 DEF Stage, SeenOpen
  <2>3. CASE k.kind = "reenable"
    <3>1. Closed(c)
      BY <2>1, <2>3, CallTells
    <3>2. plug_cut_until'[b] = None
      BY <1>6, <2>3 DEF CallSucceeds, TypeOK
    <3>3. Untouched(b)'
      BY <1>6, <2>1, <3>1, <3>2 DEF Untouched, Closed
    <3>4. None # 0
      BY ConstantsOK
    <3>5. ~Waiting(b)' /\ ~Closing(b)'
      BY <3>2, <3>4 DEF Waiting, Closing
    <3>6. QED
      BY <3>3, <3>5 DEF Stage, SeenOpen
  <2>4. QED
    BY <2>2, <2>3, CallTells
<1>7. CASE b = c /\ CallFails(k)
  <2>1. ~k.applied
    BY <1>7, CallTells DEF CallFails, EmergencyOnly
  <2>2. Calls(b)' = {} /\ relay'[b] = relay[b]
    BY <1>1, <1>7 DEF Calls, CallFails
  <2>3. CASE k.kind = "trip"
    <3>1. Tripping(c)
      BY <2>1, <2>3, CallTells
    <3>2. plug_cut_until'[b] = None
      BY <1>7, <2>3 DEF CallFails, ClosesRelay, TypeOK
    <3>3. Untouched(b)'
      BY <1>7, <2>2, <3>1, <3>2 DEF Untouched, Tripping
    <3>4. None # 0
      BY ConstantsOK
    <3>5. ~Waiting(b)' /\ ~Closing(b)'
      BY <3>2, <3>4 DEF Waiting, Closing
    <3>6. QED
      BY <3>3, <3>5 DEF Stage, SeenOpen
  <2>4. CASE k.kind = "reenable"
    <3>1. Closing(c)
      BY <2>1, <2>4, CallTells
    <3>2. plug_cut_until'[b] = plug_cut_until[b] /\ plug_relay_state' = plug_relay_state
      BY <1>7, <2>4 DEF CallFails, ClosesRelay, cutVars
    <3>3. Waiting(b)'
      BY <1>7, <2>2, <3>1, <3>2, ConstantsOK DEF Waiting, Closing
    <3>4. SeenOpen(b)
      BY DEF Staged
    <3>5. SeenOpen(b)'
      BY <1>3, <1>7, <3>1, <3>2, <3>4 DEF SeenOpen, InFlight
    <3>6. QED
      BY <3>3, <3>5 DEF Stage
  <2>5. QED
    BY <2>3, <2>4, CallTells
<1>8. QED
  BY <1>4, <1>5, <1>6, <1>7

LEMMA StagedStep ==
    ASSUME TypeOK, EmergencyOnly, Staged, [Next]_vars
    PROVE  Staged'
<1>1. ASSUME NEW d \in 1..MaxLate, Cycle(d)
      PROVE  Staged'
  BY <1>1, CycleStaged
<1>2. ASSUME NEW k \in calls, CallReachesPlug(k) \/ CallSucceeds(k) \/ CallFails(k)
      PROVE  Staged'
  BY <1>2, CallStaged
<1>3. ASSUME NEW a \in Battery, PlugAnswersPoll(a) \/ StorePoll(a)
      PROVE  Staged'
  <2>1. SUFFICES ASSUME NEW b \in Battery PROVE (Stage(b) /\ SeenOpen(b))'
    BY DEF Staged, Stage
  <2>2. calls' = calls /\ plug_cut_until' = plug_cut_until /\ relay' = relay
    BY <1>3 DEF PlugAnswersPoll, StorePoll, cutVars
  <2>3. CASE b # a
    <3>1. Calls(b)' = Calls(b)
      BY <2>2 DEF Calls
    <3>2. plug_relay_state'[b] = plug_relay_state[b] /\ poll'[b] = poll[b]
      BY <1>3, <2>3 DEF TypeOK, PlugAnswersPoll, StorePoll
    <3>3. QED
      BY <2>2, <3>1, <3>2, OthersStaged
  <2>4. CASE b = a
    <3>1. \A kind, applied : One(b, kind, applied)' = One(b, kind, applied)
      BY <2>2 DEF One, Calls
    <3>2. Stage(b)'
      BY <2>2, <3>1 DEF Staged, Stage, Untouched, Tripping, Tripped, Waiting, Closing,
                        Closed, Calls
    <3>3. (Waiting(b) \/ Closing(b))' => ~relay[b]
      BY <2>2 DEF Waiting, Closing
    <3>4. (plug_cut_until[b] # Recovery /\ (Waiting(b) \/ Closing(b)))'
              => plug_cut_until[b] # Recovery /\ (Waiting(b) \/ Closing(b))
      BY <2>2, <3>1 DEF Waiting, Closing, Calls
    <3>5. CASE PlugAnswersPoll(a)
      <4>1. PICK w \in PlugPower :
                poll' = [poll EXCEPT ![a] =
                           [on |-> relay[a], w |-> IF relay[a] THEN w ELSE 0, age |-> 0]]
        BY <3>5 DEF PlugAnswersPoll
      <4>2. poll'[b].on = relay[b]
        BY <2>4, <4>1 DEF TypeOK
      <4>3. poll'[b] # None
        <5>1. poll'[b] \in [on: BOOLEAN, w: Int, age: Nat]
          BY <2>4, <4>1, ConstantsOK DEF TypeOK
        <5>2. QED
          BY <5>1, ConstantsOK
      <4>4. QED
        BY <3>2, <3>3, <4>2, <4>3 DEF SeenOpen
    <3>6. CASE StorePoll(a)
      <4>1. poll'[b] \in {Due, None} /\ plug_relay_state'[b] = poll[b].on /\ InFlight(poll[b])
        BY <2>4, <3>6 DEF TypeOK, StorePoll, NextPoll
      <4>2. SeenOpen(b)
        BY DEF Staged
      <4>3. QED
        BY <3>2, <3>4, <4>1, <4>2 DEF SeenOpen, InFlight
    <3>7. QED
      BY <1>3, <3>5, <3>6
  <2>5. QED
    BY <2>3, <2>4
<1>4. CASE UNCHANGED vars
  <2>1. SUFFICES ASSUME NEW b \in Battery PROVE (Stage(b) /\ SeenOpen(b))'
    BY DEF Staged, Stage
  <2>2. QED
    BY <1>4, OthersStaged DEF vars, cutVars, Calls
<1>5. (\E a \in Battery : ManualReset(a) \/ PollFails(a) \/ SocChanges(a)) \/ Sunset \/ Restart
          => FALSE
  BY DEF ManualReset, PollFails, SocChanges, Sunset, Restart, EmergencyOnly
<1>6. QED
  BY <1>1, <1>2, <1>3, <1>4, <1>5 DEF Next

LEMMA StagedRemembers == ASSUME Staged PROVE OpenPlugIsRemembered
<1> SUFFICES ASSUME NEW b \in Battery, ~relay[b]
             PROVE  plug_cut_until[b] # None
  BY DEF OpenPlugIsRemembered
<1>1. Tripped(b) \/ Waiting(b) \/ Closing(b)
  BY DEF Staged, Stage, Untouched, Tripping, Closed
<1>2. Recovery # None /\ None # 0
  BY ConstantsOK
<1>3. QED
  BY <1>1, <1>2 DEF Tripped, Waiting, Closing

\* Where only the emergency cutoff switches relays, nobody resets by hand, the
\* process does not restart, and every HTTP call is answered or refused before
\* the next cycle of the dispatcher, an open relay is never forgotten: whatever
\* the number of plugs and circuits, and however many calls are refused, the
\* cut that opened a relay stays marked until the plug has closed it again.
THEOREM OpenPlugsRemembered == ASSUME EmergencyOnly PROVE Spec => []OpenPlugIsRemembered
<1>1. Init => Staged
  BY StagedInit
<1>2. TypeOK /\ Staged /\ [Next]_vars => Staged'
  BY StagedStep
<1>3. Staged => OpenPlugIsRemembered
  BY StagedRemembers
<1>4. QED
  BY <1>1, <1>2, <1>3, TypeCorrect, PTL DEF Spec

-----------------------------------------------------------------------------
(***************************************************************************)
(* The night cutoff alone (cutoff_night): the emergency cutoff is switched *)
(* off by its margin, every call is answered within a cycle, a night cut   *)
(* may be refused, and a night restore is heard.  It is the one call that  *)
(* ends the cut before the relay is closed, so a restore that is refused   *)
(* would leave an open relay that nothing remembers.                       *)
(***************************************************************************)
NightOnly ==
    /\ Margin <= 0 /\ ResetByHand = {} /\ ~MayRestart /\ CallTimeout = 0
    /\ "lost" \notin Outcomes["night cut"]
    /\ Outcomes["night restore"] = {"ok"}

NightCutting(b) == plug_cut_until[b] # None /\ relay[b] /\ One(b, "night cut", FALSE)
NightDark(b)    == plug_cut_until[b] # None /\ ~relay[b] /\ One(b, "night cut", TRUE)
Restoring(b)    == plug_cut_until[b] = None /\ ~relay[b] /\ One(b, "night restore", FALSE)
Restored(b)     == plug_cut_until[b] = None /\ relay[b] /\ One(b, "night restore", TRUE)

NightStage(b) ==
    Untouched(b) \/ NightCutting(b) \/ NightDark(b) \/ Waiting(b) \/ Restoring(b) \/ Restored(b)

NightStaged == \A b \in Battery : NightStage(b)

LEMMA NightStagedInit == Init => NightStaged
<1> SUFFICES ASSUME Init, NEW b \in Battery PROVE Untouched(b)
  BY DEF NightStaged, NightStage
<1>1. QED
  BY DEF Init, Untouched, Calls

\* A cycle of the night cutoff starts no emergency call, and cuts no plug that
\* it restores.
LEMMA NightCycle ==
    ASSUME TypeOK, NightOnly, NEW d \in 1..MaxLate, Cycle(d)
    PROVE  /\ calls = {}
           /\ ToTrip(d) = {} /\ ToReenable(d) = {}
           /\ calls' = Spawn("night cut", ToCut(d)) \cup Spawn("night restore", ToRestore(d))
           /\ ToCut(d) \cap ToRestore(d) = {}
<1>1. calls = {}
  BY QuietCalls DEF NightOnly
<1>2. ToTrip(d) = {} /\ ToReenable(d) = {}
  <2>1. ~(Margin > 0)
    <3>1. Margin \in Int
      BY ConstantsOK
    <3>2. Margin <= 0
      BY DEF NightOnly
    <3>3. QED
      BY <3>1, <3>2
  <2>2. QED
    BY <2>1 DEF ToTrip, ToReenable
<1>3. calls' = Spawn("night cut", ToCut(d)) \cup Spawn("night restore", ToRestore(d))
  BY <1>1, <1>2 DEF Cycle, Aged, Spawn
<1>4. ToCut(d) \cap ToRestore(d) = {}
  BY DEF ToRestore
<1>5. QED
  BY <1>1, <1>2, <1>3, <1>4

LEMMA CycleNightStaged ==
    ASSUME TypeOK, CutFlagsAgree, NightOnly, NightStaged, NEW d \in 1..MaxLate, Cycle(d)
    PROVE  NightStaged'
<1>1. /\ calls = {}
      /\ ToTrip(d) = {} /\ ToReenable(d) = {}
      /\ calls' = Spawn("night cut", ToCut(d)) \cup Spawn("night restore", ToRestore(d))
      /\ ToCut(d) \cap ToRestore(d) = {}
  BY NightCycle
<1>2. SUFFICES ASSUME NEW b \in Battery PROVE NightStage(b)'
  BY DEF NightStaged, NightStage
<1>3. /\ StampedCut(b, d) = Left(plug_cut_until[b], d)
      /\ StampedReason(b, d) = plug_cut_reason[b]
      /\ relay'[b] = relay[b]
  BY <1>1 DEF StampedCut, StampedReason, Cycle
<1>4. Left(plug_cut_until[b], d) = None <=> plug_cut_until[b] = None
  <2>1. CASE plug_cut_until[b] = None
    BY <2>1 DEF Left
  <2>2. CASE plug_cut_until[b] # None
    <3>1. plug_cut_until[b] \in Nat /\ d \in Nat
      BY <2>2, ConstantsOK DEF TypeOK
    <3>2. Left(plug_cut_until[b], d) \in Int
      BY <2>2, <3>1 DEF Left
    <3>3. QED
      BY <2>2, <3>2, ConstantsOK
  <2>3. QED
    BY <2>1, <2>2
<1>5. Untouched(b) \/ Waiting(b)
  <2>1. \A kind, applied : ~One(b, kind, applied)
    BY <1>1 DEF One
  <2>2. QED
    BY <2>1 DEF NightStaged, NightStage, NightCutting, NightDark, Restoring, Restored
<1>6. Calls(b)' = {k \in Spawn("night cut", ToCut(d)) : k.battery = b}
                      \cup {k \in Spawn("night restore", ToRestore(d)) : k.battery = b}
  BY <1>1 DEF Calls
<1>7. /\ b \notin ToCut(d) => {k \in Spawn("night cut", ToCut(d)) : k.battery = b} = {}
      /\ b \notin ToRestore(d) => {k \in Spawn("night restore", ToRestore(d)) : k.battery = b} = {}
  <2>1. \A kind, S : \A k \in Spawn(kind, S) : k.battery \in S
    BY DEF Spawn
  <2>2. QED
    BY <2>1
<1>8. CASE b \in ToCut(d)
  <2>1. plug_cut_until[b] = None
    BY <1>3, <1>4, <1>8 DEF ToCut
  <2>2. Untouched(b)
    BY <1>5, <2>1 DEF Waiting
  <2>3. plug_cut_until'[b] # None
    <3>1. plug_cut_until'[b] = NightLeft(d)
      BY <1>8 DEF Cycle
    <3>2. NightLeft(d) \in Int
      BY AgesTyped, ConstantsOK
    <3>3. QED
      BY <3>1, <3>2, ConstantsOK
  <2>4. One(b, "night cut", FALSE)'
    <3>1. PICK k \in Spawn("night cut", ToCut(d)) :
              /\ {j \in Spawn("night cut", ToCut(d)) : j.battery = b} = {k}
              /\ k.kind = "night cut" /\ ~k.applied
      BY <1>8, SpawnedOne
    <3>2. k \in calls' /\ Calls(b)' = {k}
      BY <1>1, <1>6, <1>7, <1>8, <3>1
    <3>3. QED
      BY <3>1, <3>2, Zenon DEF One
  <2>5. NightCutting(b)'
    BY <1>3, <2>2, <2>3, <2>4 DEF NightCutting, Untouched
  <2>6. QED
    BY <2>5 DEF NightStage
<1>9. CASE b \in ToRestore(d)
  <2>1. plug_cut_until[b] # None
    BY <1>3, <1>9 DEF ToRestore, CutFlagsAgree
  <2>2. Waiting(b)
    BY <1>5, <2>1 DEF Untouched
  <2>3. plug_cut_until'[b] = None
    BY <1>1, <1>9 DEF Cycle
  <2>4. One(b, "night restore", FALSE)'
    <3>1. PICK k \in Spawn("night restore", ToRestore(d)) :
              /\ {j \in Spawn("night restore", ToRestore(d)) : j.battery = b} = {k}
              /\ k.kind = "night restore" /\ ~k.applied
      BY <1>9, SpawnedOne
    <3>2. k \in calls' /\ Calls(b)' = {k}
      BY <1>1, <1>6, <1>7, <1>9, <3>1
    <3>3. QED
      BY <3>1, <3>2, Zenon DEF One
  <2>5. Restoring(b)'
    BY <1>3, <2>2, <2>3, <2>4 DEF Restoring, Waiting
  <2>6. QED
    BY <2>5 DEF NightStage
<1>10. CASE b \notin ToCut(d) /\ b \notin ToRestore(d)
  <2>1. Calls(b)' = {}
    BY <1>6, <1>7, <1>10
  <2>2. plug_cut_until'[b] = None <=> plug_cut_until[b] = None
    BY <1>3, <1>4, <1>10 DEF Cycle
  <2>3. (Untouched(b) \/ Waiting(b))'
    BY <1>3, <1>5, <2>1, <2>2 DEF Untouched, Waiting
  <2>4. QED
    BY <2>3 DEF NightStage
<1>11. QED
  BY <1>8, <1>9, <1>10

\* A call in flight says in which stage of the night its battery is.
LEMMA NightCallTells ==
    ASSUME TypeOK, NightStaged, NEW k \in calls
    PROVE  /\ k.battery \in Battery
           /\ Calls(k.battery) = {k}
           /\ \/ k.kind = "night cut" /\ ~k.applied /\ NightCutting(k.battery)
              \/ k.kind = "night cut" /\ k.applied /\ NightDark(k.battery)
              \/ k.kind = "night restore" /\ ~k.applied /\ Restoring(k.battery)
              \/ k.kind = "night restore" /\ k.applied /\ Restored(k.battery)
<1>1. k.battery \in Battery /\ k \in Calls(k.battery)
  BY DEF TypeOK, Call, Calls
<1>2. ~Untouched(k.battery) /\ ~Waiting(k.battery)
  BY <1>1 DEF Untouched, Waiting
<1>3. \/ NightCutting(k.battery) \/ NightDark(k.battery)
      \/ Restoring(k.battery) \/ Restored(k.battery)
  BY <1>1, <1>2 DEF NightStaged, NightStage
<1>4. ASSUME NEW kind, NEW applied, One(k.battery, kind, applied)
      PROVE  Calls(k.battery) = {k} /\ k.kind = kind /\ (k.applied <=> applied)
  BY <1>1, <1>4, Zenon DEF One
<1>5. QED
  BY <1>1, <1>3, <1>4, Zenon DEF NightCutting, NightDark, Restoring, Restored

\* A battery whose cut, relay and calls stay as they are stays in its stage.
LEMMA NightOthers ==
    ASSUME NightStaged, NEW b \in Battery,
           Calls(b)' = Calls(b), plug_cut_until'[b] = plug_cut_until[b],
           relay'[b] = relay[b]
    PROVE  NightStage(b)'
<1>1. \A kind, applied : One(b, kind, applied)' = One(b, kind, applied)
  <2>1. \A k : Calls(b) = {k} => k \in calls /\ k \in calls'
    BY DEF Calls
  <2>2. QED
    BY <2>1 DEF One
<1>2. QED
  BY <1>1 DEF NightStaged, NightStage, Untouched, NightCutting, NightDark, Waiting,
              Restoring, Restored

LEMMA CallNightStaged ==
    ASSUME TypeOK, NightOnly, NightStaged, NEW k \in calls,
           CallReachesPlug(k) \/ CallSucceeds(k) \/ CallFails(k)
    PROVE  NightStaged'
<1> DEFINE c == k.battery
<1>1. c \in Battery /\ Calls(c) = {k}
  BY NightCallTells
<1>2. SUFFICES ASSUME NEW b \in Battery PROVE NightStage(b)'
  BY DEF NightStaged, NightStage
<1>3. CASE b # c
  <2>1. Calls(b)' = Calls(b)
    <3>1. [k EXCEPT !.applied = TRUE].battery = c
      BY DEF TypeOK, Call
    <3>2. \/ calls' = calls \ {k}
          \/ calls' = (calls \ {k}) \cup {[k EXCEPT !.applied = TRUE]}
      BY DEF CallReachesPlug, CallSucceeds, CallFails
    <3>3. QED
      BY <1>3, <3>1, <3>2 DEF Calls
  <2>2. plug_cut_until'[b] = plug_cut_until[b] /\ relay'[b] = relay[b]
    BY <1>3 DEF TypeOK, CallReachesPlug, CallSucceeds, CallFails, cutVars
  <2>3. QED
    BY <2>1, <2>2, NightOthers
<1>4. CASE b = c /\ CallReachesPlug(k)
  <2> DEFINE j == [k EXCEPT !.applied = TRUE]
  <2>0. j.battery = k.battery /\ j.kind = k.kind /\ j.applied
    <3>1. k \in Call
      BY DEF TypeOK
    <3>2. j.battery = k.battery /\ j.kind = k.kind /\ j.applied = TRUE
      BY <3>1 DEF Call
    <3>3. QED
      BY <3>2, Zenon
  <2> HIDE DEF j
  <2>1. calls' = (calls \ {k}) \cup {j}
    BY <1>4 DEF CallReachesPlug, j
  <2>2. Calls(b)' = {j} /\ j \in calls'
    BY <1>1, <1>4, <2>0, <2>1 DEF Calls
  <2>3. plug_cut_until' = plug_cut_until /\ relay'[b] = ClosesRelay(k)
    BY <1>4 DEF CallReachesPlug, TypeOK, cutVars
  <2>4. CASE k.kind = "night cut"
    <3>1. NightCutting(c)
      BY <1>4, <2>4, NightCallTells DEF CallReachesPlug
    <3>2. ~ClosesRelay(k)
      BY <2>4 DEF ClosesRelay
    <3>3. One(b, "night cut", TRUE)'
      BY <2>0, <2>2, <2>4, Zenon DEF One
    <3>4. NightDark(b)'
      BY <1>4, <2>3, <3>1, <3>2, <3>3 DEF NightDark, NightCutting
    <3>5. QED
      BY <3>4 DEF NightStage
  <2>5. CASE k.kind = "night restore"
    <3>1. Restoring(c)
      BY <1>4, <2>5, NightCallTells DEF CallReachesPlug
    <3>2. ClosesRelay(k)
      BY <2>5 DEF ClosesRelay
    <3>3. One(b, "night restore", TRUE)'
      BY <2>0, <2>2, <2>5, Zenon DEF One
    <3>4. Restored(b)'
      BY <1>4, <2>3, <3>1, <3>2, <3>3 DEF Restored, Restoring
    <3>5. QED
      BY <3>4 DEF NightStage
  <2>6. QED
    BY <2>4, <2>5, NightCallTells
<1>5. CASE b = c /\ CallSucceeds(k)
  <2>1. Calls(b)' = {} /\ relay'[b] = relay[b] /\ k.applied
    BY <1>1, <1>5 DEF Calls, CallSucceeds
  <2>2. k.kind \in {"night cut", "night restore"}
    BY NightCallTells
  <2>3. plug_cut_until' = plug_cut_until
    BY <1>5, <2>2 DEF CallSucceeds, cutVars
  <2>4. NightDark(c) \/ Restored(c)
    BY <2>1, NightCallTells
  <2>5. (Waiting(b) \/ Untouched(b))'
    BY <1>5, <2>1, <2>3, <2>4 DEF Waiting, Untouched, NightDark, Restored
  <2>6. QED
    BY <2>5 DEF NightStage
<1>6. CASE b = c /\ CallFails(k)
  <2>1. k.kind = "night cut" /\ ~k.applied
    <3>1. (IF k.applied THEN "lost" ELSE "refused") \in Outcomes[k.kind]
      BY <1>6 DEF CallFails
    <3>2. "lost" \notin Outcomes["night cut"]
      BY DEF NightOnly
    <3>3. "lost" \notin Outcomes["night restore"] /\ "refused" \notin Outcomes["night restore"]
      BY DEF NightOnly
    <3>4. k.kind = "night cut" \/ k.kind = "night restore"
      BY NightCallTells
    <3>5. QED
      BY <3>1, <3>2, <3>3, <3>4
  <2>2. NightCutting(c)
    BY <2>1, NightCallTells
  <2>3. Calls(b)' = {} /\ relay'[b] = relay[b]
    BY <1>1, <1>6 DEF Calls, CallFails
  <2>4. plug_cut_until'[b] = None
    BY <1>6, <2>1 DEF CallFails, ClosesRelay, TypeOK
  <2>5. Untouched(b)'
    BY <1>6, <2>2, <2>3, <2>4 DEF Untouched, NightCutting
  <2>6. QED
    BY <2>5 DEF NightStage
<1>7. QED
  BY <1>3, <1>4, <1>5, <1>6

LEMMA NightStagedStep ==
    ASSUME TypeOK, CutFlagsAgree, NightOnly, NightStaged, [Next]_vars
    PROVE  NightStaged'
<1>1. ASSUME NEW d \in 1..MaxLate, Cycle(d)
      PROVE  NightStaged'
  BY <1>1, CycleNightStaged
<1>2. ASSUME NEW k \in calls, CallReachesPlug(k) \/ CallSucceeds(k) \/ CallFails(k)
      PROVE  NightStaged'
  BY <1>2, CallNightStaged
<1>3. ASSUME plug_cut_until' = plug_cut_until, calls' = calls, relay' = relay
      PROVE  NightStaged'
  <2>1. SUFFICES ASSUME NEW b \in Battery PROVE NightStage(b)'
    BY DEF NightStaged, NightStage
  <2>2. QED
    BY <1>3, NightOthers DEF Calls
<1>4. CASE \E b \in Battery : PlugAnswersPoll(b) \/ StorePoll(b) \/ PollFails(b)
  BY <1>3, <1>4 DEF PlugAnswersPoll, StorePoll, PollFails, cutVars
<1>5. CASE (\E b \in Battery : SocChanges(b)) \/ Sunset \/ UNCHANGED vars
  BY <1>3, <1>5 DEF SocChanges, Sunset, vars, cutVars
<1>6. (\E b \in Battery : ManualReset(b)) \/ Restart => FALSE
  BY DEF ManualReset, Restart, NightOnly
<1>7. QED
  BY <1>1, <1>2, <1>4, <1>5, <1>6 DEF Next

LEMMA NightStagedRemembers == ASSUME TypeOK, NightStaged PROVE OpenPlugIsRemembered
<1> SUFFICES ASSUME NEW b \in Battery, ~relay[b], plug_cut_until[b] = None
             PROVE  \E k \in calls : k.battery = b /\ ClosesRelay(k) /\ ~k.applied
  BY DEF OpenPlugIsRemembered
<1>1. Restoring(b)
  BY DEF NightStaged, NightStage, Untouched, NightCutting, NightDark, Waiting, Restored
<1>2. PICK k \in calls : Calls(b) = {k} /\ k.kind = "night restore" /\ (k.applied <=> FALSE)
  BY <1>1, Zenon DEF Restoring, One
<1>3. k.battery = b /\ ~k.applied
  BY <1>2 DEF Calls
<1>4. ClosesRelay(k)
  BY <1>2 DEF ClosesRelay
<1>5. QED
  BY <1>3, <1>4

\* Where only the night cutoff switches relays, its calls are answered before
\* the next cycle and a restore is not refused, an open relay is never
\* forgotten: through any number of nights, refused cuts, late polls and
\* changes of the charge, the relay a night cut has opened is marked as cut, or
\* the call that closes it is on its way.
THEOREM NightPlugsRemembered == ASSUME NightOnly PROVE Spec => []OpenPlugIsRemembered
<1>1. Init => NightStaged
  BY NightStagedInit
<1>2. TypeOK /\ CutFlagsAgree /\ NightStaged /\ [Next]_vars => NightStaged'
  BY NightStagedStep
<1>3. TypeOK /\ NightStaged => OpenPlugIsRemembered
  BY NightStagedRemembers
<1>4. QED
  BY <1>1, <1>2, <1>3, Invariance, PTL DEF Spec, IInv

=============================================================================
