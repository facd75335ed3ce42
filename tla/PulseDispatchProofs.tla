------------------------- MODULE PulseDispatchProofs -------------------------
(***************************************************************************)
(* Proofs about PulseDispatch for any batteries, circuits and times: type  *)
(* correctness, and that a pulse is only handed out after a whole silence. *)
(* Where the times fit together (Tuned), the invariant of the pulses and   *)
(* what follows from it: pulses are not stacked, a silence leaves none     *)
(* behind, a locked direction is one the battery has refused, and the      *)
(* refinement of SettledPulses.                                            *)
(***************************************************************************)
EXTENDS PulseDispatch, TLAPS

LEMMA Constants ==
    /\ MaxPower \in Nat /\ PulseCount \in Nat /\ Commit \in Nat /\ Commit >= 1
    /\ Stable \in Nat /\ Settle \in Nat /\ Silence \in Nat /\ Lockout \in Nat
    /\ PlugStale \in Nat /\ PlugStale + 1 \in Nat
    /\ None \notin Int
    /\ \A b \in Battery : CircuitOf[b] \in Circuit
BY PulseConstantsOK

USE Constants

LEMMA MoreConstants ==
    /\ MaxPower >= 1 /\ Settle >= 1 /\ Silence >= 1 /\ Lockout >= 1 /\ PulseCount >= 1
    /\ WatchdogBy \in Nat /\ Commit <= PulseCount
BY PulseConstantsOK

LEMMA OlderTyped ==
    ASSUME NEW bound \in Nat, NEW t \in 0..bound \cup {None}
    PROVE  Older(t, bound) \in 0..bound \cup {None}
BY DEF Older

LEMMA LeftTyped ==
    ASSUME NEW bound \in Nat, NEW t \in 0..bound
    PROVE  Left(t) \in 0..bound /\ Left(t) + 1 >= t
BY DEF Left

\* The counters and timers of TypeOK, one by one.
LEMMA Ranges ==
    ASSUME TypeOK
    PROVE  /\ \A c \in Circuit : calm[c] \in 0..Silence /\ silent_until[c] \in 0..Silence
           /\ \A b \in Battery :
                /\ last_plug_at[b] \in 0..PlugStale + 1
                /\ last_plug_movement_at[b] \in 0..Stable
                /\ heard[b] \in 0..Commit
                /\ pulse_remaining[b] \in 0..PulseCount
                /\ charge_locked_until[b] \in 0..Lockout
                /\ discharge_locked_until[b] \in 0..Lockout
                /\ goal[b] \in Int
                /\ pending_pulse_w[b] \in Delta
<1>1. ASSUME NEW c \in Circuit
      PROVE  calm[c] \in 0..Silence /\ silent_until[c] \in 0..Silence
  BY Zenon DEF TypeOK
<1>2. ASSUME NEW b \in Battery
      PROVE  /\ last_plug_at[b] \in 0..PlugStale + 1
             /\ last_plug_movement_at[b] \in 0..Stable
             /\ heard[b] \in 0..Commit
             /\ pulse_remaining[b] \in 0..PulseCount
             /\ charge_locked_until[b] \in 0..Lockout
             /\ discharge_locked_until[b] \in 0..Lockout
             /\ goal[b] \in Int
             /\ pending_pulse_w[b] \in Delta
  BY Zenon DEF TypeOK
<1>3. QED
  BY <1>1, <1>2

\* A timer that runs ages within its bound.
LEMMA OlderRuns ==
    ASSUME NEW bound \in Nat, NEW t \in 0..bound
    PROVE  /\ Older(t, bound) \in 0..bound
           /\ Older(t, bound) = t + 1 \/ Older(t, bound) = bound
BY DEF Older

LEMMA InitTyped == Init => TypeOK
<1> SUFFICES ASSUME Init PROVE TypeOK
  OBVIOUS
<1>1. 0 \in Delta /\ 0 \in Power
  BY DEF Delta, Power
<1>2. QED
  BY <1>1 DEF Init, TypeOK

LEMMA AssessTyped == ASSUME TypeOK, Assess PROVE TypeOK'
<1>1. UNCHANGED <<pending_pulse_w, pulse_remaining, plug_w_at_pulse_send, last_plug_w,
                  moved_since, heard, goal>>
      /\ polled' = {} /\ sampled' = {}
  BY DEF Assess
<1>2. silent_until' \in [Circuit -> 0..Silence]
  <2>1. silent_until' = [c \in Circuit |-> Muted(c)]
    BY DEF Assess
  <2>2. ASSUME NEW c \in Circuit PROVE Muted(c) \in 0..Silence
    <3>1. Left(silent_until[c]) \in 0..Silence
      BY Ranges, LeftTyped
    <3>2. QED
      BY <3>1 DEF Muted
  <2>3. QED
    BY <2>1, <2>2
<1>3. calm' \in [Circuit -> 0..Silence]
  <2>1. calm' = [c \in Circuit |-> IF NeedsSilence(c) THEN 0 ELSE Older(calm[c], Silence)]
    BY DEF Assess
  <2>2. \A c \in Circuit : Older(calm[c], Silence) \in 0..Silence
    BY Ranges, OlderRuns
  <2>3. QED
    BY <2>1, <2>2
<1>4. /\ charge_locked_until' \in [Battery -> 0..Lockout]
      /\ discharge_locked_until' \in [Battery -> 0..Lockout]
  <2>1. ASSUME NEW b \in Battery, NEW left \in 0..Lockout, NEW pulsed
        PROVE  LockLeft(left, pulsed, b) \in 0..Lockout
    BY LeftTyped DEF LockLeft
  <2>2. \A b \in Battery : /\ Left(charge_locked_until[b]) \in 0..Lockout
                           /\ Left(discharge_locked_until[b]) \in 0..Lockout
    BY LeftTyped DEF TypeOK
  <2>3. CASE grid = "fresh"
    BY <2>1, <2>3 DEF Assess, TypeOK
  <2>4. CASE grid # "fresh"
    BY <2>2, <2>4 DEF Assess
  <2>5. QED
    BY <2>3, <2>4
<1>5. last_pulse_delta_w' \in [Battery -> Delta \cup {None}]
  BY DEF Assess, TypeOK
<1>6. phase' \in {"wait", "queue"} /\ grid' \in {"fresh", "stale", "seen stale"}
  BY DEF Assess, TypeOK
<1>7. last_pulse_completed_at' \in [Battery -> 0..Settle \cup {None}]
  BY OlderTyped DEF Assess, TypeOK
<1>8. last_plug_at' \in [Battery -> 0..PlugStale + 1]
  <2>1. last_plug_at' = [b \in Battery |-> Older(last_plug_at[b], PlugStale + 1)]
    BY DEF Assess
  <2>2. \A b \in Battery : Older(last_plug_at[b], PlugStale + 1) \in 0..PlugStale + 1
    BY Ranges, OlderRuns
  <2>3. QED
    BY <2>1, <2>2
<1>9. last_plug_movement_at' \in [Battery -> 0..Stable]
  <2>1. last_plug_movement_at' = [b \in Battery |-> Older(last_plug_movement_at[b], Stable)]
    BY DEF Assess
  <2>2. \A b \in Battery : Older(last_plug_movement_at[b], Stable) \in 0..Stable
    BY Ranges, OlderRuns
  <2>3. QED
    BY <2>1, <2>2
<1>10. QED
  BY <1>1, <1>2, <1>3, <1>4, <1>5, <1>6, <1>7, <1>8, <1>9 DEF TypeOK

LEMMA QueueTyped == ASSUME TypeOK, Queue PROVE TypeOK'
<1>1. UNCHANGED <<lockVars, plugVars, muteVars, grid, polled, sampled, heard, goal>>
      /\ phase' = "wait"
  BY DEF Queue
<1>2. 0 \in Delta
  BY DEF Delta
<1>3. /\ pending_pulse_w' \in [Battery -> Delta]
      /\ pulse_remaining' \in [Battery -> 0..PulseCount]
  BY <1>2, Ranges DEF Queue
<1>4. plug_w_at_pulse_send' \in [Battery -> Power \cup {None}]
  BY DEF Queue, TypeOK
<1>5. last_pulse_completed_at' \in [Battery -> 0..Settle \cup {None}]
  BY DEF Queue, TypeOK
<1>6. last_pulse_delta_w' \in [Battery -> Delta \cup {None}]
  BY DEF Queue, TypeOK
<1>7. QED
  BY <1>1, <1>3, <1>4, <1>5, <1>6 DEF TypeOK, lockVars, plugVars, muteVars

LEMMA PollTyped ==
    ASSUME TypeOK, NEW b \in Battery, NEW lost \in BOOLEAN, MarstekPolls(b, lost)
    PROVE  TypeOK'
<1>1. /\ UNCHANGED <<lockVars, last_plug_w, last_plug_at, last_plug_movement_at, muteVars,
                     grid, phase, sampled>>
      /\ polled' \subseteq Battery
  BY DEF MarstekPolls, TypeOK
<1>2. /\ UNCHANGED <<plug_w_at_pulse_send, last_pulse_delta_w>>
  BY DEF MarstekPolls, pulseVars
<1>3. CASE silent_until[CircuitOf[b]] > 0
  <2>1. heard' = [heard EXCEPT ![b] = 0] /\ UNCHANGED <<pulseVars, moved_since, goal>>
    BY <1>3 DEF MarstekPolls
  <2>2. heard' \in [Battery -> 0..Commit]
    <3>1. heard \in [Battery -> 0..Commit]
      BY DEF TypeOK
    <3>2. 0 \in 0..Commit
      OBVIOUS
    <3>3. QED
      BY <2>1, <3>1, <3>2
  <2>3. QED
    BY <1>1, <2>1, <2>2 DEF TypeOK, lockVars, muteVars, pulseVars
<1>4. CASE ~(silent_until[CircuitOf[b]] > 0)
  <2> DEFINE pulse == IF pulse_remaining[b] > 0 THEN pending_pulse_w[b] ELSE 0
             last  == pulse_remaining[b] = 1
             told  == ~lost /\ grid = "fresh"
             acts  == told /\ pulse # 0 /\ heard[b] = Commit - 1
  <2>1. /\ pulse_remaining' = [pulse_remaining EXCEPT ![b] = Left(@)]
        /\ pending_pulse_w' = [pending_pulse_w EXCEPT ![b] = IF last THEN 0 ELSE @]
        /\ last_pulse_completed_at' =
               [last_pulse_completed_at EXCEPT ![b] = IF last THEN 0 ELSE @]
        /\ moved_since' = [moved_since EXCEPT ![b] = @ /\ ~last]
        /\ heard' = [heard EXCEPT ![b] =
               IF ~told THEN @ ELSE IF pulse = 0 THEN 0 ELSE Older(@, Commit)]
        /\ goal' = [goal EXCEPT ![b] = IF acts /\ Accepts(b, pulse) THEN @ + pulse ELSE @]
    BY <1>4 DEF MarstekPolls
  <2>2. 0 \in Delta /\ pulse \in Int /\ goal[b] \in Int
    BY Ranges DEF Delta
  <2>3. goal' \in [Battery -> Int]
    <3>1. goal[b] + pulse \in Int
      BY <2>2
    <3>2. \E g \in Int : goal' = [goal EXCEPT ![b] = g]
      BY <2>1, <2>2, <3>1
    <3>3. goal \in [Battery -> Int]
      BY DEF TypeOK
    <3>4. QED
      BY <3>2, <3>3
  <2>4. pending_pulse_w' \in [Battery -> Delta]
    BY <2>1, <2>2 DEF TypeOK
  <2>5. Left(pulse_remaining[b]) \in 0..PulseCount
    BY Ranges, LeftTyped
  <2>6. pulse_remaining' \in [Battery -> 0..PulseCount]
    BY <2>1, <2>5 DEF TypeOK
  <2>7. last_pulse_completed_at' \in [Battery -> 0..Settle \cup {None}]
    <3>1. last_pulse_completed_at \in [Battery -> 0..Settle \cup {None}]
      BY DEF TypeOK
    <3>0. 0 \in 0..Settle
      OBVIOUS
    <3>2. \/ last_pulse_completed_at' = [last_pulse_completed_at EXCEPT ![b] = 0]
          \/ last_pulse_completed_at'
                 = [last_pulse_completed_at EXCEPT ![b] = last_pulse_completed_at[b]]
      BY <2>1
    <3>3. QED
      BY <3>0, <3>1, <3>2
  <2>8. moved_since' \in [Battery -> BOOLEAN]
    BY <2>1, Zenon DEF TypeOK
  <2>9. Older(heard[b], Commit) \in 0..Commit /\ 0 \in 0..Commit
    BY Ranges, OlderRuns
  <2>10. heard' \in [Battery -> 0..Commit]
    BY <2>1, <2>9 DEF TypeOK
  <2>11. QED
    BY <1>1, <1>2, <2>3, <2>4, <2>6, <2>7, <2>8, <2>10 DEF TypeOK, lockVars, muteVars
<1>5. QED
  BY <1>3, <1>4

LEMMA StepTyped == TypeOK /\ [Next]_vars => TypeOK'
<1> SUFFICES ASSUME TypeOK, [Next]_vars PROVE TypeOK'
  OBVIOUS
<1>1. CASE Assess
  BY <1>1, AssessTyped
<1>2. CASE Queue
  BY <1>2, QueueTyped
<1>3. ASSUME NEW b \in Battery, NEW lost \in BOOLEAN, MarstekPolls(b, lost)
      PROVE  TypeOK'
  BY <1>3, PollTyped
<1>4. ASSUME NEW b \in Battery, Watchdog(b)
      PROVE  TypeOK'
  <2>1. UNCHANGED <<pulseVars, lockVars, plugVars, muteVars, grid, phase, polled, sampled,
                    heard>>
    BY <1>4 DEF Watchdog
  <2>2. goal' \in [Battery -> Int]
    <3>1. goal' = [goal EXCEPT ![b] = 0] /\ goal \in [Battery -> Int]
      BY <1>4 DEF Watchdog, TypeOK
    <3>2. QED
      BY <3>1
  <2>3. QED
    BY <2>1, <2>2 DEF TypeOK, pulseVars, lockVars, plugVars, muteVars
<1>5. ASSUME NEW b \in Battery, PlugPolled(b)
      PROVE  TypeOK'
  <2>1. UNCHANGED <<pulseVars, lockVars, muteVars, grid, phase, polled, heard, goal>>
        /\ sampled' \subseteq Battery
    BY <1>5 DEF PlugPolled, TypeOK
  <2>2. last_plug_w' \in [Battery -> Power \cup {None}]
    BY <1>5 DEF PlugPolled, TypeOK
  <2>3. last_plug_at' \in [Battery -> 0..PlugStale + 1]
    <3>1. last_plug_at' = [last_plug_at EXCEPT ![b] = 0]
      BY <1>5 DEF PlugPolled
    <3>2. last_plug_at \in [Battery -> 0..PlugStale + 1]
      BY DEF TypeOK
    <3>3. QED
      BY <3>1, <3>2
  <2>4. last_plug_movement_at' \in [Battery -> 0..Stable]
    <3>1. \/ last_plug_movement_at' = [last_plug_movement_at EXCEPT ![b] = 0]
          \/ last_plug_movement_at' = last_plug_movement_at
      BY <1>5 DEF PlugPolled
    <3>2. last_plug_movement_at \in [Battery -> 0..Stable]
      BY DEF TypeOK
    <3>3. QED
      BY <3>1, <3>2
  <2>5. moved_since' \in [Battery -> BOOLEAN]
    BY <1>5 DEF PlugPolled, TypeOK
  <2>6. QED
    BY <2>1, <2>2, <2>3, <2>4, <2>5 DEF TypeOK, pulseVars, lockVars, muteVars
<1>6. ASSUME NEW b \in Battery, PlugSilent(b)
      PROVE  TypeOK'
  BY <1>6 DEF PlugSilent, TypeOK, pulseVars, lockVars, plugVars, muteVars
<1>7. CASE GridChanges
  BY <1>7 DEF GridChanges, TypeOK, pulseVars, lockVars, plugVars, muteVars
<1>8. CASE UNCHANGED vars
  BY <1>8 DEF TypeOK, vars, pulseVars, lockVars, plugVars, muteVars
<1>9. QED
  BY <1>1, <1>2, <1>3, <1>4, <1>5, <1>6, <1>7, <1>8 DEF Next

\* Whatever pulses are queued, lost or refused, no counter, timer or lock of the
\* dispatcher and of the virtual Shelly leaves its range.
THEOREM PulseTyped == Spec => []TypeOK
<1>1. QED
  BY InitTyped, StepTyped, PTL DEF Spec

-----------------------------------------------------------------------------
\* Muting and ageing keep a circuit's silence whole.
LEMMA WholeSilenceStep ==
    ASSUME TypeOK, WholeSilence, [Next]_vars
    PROVE  WholeSilence'
<1> USE MoreConstants
<1>1. CASE Assess
  <2>1. ASSUME NEW c \in Circuit PROVE silent_until'[c] + calm'[c] = Silence
    <3>1. /\ calm[c] \in 0..Silence /\ silent_until[c] \in 0..Silence
          /\ silent_until[c] + calm[c] = Silence
      BY Ranges DEF WholeSilence
    <3>2. CASE NeedsSilence(c)
      <4>1. silent_until'[c] = Silence /\ calm'[c] = 0
        BY <1>1, <3>2 DEF Assess, Muted
      <4>2. QED
        BY <4>1
    <3>3. CASE ~NeedsSilence(c)
      <4>1. silent_until'[c] = Left(silent_until[c]) /\ calm'[c] = Older(calm[c], Silence)
        BY <1>1, <3>3 DEF Assess, Muted
      <4>2. calm[c] # None
        BY <3>1
      <4>3. QED
        BY <3>1, <4>1, <4>2 DEF Left, Older
    <3>4. QED
      BY <3>2, <3>3
  <2>2. ASSUME grid' = "seen stale", NEW c \in Circuit PROVE silent_until'[c] = Silence
    <3>1. grid # "fresh"
      BY <1>1, <2>2 DEF Assess
    <3>2. QED
      BY <1>1, <3>1 DEF Assess, Muted, NeedsSilence
  <2>3. QED
    BY <2>1, <2>2 DEF WholeSilence
<1>2. CASE GridChanges
  BY <1>2 DEF GridChanges, WholeSilence, muteVars
<1>3. CASE UNCHANGED <<muteVars, grid>>
  BY <1>3 DEF WholeSilence, muteVars
<1>4. ~Assess /\ ~GridChanges => UNCHANGED <<muteVars, grid>>
  BY DEF Next, Queue, MarstekPolls, Watchdog, PlugPolled, PlugSilent, vars
<1>5. QED
  BY <1>1, <1>2, <1>3, <1>4

\* In pulse mode no pulse is handed out, over any number of circuits and
\* whatever goes stale in between, unless every cycle of the whole silence has
\* found the grid reading and all plugs of that circuit fresh.
THEOREM PulsesAfterSilence == Spec => SilenceKept
<1>1. Init => WholeSilence
  BY DEF Init, WholeSilence
<1>2. TypeOK /\ WholeSilence /\ [Next]_vars => WholeSilence'
  BY WholeSilenceStep
<1>3. TypeOK /\ WholeSilence /\ [Next]_vars =>
          [\A b \in Battery :
             pulse_remaining'[b] < pulse_remaining[b] /\ last_pulse_delta_w'[b] # None =>
                 calm[CircuitOf[b]] >= Silence]_vars
  <2> SUFFICES ASSUME TypeOK, WholeSilence, Next, NEW b \in Battery,
                      pulse_remaining'[b] < pulse_remaining[b],
                      last_pulse_delta_w'[b] # None
               PROVE  calm[CircuitOf[b]] >= Silence
    OBVIOUS
  <2>1. pulse_remaining[b] \in 0..PulseCount
    BY DEF TypeOK
  <2>2. CASE Queue
    BY <2>1, <2>2 DEF Queue
  <2>3. ASSUME NEW a \in Battery, NEW lost \in BOOLEAN, MarstekPolls(a, lost)
        PROVE  calm[CircuitOf[b]] >= Silence
    <3>1. silent_until[CircuitOf[a]] > 0 => pulse_remaining' = pulse_remaining
      BY <2>3 DEF MarstekPolls, pulseVars
    <3>2. a = b
      <4>1. \/ pulse_remaining' = pulse_remaining
            \/ pulse_remaining' = [pulse_remaining EXCEPT ![a] = Left(@)]
        BY <2>3 DEF MarstekPolls, pulseVars
      <4>2. pulse_remaining \in [Battery -> 0..PulseCount]
        BY DEF TypeOK
      <4>3. QED
        BY <2>1, <4>1, <4>2
    <3>3. CircuitOf[b] \in Circuit /\ silent_until[CircuitOf[b]] \in 0..Silence
      BY Ranges
    <3>4. silent_until[CircuitOf[b]] = 0
      BY <2>1, <3>1, <3>2, <3>3
    <3>5. silent_until[CircuitOf[b]] + calm[CircuitOf[b]] = Silence
      BY <3>3 DEF WholeSilence
    <3>6. calm[CircuitOf[b]] \in 0..Silence
      BY <3>3, Ranges
    <3>7. QED
      BY <3>4, <3>5, <3>6
  <2>4. CASE pulse_remaining' = pulse_remaining
    BY <2>1, <2>4
  <2>5. QED
    BY <2>2, <2>3, <2>4 DEF Next, Assess, Watchdog, PlugPolled, PlugSilent, GridChanges,
                            pulseVars
<1>4. QED
  BY <1>1, <1>2, <1>3, PulseTyped, PTL DEF Spec, SilenceKept

-----------------------------------------------------------------------------
(***************************************************************************)
(* What the last theorems assume of the times, beyond PulseConstantsOK:    *)
(* every Marstek goes on polling; a plug whose power is moving is not      *)
(* taken to stand still between two polls; the settle timeout outlasts a   *)
(* ramp from one bound to the other; a silence outlasts the settle timeout *)
(* and, where several circuits share the gate, the pulses that are told    *)
(* before it; and a Marstek that drops its target in a silence does so     *)
(* early enough to come to rest before it ends.                            *)
(***************************************************************************)
Tuned ==
    /\ Dark = {}
    /\ Stable >= 2
    /\ Settle > 2 * MaxPower
    /\ Silence > Settle
    /\ WatchdogBy >= MaxPower
    /\ \A a, b \in Battery : CircuitOf[a] # CircuitOf[b] => Silence > PulseCount + Settle

\* The values of one battery, one by one.
LEMMA Values ==
    ASSUME TypeOK, NEW b \in Battery
    PROVE  /\ SilenceLeft(b) \in 0..Silence
           /\ last_plug_w[b] \in Power \cup {None}
           /\ plug_w_at_pulse_send[b] \in Power \cup {None}
           /\ last_pulse_completed_at[b] \in 0..Settle \cup {None}
           /\ last_pulse_delta_w[b] \in Delta \cup {None}
           /\ pending_pulse_w[b] \in Delta
           /\ moved_since[b] \in BOOLEAN
           /\ pulse_remaining[b] \in 0..PulseCount
           /\ heard[b] \in 0..Commit
           /\ last_plug_movement_at[b] \in 0..Stable
           /\ goal[b] \in Int
<1>1. SilenceLeft(b) \in 0..Silence
  BY Ranges DEF SilenceLeft
<1>2. last_plug_w[b] \in Power \cup {None} /\ plug_w_at_pulse_send[b] \in Power \cup {None}
  BY Zenon DEF TypeOK
<1>3. /\ last_pulse_completed_at[b] \in 0..Settle \cup {None}
      /\ last_pulse_delta_w[b] \in Delta \cup {None}
  BY Zenon DEF TypeOK
<1>4. moved_since[b] \in BOOLEAN
  BY Zenon DEF TypeOK
<1>5. QED
  BY <1>1, <1>2, <1>3, <1>4, Ranges

\* A step that leaves a battery and its circuit alone.
LeftAlone(b) ==
    /\ pending_pulse_w'[b] = pending_pulse_w[b]
    /\ pulse_remaining'[b] = pulse_remaining[b]
    /\ plug_w_at_pulse_send'[b] = plug_w_at_pulse_send[b]
    /\ last_pulse_completed_at'[b] = last_pulse_completed_at[b]
    /\ last_pulse_delta_w'[b] = last_pulse_delta_w[b]
    /\ charge_locked_until'[b] = charge_locked_until[b]
    /\ discharge_locked_until'[b] = discharge_locked_until[b]
    /\ last_plug_w'[b] = last_plug_w[b]
    /\ last_plug_movement_at'[b] = last_plug_movement_at[b]
    /\ moved_since'[b] = moved_since[b]
    /\ heard'[b] = heard[b]
    /\ goal'[b] = goal[b]
    /\ b \in polled' <=> b \in polled
    /\ b \in sampled' <=> b \in sampled
    /\ silent_until' = silent_until /\ grid' = grid /\ phase' = phase

LEMMA LeftAloneKeeps ==
    ASSUME NEW b \in Battery, BatteryInv(b), LeftAlone(b)
    PROVE  BatteryInv(b)'
<1>1. SilenceLeft(b)' = SilenceLeft(b) /\ One(b, sampled)' = One(b, sampled)
      /\ Away(b)' = Away(b)
  BY DEF LeftAlone, SilenceLeft, One, Away
<1>2. NotYetSeen(b)' /\ PulseFits(b)' /\ AtRest(b)'
  BY <1>1 DEF BatteryInv, LeftAlone, NotYetSeen, PulseFits, AtRest
<1>3. Ramps(b)' /\ SeenMoving(b)' /\ ComesToRest(b)'
  BY <1>1 DEF BatteryInv, LeftAlone, Ramps, SeenMoving, ComesToRest
<1>4. Forgotten(b)' /\ JudgedInTime(b)' /\ LocksEarned(b)'
  BY <1>1 DEF BatteryInv, LeftAlone, Forgotten, JudgedInTime, LocksEarned
<1>5. Followed(b)'
  BY <1>1 DEF BatteryInv, LeftAlone, Followed, Wanted
<1>6. QED
  BY <1>2, <1>3, <1>4, <1>5 DEF BatteryInv, LeftAlone


LEMMA OthersAlone ==
    ASSUME TypeOK, NEW a \in Battery, NEW b \in Battery, a # b,
           \/ PlugPolled(a) \/ PlugSilent(a) \/ Watchdog(a)
           \/ \E lost \in BOOLEAN : MarstekPolls(a, lost)
    PROVE  LeftAlone(b)
<1>1. /\ pending_pulse_w \in [Battery -> Delta] /\ pulse_remaining \in [Battery -> 0..PulseCount]
      /\ last_pulse_completed_at \in [Battery -> 0..Settle \cup {None}]
      /\ moved_since \in [Battery -> BOOLEAN]
      /\ last_plug_w \in [Battery -> Power \cup {None}]
      /\ last_plug_movement_at \in [Battery -> 0..Stable]
      /\ heard \in [Battery -> 0..Commit] /\ goal \in [Battery -> Int]
  BY DEF TypeOK
<1>2. CASE PlugPolled(a)
  BY <1>1, <1>2 DEF PlugPolled, LeftAlone, pulseVars, lockVars, muteVars
<1>3. CASE PlugSilent(a)
  BY <1>3 DEF PlugSilent, LeftAlone, pulseVars, lockVars, plugVars, muteVars
<1>4. CASE Watchdog(a)
  BY <1>1, <1>4 DEF Watchdog, LeftAlone, pulseVars, lockVars, plugVars, muteVars
<1>5. ASSUME NEW lost \in BOOLEAN, MarstekPolls(a, lost)
      PROVE  LeftAlone(b)
  <2>1. /\ UNCHANGED <<lockVars, last_plug_w, last_plug_movement_at, muteVars, grid, phase,
                       sampled, plug_w_at_pulse_send, last_pulse_delta_w>>
        /\ polled' = polled \cup {a}
    BY <1>5 DEF MarstekPolls, pulseVars
  <2>2. CASE silent_until[CircuitOf[a]] > 0
    <3>1. heard' = [heard EXCEPT ![a] = 0] /\ UNCHANGED <<pulseVars, moved_since, goal>>
      BY <1>5, <2>2 DEF MarstekPolls
    <3>2. QED
      BY <1>1, <2>1, <3>1 DEF LeftAlone, pulseVars, lockVars, muteVars
  <2>3. CASE ~(silent_until[CircuitOf[a]] > 0)
    <3>1. /\ \E x : pulse_remaining' = [pulse_remaining EXCEPT ![a] = x]
          /\ \E x : pending_pulse_w' = [pending_pulse_w EXCEPT ![a] = x]
          /\ \E x : last_pulse_completed_at' = [last_pulse_completed_at EXCEPT ![a] = x]
          /\ \E x : moved_since' = [moved_since EXCEPT ![a] = x]
          /\ \E x : heard' = [heard EXCEPT ![a] = x]
          /\ \E x : goal' = [goal EXCEPT ![a] = x]
      BY <1>5, <2>3, Zenon DEF MarstekPolls
    <3>2. QED
      BY <1>1, <2>1, <3>1 DEF LeftAlone, lockVars, muteVars
  <2>4. QED
    BY <2>2, <2>3
<1>6. QED
  BY <1>2, <1>3, <1>4, <1>5

-----------------------------------------------------------------------------
\* A plug poll closes in on the target, and sees the movement.
LEMMA PlugPolledKeeps ==
    ASSUME TypeOK, NEW b \in Battery, BatteryInv(b), PlugPolled(b)
    PROVE  BatteryInv(b)'
<1> USE MoreConstants
<1>1. /\ UNCHANGED <<pulseVars, lockVars, muteVars, grid, phase, polled, heard, goal>>
      /\ sampled' = sampled \cup {b} /\ b \notin sampled
  BY DEF PlugPolled
<1>2. PICK w \in Power :
         /\ \/ w = goal[b]
            \/ /\ last_plug_w[b] # None /\ w # last_plug_w[b]
               /\ Between(last_plug_w[b], w, goal[b])
         /\ last_plug_w' = [last_plug_w EXCEPT ![b] = w]
         /\ IF Moved(w, last_plug_w[b])
            THEN /\ last_plug_movement_at' = [last_plug_movement_at EXCEPT ![b] = 0]
                 /\ moved_since' = [moved_since EXCEPT ![b] = TRUE]
            ELSE UNCHANGED <<last_plug_movement_at, moved_since>>
  BY DEF PlugPolled
<1>3. /\ last_plug_w'[b] = w /\ w \in Int /\ w # None
      /\ w # last_plug_w[b] => last_plug_movement_at'[b] = 0
      /\ w = last_plug_w[b] => UNCHANGED <<last_plug_movement_at, moved_since>>
  <2>1. /\ last_plug_w \in [Battery -> Power \cup {None}]
        /\ last_plug_movement_at \in [Battery -> 0..Stable]
    BY DEF TypeOK
  <2>2. w \in Int /\ w # None
    BY DEF Power
  <2>3. QED
    BY <1>2, <2>1, <2>2 DEF Moved
<1>4. One(b, sampled) = 0 /\ One(b, sampled)' = 1 /\ SilenceLeft(b)' = SilenceLeft(b)
  BY <1>1 DEF One, SilenceLeft, muteVars
<1>5. /\ Away(b) \in Nat /\ Away(b)' \in Nat
      /\ \/ Away(b)' = 0
         \/ /\ w # goal[b] /\ last_plug_w[b] # None /\ w # last_plug_w[b]
            /\ Away(b)' + 1 <= Away(b)
  <2>1. goal'[b] = goal[b] /\ goal[b] \in Int /\ last_plug_w[b] \in Int \cup {None}
    BY <1>1, Values DEF Power
  <2>2. Away(b) \in Nat
    BY <2>1 DEF Away
  <2>3. Away(b)' = IF w < goal[b] THEN goal[b] - w ELSE w - goal[b]
    BY <1>3, <2>1 DEF Away
  <2>4. CASE w = goal[b]
    <3>1. Away(b)' = 0
      BY <2>1, <2>3, <2>4
    <3>2. QED
      BY <2>2, <3>1
  <2>5. CASE w # goal[b]
    <3>1. last_plug_w[b] # None /\ w # last_plug_w[b] /\ Between(last_plug_w[b], w, goal[b])
      BY <1>2, <2>5
    <3>2. QED
      BY <1>3, <2>1, <2>2, <2>3, <2>5, <3>1 DEF Away, Between
  <2>6. QED
    BY <2>4, <2>5
<1>6. NotYetSeen(b)' /\ PulseFits(b)' /\ goal'[b] \in Power
  BY <1>1, <1>3, <1>4 DEF BatteryInv, NotYetSeen, PulseFits, pulseVars
<1>7. AtRest(b)'
  <2>1. goal[b] \in Int /\ last_plug_w[b] \in Power \cup {None} /\ Power \subseteq Int
    BY Values DEF Power
  <2>2. last_plug_w[b] = goal[b] => w = goal[b]
    BY <1>2, <1>3, <2>1 DEF Between
  <2>3. QED
    BY <1>1, <1>3, <1>4, <2>2 DEF BatteryInv, AtRest, pulseVars
<1>8. Ramps(b)'
  <2>1. last_pulse_completed_at[b] \in 0..Settle \cup {None}
    BY Values
  <2>2. QED
    BY <1>1, <1>4, <1>5, <2>1 DEF BatteryInv, Ramps, pulseVars
<1>9. SeenMoving(b)'
  <2>1. w # last_plug_w[b] \/ Away(b)' = 0
    BY <1>5
  <2>2. QED
    BY <1>1, <1>3, <1>4, <1>5, <2>1 DEF BatteryInv, SeenMoving, pulseVars
<1>10. ComesToRest(b)'
  <2>1. SilenceLeft(b) \in 0..Silence
    BY Values
  <2>2. QED
    BY <1>1, <1>4, <1>5, <2>1 DEF BatteryInv, ComesToRest
<1>11. Forgotten(b)' /\ Followed(b)' /\ JudgedInTime(b)' /\ LocksEarned(b)'
  <2>1. Wanted(b)' = Wanted(b)
    BY <1>1 DEF Wanted, pulseVars
  <2>2. QED
    BY <1>1, <1>4, <2>1 DEF BatteryInv, Forgotten, Followed, JudgedInTime, LocksEarned, pulseVars,
                            lockVars
<1>12. QED
  BY <1>6, <1>7, <1>8, <1>9, <1>10, <1>11 DEF BatteryInv

\* A plug that does not answer is at rest.
LEMMA PlugSilentKeeps ==
    ASSUME TypeOK, NEW b \in Battery, BatteryInv(b), PlugSilent(b)
    PROVE  BatteryInv(b)'
<1>1. /\ UNCHANGED <<pulseVars, lockVars, plugVars, muteVars, grid, phase, polled, heard, goal>>
      /\ last_plug_w[b] = goal[b]
  BY DEF PlugSilent
<1>2. SilenceLeft(b)' = SilenceLeft(b) /\ Wanted(b)' = Wanted(b)
  BY <1>1 DEF SilenceLeft, Wanted, muteVars, pulseVars
<1>3. Away(b)' = 0
  <2>1. goal[b] \in Int /\ goal'[b] = goal[b] /\ last_plug_w'[b] = last_plug_w[b]
    BY <1>1, Values DEF plugVars
  <2>2. QED
    BY <1>1, <2>1 DEF Away
<1>4. last_plug_w'[b] # None
  BY <1>1, Values DEF plugVars
<1>5. Ramps(b)' /\ SeenMoving(b)' /\ ComesToRest(b)'
  BY <1>1, <1>2, <1>3 DEF BatteryInv, Ramps, SeenMoving, ComesToRest, pulseVars, plugVars
<1>6. NotYetSeen(b)' /\ PulseFits(b)' /\ AtRest(b)' /\ goal'[b] \in Power
  BY <1>1, <1>2, <1>4 DEF BatteryInv, NotYetSeen, PulseFits, AtRest, pulseVars, plugVars
<1>7. Forgotten(b)' /\ Followed(b)' /\ JudgedInTime(b)' /\ LocksEarned(b)'
  BY <1>1, <1>2 DEF BatteryInv, Forgotten, Followed, JudgedInTime, LocksEarned, pulseVars, lockVars
<1>8. QED
  BY <1>5, <1>6, <1>7 DEF BatteryInv

\* A Marstek drops its target only in a silence that leaves time to come to rest.
LEMMA WatchdogKeeps ==
    ASSUME TypeOK, NEW b \in Battery, BatteryInv(b), Watchdog(b)
    PROVE  BatteryInv(b)'
<1> USE MoreConstants
<1>1. /\ UNCHANGED <<pulseVars, lockVars, plugVars, muteVars, grid, phase, polled, sampled,
                     heard>>
      /\ SilenceLeft(b) > WatchdogBy /\ goal[b] # 0
  BY DEF Watchdog, SilenceLeft
<1>2. goal'[b] = 0
  BY DEF Watchdog, TypeOK
<1>3. SilenceLeft(b)' = SilenceLeft(b) /\ SilenceLeft(b) > 0 /\ SilenceLeft(b) \in 0..Silence
  BY <1>1, Values DEF SilenceLeft, muteVars
<1>4. Away(b)' <= MaxPower
  <2>1. last_plug_w'[b] \in Power \cup {None}
    BY <1>1, Values DEF plugVars
  <2>2. QED
    BY <1>2, <2>1 DEF Away, Power
<1>5. ComesToRest(b)'
  BY <1>1, <1>3, <1>4 DEF ComesToRest
<1>6. NotYetSeen(b)' /\ goal'[b] \in Power
  BY <1>1, <1>2 DEF BatteryInv, NotYetSeen, plugVars, pulseVars, Power
<1>7. PulseFits(b)' /\ AtRest(b)' /\ Ramps(b)' /\ LocksEarned(b)'
  BY <1>3 DEF PulseFits, AtRest, Ramps, LocksEarned
<1>8. SeenMoving(b)' /\ Forgotten(b)' /\ JudgedInTime(b)'
  BY <1>1, <1>3 DEF BatteryInv, SeenMoving, Forgotten, JudgedInTime, plugVars, pulseVars
<1>9. Followed(b)'
  BY <1>1, <1>3 DEF BatteryInv, Followed, pulseVars
<1>10. QED
  BY <1>5, <1>6, <1>7, <1>8, <1>9 DEF BatteryInv


\* A poll that hands out a pulse, once.
LEMMA PulseHandedOut ==
    ASSUME TypeOK, NEW b \in Battery, NEW lost \in BOOLEAN, BatteryInv(b), MarstekPolls(b, lost),
           SilenceLeft(b) = 0, pulse_remaining[b] > 0
    PROVE  BatteryInv(b)'
<1> USE MoreConstants
<1> DEFINE told == ~lost /\ grid = "fresh"
           p    == pending_pulse_w[b]
           r    == pulse_remaining[b]
           acts == told /\ p # 0 /\ heard[b] = Commit - 1
<1>1. /\ UNCHANGED <<lockVars, last_plug_w, last_plug_at, last_plug_movement_at, muteVars,
                     grid, phase, sampled, plug_w_at_pulse_send, last_pulse_delta_w>>
      /\ lost => heard[b] + r > Commit
  BY DEF MarstekPolls, SilenceLeft
<1>2. /\ pulse_remaining' = [pulse_remaining EXCEPT ![b] = Left(@)]
      /\ pending_pulse_w' = [pending_pulse_w EXCEPT ![b] = IF r = 1 THEN 0 ELSE @]
      /\ last_pulse_completed_at' =
             [last_pulse_completed_at EXCEPT ![b] = IF r = 1 THEN 0 ELSE @]
      /\ moved_since' = [moved_since EXCEPT ![b] = @ /\ ~(r = 1)]
      /\ heard' = [heard EXCEPT ![b] =
             IF ~told THEN @ ELSE IF p = 0 THEN 0 ELSE Older(@, Commit)]
      /\ goal' = [goal EXCEPT ![b] = IF acts /\ Accepts(b, p) THEN @ + p ELSE @]
  BY DEF MarstekPolls, SilenceLeft
<1>3. /\ r \in 1..PulseCount /\ p \in Int /\ heard[b] \in 0..Commit /\ goal[b] \in Int
      /\ last_plug_w[b] \in Power \cup {None} /\ plug_w_at_pulse_send[b] \in Power \cup {None}
      /\ last_pulse_completed_at[b] \in 0..Settle \cup {None}
      /\ last_pulse_delta_w[b] \in Delta \cup {None}
      /\ Power \subseteq Int /\ Delta \subseteq Int
  BY Values DEF Delta, Power
<1>4. /\ pulse_remaining'[b] = r - 1
      /\ r = 1 => last_pulse_completed_at'[b] = 0
      /\ r # 1 => pending_pulse_w'[b] = p
  <2>1. /\ pulse_remaining \in [Battery -> 0..PulseCount]
        /\ last_pulse_completed_at \in [Battery -> 0..Settle \cup {None}]
        /\ pending_pulse_w \in [Battery -> Delta]
    BY DEF TypeOK
  <2>2. pulse_remaining'[b] = Left(r)
    BY <1>2, <2>1
  <2>3. QED
    BY <1>2, <1>3, <2>1, <2>2 DEF Left
<1>5. r = 1 => ~moved_since'[b]
  BY <1>2, Zenon DEF TypeOK
<1>6. heard'[b] = IF ~told THEN heard[b] ELSE IF p = 0 THEN 0
                  ELSE IF heard[b] < Commit THEN heard[b] + 1 ELSE Commit
  <2>1. heard \in [Battery -> 0..Commit]
    BY DEF TypeOK
  <2>2. heard'[b] = IF ~told THEN heard[b] ELSE IF p = 0 THEN 0 ELSE Older(heard[b], Commit)
    BY <1>2, <2>1
  <2>3. Older(heard[b], Commit) = IF heard[b] < Commit THEN heard[b] + 1 ELSE Commit
    BY <1>3 DEF Older
  <2>4. QED
    BY <2>2, <2>3
<1>7. goal'[b] = IF acts /\ Accepts(b, p) THEN goal[b] + p ELSE goal[b]
  BY <1>2 DEF TypeOK
<1>8. SilenceLeft(b)' = 0
  BY <1>1 DEF SilenceLeft, muteVars
<1>9. goal'[b] \in Power
  BY <1>3, <1>7 DEF BatteryInv, PulseFits
<1>10. PulseFits(b)'
  <2>1. CASE told /\ p # 0
    BY <1>3, <1>4, <1>6, <1>7, <2>1 DEF BatteryInv, PulseFits
  <2>2. CASE ~told \/ p = 0
    BY <1>3, <1>4, <1>6, <1>7, <2>2 DEF BatteryInv, PulseFits
  <2>3. QED
    BY <2>1, <2>2
<1>11. NotYetSeen(b)' /\ AtRest(b)'
  BY <1>1, <1>3 DEF BatteryInv, NotYetSeen, AtRest
<1>12. Ramps(b)' /\ Forgotten(b)'
  BY <1>3, <1>4, <1>8 DEF Ramps, Forgotten
<1>13. SeenMoving(b)' /\ JudgedInTime(b)' /\ ComesToRest(b)'
  BY <1>3, <1>4, <1>5, <1>8 DEF SeenMoving, JudgedInTime, ComesToRest
<1>14. LocksEarned(b)'
  BY <1>1, <1>8 DEF BatteryInv, LocksEarned, lockVars
<1>15. Followed(b)'
  <2>1. CASE last_pulse_delta_w[b] = None \/ grid # "fresh"
    BY <1>1, <1>3, <1>4, <2>1 DEF BatteryInv, Followed
  <2>2. CASE last_pulse_delta_w[b] # None /\ grid = "fresh"
    <3>1. /\ p = last_pulse_delta_w[b] /\ p # 0 /\ plug_w_at_pulse_send[b] \in Int
          /\ \/ goal[b] = Wanted(b) /\ heard[b] = Commit
             \/ /\ goal[b] = plug_w_at_pulse_send[b]
                /\ heard[b] < Commit /\ heard[b] + r >= Commit
      BY <1>3, <2>2 DEF BatteryInv, Followed
    <3>2. Wanted(b)' = Wanted(b)
      BY <1>1 DEF Wanted
    <3>3. \/ goal'[b] = Wanted(b) /\ heard'[b] = Commit
          \/ /\ goal'[b] = plug_w_at_pulse_send[b] /\ r - 1 > 0
             /\ heard'[b] < Commit /\ heard'[b] + r - 1 >= Commit
      <4>1. CASE lost
        BY <1>1, <1>3, <1>6, <1>7, <3>1, <4>1
      <4>2. CASE ~lost /\ heard[b] = Commit - 1
        <5>1. acts
          BY <2>2, <3>1, <4>2
        <5>2. goal[b] = plug_w_at_pulse_send[b] /\ heard'[b] = Commit
          BY <1>3, <1>6, <3>1, <4>2, <5>1
        <5>3. goal'[b] = Wanted(b)
          BY <1>3, <1>7, <3>1, <5>1, <5>2 DEF Wanted
        <5>4. QED
          BY <5>2, <5>3
      <4>3. CASE ~lost /\ heard[b] # Commit - 1
        BY <1>3, <1>6, <1>7, <2>2, <3>1, <4>3
      <4>4. QED
        BY <4>1, <4>2, <4>3
    <3>4. QED
      BY <1>1, <1>3, <1>4, <2>2, <3>1, <3>2, <3>3 DEF Followed
  <2>3. QED
    BY <2>1, <2>2
<1>16. QED
  BY <1>9, <1>10, <1>11, <1>12, <1>13, <1>14, <1>15 DEF BatteryInv

\* A poll without a pulse: the Marstek forgets the last one.
LEMMA NothingHandedOut ==
    ASSUME TypeOK, NEW b \in Battery, NEW lost \in BOOLEAN, BatteryInv(b), MarstekPolls(b, lost),
           SilenceLeft(b) > 0 \/ pulse_remaining[b] = 0
    PROVE  BatteryInv(b)'
<1> USE MoreConstants
<1>1. /\ UNCHANGED <<lockVars, last_plug_w, last_plug_at, last_plug_movement_at, muteVars,
                     grid, phase, sampled, plug_w_at_pulse_send, last_pulse_delta_w>>
  BY DEF MarstekPolls, pulseVars
<1>2. /\ heard[b] \in 0..Commit /\ SilenceLeft(b) \in 0..Silence /\ goal[b] \in Int
      /\ SilenceLeft(b)' = SilenceLeft(b)
      /\ pulse_remaining[b] \in 0..PulseCount
      /\ last_pulse_completed_at[b] \in 0..Settle \cup {None}
  BY <1>1, Values DEF SilenceLeft, muteVars
<1>3. /\ pulse_remaining'[b] = pulse_remaining[b]
      /\ pending_pulse_w'[b] = pending_pulse_w[b]
      /\ last_pulse_completed_at'[b] = last_pulse_completed_at[b]
      /\ goal'[b] = goal[b]
  <2>1. CASE SilenceLeft(b) > 0
    BY <2>1 DEF MarstekPolls, SilenceLeft, pulseVars
  <2>2. CASE ~(SilenceLeft(b) > 0)
    <3>1. pulse_remaining[b] = 0
      BY <2>2
    <3>2. /\ pulse_remaining' = [pulse_remaining EXCEPT ![b] = Left(@)]
          /\ pending_pulse_w' = [pending_pulse_w EXCEPT ![b] = @]
          /\ last_pulse_completed_at' = [last_pulse_completed_at EXCEPT ![b] = @]
          /\ goal' = [goal EXCEPT ![b] = @]
      BY <2>2, <3>1 DEF MarstekPolls, SilenceLeft
    <3>3. QED
      BY <3>1, <3>2 DEF TypeOK, Left
  <2>3. QED
    BY <2>1, <2>2
<1>4. moved_since'[b] = moved_since[b]
  <2>1. CASE SilenceLeft(b) > 0
    BY <2>1 DEF MarstekPolls, SilenceLeft
  <2>2. CASE ~(SilenceLeft(b) > 0)
    <3>1. pulse_remaining[b] # 1
      BY <2>2
    <3>2. moved_since' = [moved_since EXCEPT ![b] = @ /\ ~(pulse_remaining[b] = 1)]
      BY <2>2 DEF MarstekPolls, SilenceLeft
    <3>3. moved_since \in [Battery -> BOOLEAN]
      BY DEF TypeOK
    <3>4. QED
      BY <3>1, <3>2, <3>3, Zenon
  <2>3. QED
    BY <2>1, <2>2
<1>5. /\ heard'[b] = 0 \/ heard'[b] = heard[b]
      /\ SilenceLeft(b) > 0 \/ grid = "fresh" => heard'[b] = 0
  <2>1. CASE SilenceLeft(b) > 0
    BY <2>1 DEF MarstekPolls, SilenceLeft, TypeOK
  <2>2. CASE ~(SilenceLeft(b) > 0)
    <3>1. pulse_remaining[b] = 0 /\ ~lost
      BY <1>2, <2>2 DEF MarstekPolls
    <3>2. heard' = [heard EXCEPT ![b] = IF ~(grid = "fresh") THEN @ ELSE 0]
      BY <2>2, <3>1 DEF MarstekPolls, SilenceLeft
    <3>3. QED
      BY <2>2, <3>2 DEF TypeOK
  <2>3. QED
    BY <2>1, <2>2
<1>6. Away(b)' = Away(b) /\ Wanted(b)' = Wanted(b) /\ One(b, sampled)' = One(b, sampled)
  BY <1>1, <1>3 DEF Away, Wanted, One
<1>7. NotYetSeen(b)' /\ PulseFits(b)' /\ AtRest(b)' /\ goal'[b] \in Power
  <2>1. heard'[b] < Commit /\ pulse_remaining[b] > 0 /\ SilenceLeft(b) = 0 => FALSE
    BY <1>2
  <2>2. QED
    BY <1>1, <1>2, <1>3, <1>5, <2>1 DEF BatteryInv, NotYetSeen, PulseFits, AtRest
<1>8. Ramps(b)' /\ SeenMoving(b)' /\ ComesToRest(b)' /\ LocksEarned(b)'
  BY <1>1, <1>2, <1>3, <1>4, <1>6 DEF BatteryInv, Ramps, SeenMoving, ComesToRest, LocksEarned, lockVars
<1>9. Forgotten(b)'
  BY <1>1, <1>2, <1>3, <1>5 DEF BatteryInv, Forgotten
<1>10. Followed(b)' /\ JudgedInTime(b)'
  BY <1>1, <1>2, <1>3, <1>6 DEF BatteryInv, Followed, JudgedInTime
<1>11. QED
  BY <1>7, <1>8, <1>9, <1>10 DEF BatteryInv

LEMMA GridChangesKeeps ==
    ASSUME TypeOK, WholeSilence, NEW b \in Battery, BatteryInv(b), GridChanges
    PROVE  BatteryInv(b)'
<1> USE MoreConstants
<1>1. /\ UNCHANGED <<pulseVars, lockVars, plugVars, muteVars, phase, polled, sampled, heard,
                     goal>>
      /\ grid = "seen stale" \/ grid' = "stale"
  BY DEF GridChanges
<1>2. /\ SilenceLeft(b)' = SilenceLeft(b) /\ Away(b)' = Away(b) /\ Wanted(b)' = Wanted(b)
      /\ One(b, sampled)' = One(b, sampled)
  BY <1>1 DEF SilenceLeft, Away, Wanted, One, pulseVars, plugVars, muteVars
<1>3. grid' = "fresh" => SilenceLeft(b) # 0
  <2>1. grid = "seen stale" => silent_until[CircuitOf[b]] = Silence
    BY DEF WholeSilence
  <2>2. grid = "seen stale" \/ grid' # "fresh"
    BY <1>1
  <2>3. Silence # 0
    OBVIOUS
  <2>4. QED
    BY <2>1, <2>2, <2>3, Zenon DEF SilenceLeft
<1>4. NotYetSeen(b)' /\ PulseFits(b)' /\ AtRest(b)' /\ goal'[b] \in Power
  BY <1>1, <1>2 DEF BatteryInv, NotYetSeen, PulseFits, AtRest, pulseVars, plugVars
<1>5. Ramps(b)' /\ SeenMoving(b)' /\ ComesToRest(b)' /\ LocksEarned(b)'
  BY <1>1, <1>2 DEF BatteryInv, Ramps, SeenMoving, ComesToRest, LocksEarned, pulseVars, plugVars,
                    lockVars
<1>6. Forgotten(b)' /\ Followed(b)' /\ JudgedInTime(b)'
  BY <1>1, <1>2, <1>3 DEF BatteryInv, Forgotten, Followed, JudgedInTime, pulseVars
<1>7. QED
  BY <1>4, <1>5, <1>6 DEF BatteryInv


\* Pulses are queued for batteries at rest; those of muted circuits are cleared.
LEMMA QueueKeeps ==
    ASSUME TypeOK, NEW b \in Battery, BatteryInv(b), Queue
    PROVE  BatteryInv(b)'
<1> USE MoreConstants
<1>1. /\ UNCHANGED <<lockVars, plugVars, muteVars, grid, polled, sampled, heard, goal>>
      /\ phase = "queue" /\ phase' = "wait"
  BY DEF Queue
<1>2. PICK delta \in [Battery -> Delta] :
         LET Silent(x) == silent_until[CircuitOf[x]] > 0
             Armed(x)  == delta[x] # 0
         IN
         /\ \A x \in Battery : delta[x] \in IF Silent(x) THEN {0} ELSE Deltas(x)
         /\ pending_pulse_w' = [x \in Battery |->
                IF Silent(x) THEN 0 ELSE IF Armed(x) THEN delta[x] ELSE pending_pulse_w[x]]
         /\ pulse_remaining' = [x \in Battery |->
                IF Silent(x) THEN 0 ELSE IF Armed(x) THEN PulseCount ELSE pulse_remaining[x]]
         /\ plug_w_at_pulse_send' = [x \in Battery |->
                IF Silent(x) THEN None
                ELSE IF Armed(x) THEN last_plug_w[x] ELSE plug_w_at_pulse_send[x]]
         /\ last_pulse_completed_at' = [x \in Battery |->
                IF Silent(x) \/ Armed(x) THEN None ELSE last_pulse_completed_at[x]]
         /\ last_pulse_delta_w' = [x \in Battery |->
                IF Silent(x) THEN None
                ELSE IF Armed(x) THEN delta[x] ELSE last_pulse_delta_w[x]]
  BY DEF Queue
<1>3. /\ SilenceLeft(b)' = SilenceLeft(b) /\ SilenceLeft(b) \in 0..Silence
      /\ Away(b)' = Away(b) /\ One(b, sampled)' = One(b, sampled)
  BY <1>1, Values DEF SilenceLeft, Away, One, plugVars, muteVars
<1>4. /\ goal[b] \in Int /\ goal'[b] = goal[b] /\ last_plug_w'[b] = last_plug_w[b]
      /\ heard'[b] = heard[b]
      /\ moved_since'[b] = moved_since[b]
      /\ last_plug_movement_at'[b] = last_plug_movement_at[b]
  BY <1>1, Values DEF plugVars
<1>5. AtRest(b)' /\ LocksEarned(b)' /\ goal'[b] \in Power
  BY <1>1, <1>3, <1>4 DEF BatteryInv, AtRest, LocksEarned, lockVars
<1>6. ComesToRest(b)'
  BY <1>1, <1>3 DEF BatteryInv, ComesToRest
<1>7. CASE SilenceLeft(b) > 0
  <2>1. /\ pulse_remaining'[b] = 0 /\ last_pulse_completed_at'[b] = None
        /\ last_pulse_delta_w'[b] = None
    BY <1>2, <1>7 DEF SilenceLeft
  <2>2. NotYetSeen(b)' /\ PulseFits(b)' /\ Ramps(b)' /\ SeenMoving(b)'
    BY <1>1, <1>3, <1>4, <1>7, <2>1 DEF BatteryInv, NotYetSeen, PulseFits, Ramps, SeenMoving
  <2>3. Forgotten(b)' /\ Followed(b)' /\ JudgedInTime(b)'
    BY <1>1, <1>3, <1>4, <1>7, <2>1 DEF BatteryInv, Forgotten, Followed, JudgedInTime
  <2>4. QED
    BY <1>5, <1>6, <2>2, <2>3 DEF BatteryInv
<1>8. CASE ~(SilenceLeft(b) > 0) /\ delta[b] = 0
  <2>1. /\ pulse_remaining'[b] = pulse_remaining[b]
        /\ pending_pulse_w'[b] = pending_pulse_w[b]
        /\ plug_w_at_pulse_send'[b] = plug_w_at_pulse_send[b]
        /\ last_pulse_completed_at'[b] = last_pulse_completed_at[b]
        /\ last_pulse_delta_w'[b] = last_pulse_delta_w[b]
    BY <1>2, <1>8 DEF SilenceLeft
  <2>2. NotYetSeen(b)' /\ PulseFits(b)' /\ Ramps(b)' /\ SeenMoving(b)'
    BY <1>1, <1>3, <1>4, <2>1 DEF BatteryInv, NotYetSeen, PulseFits, Ramps, SeenMoving
  <2>3. Forgotten(b)' /\ JudgedInTime(b)'
    BY <1>1, <1>3, <1>4, <2>1 DEF BatteryInv, Forgotten, JudgedInTime
  <2>4. Followed(b)'
    <3>1. Wanted(b)' = Wanted(b)
      BY <2>1 DEF Wanted
    <3>2. QED
      BY <1>1, <1>3, <1>4, <2>1, <3>1 DEF BatteryInv, Followed
  <2>5. QED
    BY <1>5, <1>6, <2>2, <2>3, <2>4 DEF BatteryInv
<1>9. CASE ~(SilenceLeft(b) > 0) /\ delta[b] # 0
  <2>1. SilenceLeft(b) = 0 /\ last_plug_w[b] = goal[b] /\ heard[b] = 0
    BY <1>1, <1>3, <1>9 DEF BatteryInv, AtRest
  <2>2. /\ pulse_remaining'[b] = PulseCount /\ pending_pulse_w'[b] = delta[b]
        /\ plug_w_at_pulse_send'[b] = last_plug_w[b] /\ last_pulse_completed_at'[b] = None
        /\ last_pulse_delta_w'[b] = delta[b] /\ delta[b] \in Deltas(b)
    BY <1>2, <1>9 DEF SilenceLeft
  <2>3. goal[b] + delta[b] \in Power
    <3>1. PICK target \in low_bound(b)..high_bound(b) :
             Between(0, delta[b], target - last_plug_w[b])
      BY <2>2 DEF Deltas
    <3>2. low_bound(b) \in Power /\ high_bound(b) \in Power
      BY DEF low_bound, high_bound, Power
    <3>3. delta[b] \in Int /\ goal[b] \in Power
      BY <2>2 DEF Deltas, Delta, BatteryInv
    <3>4. QED
      BY <2>1, <3>1, <3>2, <3>3 DEF Between, Power
  <2>4. delta[b] \in Int /\ delta[b] # None /\ goal[b] # None
    BY <1>4, <2>2 DEF Deltas, Delta
  <2>5. NotYetSeen(b)' /\ PulseFits(b)' /\ Ramps(b)' /\ SeenMoving(b)'
    BY <1>4, <2>1, <2>2, <2>3, <2>4 DEF NotYetSeen, PulseFits, Ramps, SeenMoving
  <2>6. Forgotten(b)' /\ JudgedInTime(b)'
    BY <1>3, <1>4, <2>1, <2>2 DEF Forgotten, JudgedInTime
  <2>7. Followed(b)'
    BY <1>4, <1>9, <2>1, <2>2, <2>4 DEF Followed
  <2>8. QED
    BY <1>5, <1>6, <2>5, <2>6, <2>7 DEF BatteryInv
<1>10. QED
  BY <1>7, <1>8, <1>9


\* What a cycle does to the values of one battery.
LEMMA AssessAt ==
    ASSUME TypeOK, Tuned, Assess, NEW b \in Battery
    PROVE  /\ UNCHANGED <<pending_pulse_w, pulse_remaining, plug_w_at_pulse_send, last_plug_w,
                          moved_since, heard, goal>>
           /\ phase = "wait" /\ b \in sampled /\ b \in polled
           /\ polled' = {} /\ sampled' = {}
           /\ grid' = IF grid = "stale" THEN "seen stale" ELSE grid
           /\ SilenceLeft(b)' = IF NeedsSilence(CircuitOf[b]) THEN Silence
                                ELSE Left(SilenceLeft(b))
           /\ last_pulse_completed_at'[b] = Older(last_pulse_completed_at[b], Settle)
           /\ last_plug_movement_at'[b] = Older(last_plug_movement_at[b], Stable)
           /\ phase' = "queue" => SilenceLeft(b)' # 0 \/ pulse_settled(b)
           /\ last_pulse_delta_w'[b] \in {None, last_pulse_delta_w[b]}
           /\ ~NeedsSilence(CircuitOf[b]) => grid = "fresh" /\ last_plug_w[b] # None
<1>1. /\ UNCHANGED <<pending_pulse_w, pulse_remaining, plug_w_at_pulse_send, last_plug_w,
                     moved_since, heard, goal>>
      /\ phase = "wait" /\ sampled = Battery /\ polled = Battery
      /\ polled' = {} /\ sampled' = {}
      /\ grid' = IF grid = "stale" THEN "seen stale" ELSE grid
      /\ silent_until' = [c \in Circuit |-> Muted(c)]
      /\ last_pulse_completed_at' = [x \in Battery |-> Older(last_pulse_completed_at[x], Settle)]
      /\ last_plug_movement_at' = [x \in Battery |-> Older(last_plug_movement_at[x], Stable)]
  BY DEF Assess, Tuned
<1>2. SilenceLeft(b)' = Muted(CircuitOf[b])
  BY <1>1 DEF SilenceLeft
<1>3. phase' = "queue" => Muted(CircuitOf[b]) # 0 \/ pulse_settled(b)
  <2>1. phase' = "queue" => ~any_pulse_in_flight
    BY <1>1 DEF Assess
  <2>2. QED
    BY <2>1 DEF any_pulse_in_flight
<1>4. last_pulse_delta_w'[b] \in {None, last_pulse_delta_w[b]}
  BY DEF Assess
<1>5. ~NeedsSilence(CircuitOf[b]) => grid = "fresh" /\ last_plug_w[b] # None
  BY DEF NeedsSilence, is_plug_fresh
<1>6. QED
  BY <1>1, <1>2, <1>3, <1>4, <1>5 DEF Muted, SilenceLeft

\* How long ago a pulse went out, a cycle later.
LEMMA CompletedAges ==
    ASSUME NEW t \in 0..Settle \cup {None}
    PROVE  /\ Older(t, Settle) = None <=> t = None
           /\ Older(t, Settle) # 0
           /\ t # None => /\ Older(t, Settle) \in 1..Settle /\ t \in 0..Settle
                          /\ Older(t, Settle) = IF t < Settle THEN t + 1 ELSE Settle
BY MoreConstants DEF Older

\* A lock that is not renewed is shorter than a whole one.
LEMMA LeftIsLess == ASSUME NEW left \in 0..Lockout PROVE Left(left) # Lockout
BY MoreConstants DEF Left

LEMMA AwayTyped ==
    ASSUME TypeOK, NEW b \in Battery, goal[b] \in Power
    PROVE  /\ Away(b) \in 0..2 * MaxPower
           /\ Away(b) = 0 /\ last_plug_w[b] # None => last_plug_w[b] = goal[b]
<1>1. last_plug_w[b] \in Power \cup {None}
  BY Values
<1>2. QED
  BY <1>1 DEF Away, Power

\* A cycle that finds the circuit stale mutes it.
LEMMA AssessMutes ==
    ASSUME TypeOK, Tuned, NEW b \in Battery, BatteryInv(b), Assess, NeedsSilence(CircuitOf[b])
    PROVE  BatteryInv(b)'
<1> USE MoreConstants
<1>1. /\ SilenceLeft(b)' = Silence
      /\ UNCHANGED <<pending_pulse_w, pulse_remaining, plug_w_at_pulse_send, last_plug_w,
                     heard, goal>>
      /\ b \in sampled /\ polled' = {} /\ sampled' = {}
      /\ last_pulse_delta_w'[b] \in {None, last_pulse_delta_w[b]}
      /\ last_pulse_completed_at'[b] = Older(last_pulse_completed_at[b], Settle)
  BY AssessAt
<1>2. last_pulse_completed_at'[b] # 0
      /\ (last_pulse_completed_at'[b] = None <=> last_pulse_completed_at[b] = None)
  <2>1. last_pulse_completed_at[b] \in 0..Settle \cup {None}
    BY Values
  <2>2. QED
    BY <1>1, <2>1, CompletedAges
<1>3. last_plug_w'[b] # None
  BY <1>1 DEF BatteryInv, NotYetSeen
<1>4. PulseFits(b)' /\ AtRest(b)' /\ Ramps(b)' /\ LocksEarned(b)' /\ JudgedInTime(b)'
  BY <1>1 DEF PulseFits, AtRest, Ramps, LocksEarned, JudgedInTime
<1>5. NotYetSeen(b)' /\ SeenMoving(b)' /\ Forgotten(b)' /\ goal'[b] \in Power
  BY <1>1, <1>2, <1>3 DEF BatteryInv, NotYetSeen, SeenMoving, Forgotten
<1>6. ComesToRest(b)'
  <2>1. Away(b)' \in 0..2 * MaxPower
    <3>1. Away(b)' = Away(b)
      BY <1>1 DEF Away
    <3>2. QED
      BY <3>1, AwayTyped DEF BatteryInv
  <2>2. One(b, sampled)' = 0
    BY <1>1 DEF One
  <2>3. QED
    BY <1>1, <2>1, <2>2 DEF ComesToRest
<1>7. Followed(b)'
  BY <1>1, <1>2 DEF BatteryInv, Followed
<1>8. QED
  BY <1>4, <1>5, <1>6, <1>7 DEF BatteryInv

\* A plug that a cycle finds settled is where its battery wants it.
LEMMA SettledIsThere ==
    ASSUME TypeOK, Tuned, NEW b \in Battery, BatteryInv(b), b \in sampled, SilenceLeft(b) = 0,
           pulse_settled(b)
    PROVE  /\ pulse_remaining[b] = 0 /\ Away(b) = 0
           /\ last_pulse_completed_at[b] # 0
<1> USE MoreConstants
<1>1. /\ pulse_remaining[b] = 0
      /\ \/ last_pulse_completed_at[b] = None
         \/ last_pulse_completed_at[b] + 1 >= Settle
         \/ moved_since[b] /\ last_plug_movement_at[b] + 1 >= Stable
  BY DEF pulse_settled
<1>2. /\ last_pulse_completed_at[b] \in 0..Settle \cup {None} /\ Away(b) \in 0..2 * MaxPower
      /\ last_plug_movement_at[b] \in 0..Stable
  BY Values, AwayTyped DEF BatteryInv
<1>3. Settle > 2 * MaxPower /\ Stable >= 2 /\ One(b, sampled) = 1
  BY DEF Tuned, One
<1>4. CASE last_pulse_completed_at[b] = None
  BY <1>1, <1>4 DEF BatteryInv, Ramps
<1>5. CASE last_pulse_completed_at[b] # None /\ last_pulse_completed_at[b] + 1 >= Settle
  <2>1. last_pulse_completed_at[b] \in 1..Settle
    BY <1>2, <1>3, <1>5
  <2>2. \/ Away(b) = 0
        \/ Away(b) + last_pulse_completed_at[b] - 1 + One(b, sampled) <= 2 * MaxPower
    BY <1>1, <1>5, <2>1 DEF BatteryInv, Ramps
  <2>3. QED
    BY <1>1, <1>2, <1>3, <1>5, <2>1, <2>2
<1>6. CASE /\ last_pulse_completed_at[b] # None
           /\ moved_since[b] /\ last_plug_movement_at[b] + 1 >= Stable
  <2>1. last_plug_movement_at[b] # 0
    BY <1>2, <1>3, <1>6
  <2>2. moved_since[b]
    BY <1>6
  <2>3. ~(Away(b) > 0) /\ last_pulse_completed_at[b] # 0
    BY <1>1, <2>1, <2>2 DEF BatteryInv, SeenMoving
  <2>4. QED
    BY <1>1, <1>2, <2>3
<1>7. QED
  BY <1>1, <1>4, <1>5, <1>6


\* What a cycle makes of the last pulse where the circuit is not stale.
LEMMA AssessJudges ==
    ASSUME TypeOK, Tuned, NEW b \in Battery, Assess, ~NeedsSilence(CircuitOf[b])
    PROVE  /\ last_pulse_delta_w'[b] = IF Outcome(b) = "unknown" THEN last_pulse_delta_w[b]
                                       ELSE None
           /\ charge_locked_until'[b] = Lockout =>
                  /\ Outcome(b) = "refused"
                  /\ last_pulse_delta_w[b] # None /\ last_pulse_delta_w[b] < 0
           /\ discharge_locked_until'[b] = Lockout =>
                  /\ Outcome(b) = "refused"
                  /\ last_pulse_delta_w[b] # None /\ last_pulse_delta_w[b] > 0
<1> USE MoreConstants
<1>1. grid = "fresh"
  BY AssessAt
<1>2. last_pulse_delta_w' = [x \in Battery |->
          IF Outcome(x) = "unknown" THEN last_pulse_delta_w[x] ELSE None]
  BY <1>1 DEF Assess
<1>3. /\ charge_locked_until'[b] = LockLeft(charge_locked_until[b],
             last_pulse_delta_w[b] # None /\ last_pulse_delta_w[b] < 0, b)
      /\ discharge_locked_until'[b] = LockLeft(discharge_locked_until[b],
             last_pulse_delta_w[b] # None /\ last_pulse_delta_w[b] > 0, b)
  BY <1>1 DEF Assess
<1>4. ASSUME NEW left \in 0..Lockout, NEW pulsed \in BOOLEAN,
             LockLeft(left, pulsed, b) = Lockout
      PROVE  pulsed /\ Outcome(b) = "refused"
  <2>1. Left(left) # Lockout /\ 0 # Lockout
    BY LeftIsLess
  <2>2. QED
    BY <1>4, <2>1 DEF LockLeft
<1>5. charge_locked_until[b] \in 0..Lockout /\ discharge_locked_until[b] \in 0..Lockout
  BY Ranges
<1>6. charge_locked_until'[b] = Lockout =>
          /\ Outcome(b) = "refused"
          /\ last_pulse_delta_w[b] # None /\ last_pulse_delta_w[b] < 0
  BY <1>3, <1>4, <1>5
<1>7. discharge_locked_until'[b] = Lockout =>
          /\ Outcome(b) = "refused"
          /\ last_pulse_delta_w[b] # None /\ last_pulse_delta_w[b] > 0
  BY <1>3, <1>4, <1>5
<1>8. QED
  BY <1>2, <1>6, <1>7

\* A pulse whose settle timeout is over without a movement was not accepted.
LEMMA RefusedIsRefused ==
    ASSUME TypeOK, Tuned, NEW b \in Battery, BatteryInv(b), b \in sampled, SilenceLeft(b) = 0,
           grid = "fresh", last_pulse_delta_w[b] # None, Outcome(b) = "refused"
    PROVE  ~Accepts(b, last_pulse_delta_w[b])
<1> USE MoreConstants
<1>1. /\ ~(pulse_remaining[b] > 0)
      /\ last_pulse_completed_at[b] # None /\ plug_w_at_pulse_send[b] # None
      /\ last_plug_w[b] # None
      /\ last_plug_w[b] = plug_w_at_pulse_send[b]
      /\ ~(last_pulse_completed_at[b] + 1 < Settle)
  BY DEF Outcome, Moved
<1>2. /\ pulse_remaining[b] \in 0..PulseCount
      /\ last_pulse_completed_at[b] \in 0..Settle \cup {None}
      /\ last_pulse_delta_w[b] \in Int /\ plug_w_at_pulse_send[b] \in Int
  BY <1>1, Values DEF Power, Delta
<1>3. pulse_remaining[b] = 0 /\ last_pulse_completed_at[b] + 1 >= Settle
  BY <1>1, <1>2
<1>4. Away(b) = 0
  BY <1>3, SettledIsThere DEF pulse_settled
<1>5. last_plug_w[b] = goal[b]
  BY <1>1, <1>4, AwayTyped DEF BatteryInv
<1>6. goal[b] = Wanted(b) /\ last_pulse_delta_w[b] # 0
  BY <1>3 DEF BatteryInv, Followed
<1>7. QED
  BY <1>1, <1>2, <1>5, <1>6 DEF Wanted

\* A cycle that does not find the circuit stale, nor in its silence.
LEMMA AssessGoesOn ==
    ASSUME TypeOK, Tuned, NEW b \in Battery, BatteryInv(b), Assess, ~NeedsSilence(CircuitOf[b]),
           SilenceLeft(b) = 0
    PROVE  BatteryInv(b)'
<1> USE MoreConstants
<1>1. /\ SilenceLeft(b)' = 0
      /\ UNCHANGED <<pending_pulse_w, pulse_remaining, plug_w_at_pulse_send, last_plug_w,
                     heard, goal>>
      /\ b \in sampled /\ b \in polled /\ polled' = {} /\ sampled' = {}
      /\ last_pulse_delta_w'[b] \in {None, last_pulse_delta_w[b]}
      /\ last_pulse_completed_at'[b] = Older(last_pulse_completed_at[b], Settle)
      /\ grid = "fresh" /\ grid' = "fresh" /\ last_plug_w[b] # None
      /\ phase' = "queue" => pulse_settled(b)
  BY AssessAt DEF Left
<1>2. /\ last_pulse_completed_at'[b] = None <=> last_pulse_completed_at[b] = None
      /\ last_pulse_completed_at[b] # None =>
            /\ last_pulse_completed_at'[b] \in 1..Settle
            /\ last_pulse_completed_at[b] \in 0..Settle
            /\ last_pulse_completed_at'[b] = IF last_pulse_completed_at[b] < Settle
                                             THEN last_pulse_completed_at[b] + 1 ELSE Settle
  <2>1. last_pulse_completed_at[b] \in 0..Settle \cup {None}
    BY Values
  <2>2. QED
    BY <1>1, <2>1, CompletedAges
<1>3. /\ Away(b)' = Away(b)
      /\ Wanted(b)' = Wanted(b) \/ last_pulse_delta_w'[b] = None
      /\ One(b, sampled) = 1 /\ One(b, sampled)' = 0 /\ Away(b) \in 0..2 * MaxPower
  BY <1>1, AwayTyped DEF BatteryInv, Away, Wanted, One
<1>4. NotYetSeen(b)' /\ PulseFits(b)' /\ goal'[b] \in Power
  BY <1>1 DEF BatteryInv, NotYetSeen, PulseFits
<1>5. AtRest(b)'
  <2>1. SUFFICES ASSUME pulse_settled(b)
                 PROVE  pulse_remaining[b] = 0 /\ last_plug_w[b] = goal[b] /\ heard[b] = 0
    BY <1>1 DEF AtRest
  <2>2. /\ pulse_remaining[b] = 0 /\ Away(b) = 0 /\ last_pulse_completed_at[b] # 0
    BY <1>1, <2>1, SettledIsThere
  <2>3. last_plug_w[b] = goal[b]
    BY <1>1, <2>2, AwayTyped DEF BatteryInv
  <2>4. heard[b] = 0
    BY <1>1, <1>2, <2>2 DEF BatteryInv, Forgotten
  <2>5. QED
    BY <2>2, <2>3, <2>4
<1>6. Ramps(b)'
  <2>1. SUFFICES ASSUME pulse_remaining[b] = 0, last_pulse_completed_at[b] # None
                 PROVE  \/ Away(b) = 0
                        \/ Away(b) + last_pulse_completed_at'[b] - 1 <= 2 * MaxPower
    BY <1>1, <1>2, <1>3 DEF BatteryInv, Ramps
  <2>2. CASE last_pulse_completed_at[b] = 0
    BY <1>2, <1>3, <2>1, <2>2
  <2>3. CASE last_pulse_completed_at[b] # 0
    <3>1. \/ Away(b) = 0
          \/ Away(b) + last_pulse_completed_at[b] - 1 + One(b, sampled) <= 2 * MaxPower
      BY <2>1, <2>3 DEF BatteryInv, Ramps
    <3>2. QED
      BY <1>2, <1>3, <2>1, <3>1
  <2>4. QED
    BY <2>2, <2>3
<1>7. SeenMoving(b)' /\ ComesToRest(b)' /\ JudgedInTime(b)'
  BY <1>1, <1>2 DEF SeenMoving, ComesToRest, JudgedInTime
<1>8. Forgotten(b)'
  BY <1>1, <1>2 DEF BatteryInv, Forgotten
<1>9. Followed(b)'
  <2>1. CASE last_pulse_delta_w'[b] = None
    BY <2>1 DEF Followed
  <2>2. CASE last_pulse_delta_w'[b] # None
    BY <1>1, <1>2, <1>3, <2>2 DEF BatteryInv, Followed
  <2>3. QED
    BY <2>1, <2>2
<1>10. LocksEarned(b)'
  <2>1. last_pulse_delta_w[b] # None => last_pulse_delta_w[b] \in Int
    BY Values DEF Delta
  <2>2. ASSUME charge_locked_until'[b] = Lockout PROVE b \in Full
    <3>1. /\ Outcome(b) = "refused"
          /\ last_pulse_delta_w[b] # None /\ last_pulse_delta_w[b] < 0
      BY <2>2, AssessJudges
    <3>2. ~Accepts(b, last_pulse_delta_w[b])
      BY <1>1, <3>1, RefusedIsRefused
    <3>3. QED
      BY <3>1, <3>2 DEF Accepts
  <2>3. ASSUME discharge_locked_until'[b] = Lockout PROVE b \in Empty
    <3>1. /\ Outcome(b) = "refused"
          /\ last_pulse_delta_w[b] # None /\ last_pulse_delta_w[b] > 0
      BY <2>3, AssessJudges
    <3>2. ~Accepts(b, last_pulse_delta_w[b])
      BY <1>1, <3>1, RefusedIsRefused
    <3>3. QED
      BY <2>1, <3>1, <3>2 DEF Accepts
  <2>4. QED
    BY <2>2, <2>3 DEF LocksEarned
<1>11. QED
  BY <1>4, <1>5, <1>6, <1>7, <1>8, <1>9, <1>10 DEF BatteryInv

\* The cycle that ends a silence finds nothing of before it.
LEMMA AssessUnmutes ==
    ASSUME TypeOK, Tuned, NEW b \in Battery, BatteryInv(b), ClearedInTime(b), Assess,
           ~NeedsSilence(CircuitOf[b]), SilenceLeft(b) = 1
    PROVE  BatteryInv(b)'
<1> USE MoreConstants
<1>1. /\ SilenceLeft(b)' = 0
      /\ UNCHANGED <<pending_pulse_w, pulse_remaining, plug_w_at_pulse_send, last_plug_w,
                     heard, goal>>
      /\ phase = "wait" /\ b \in sampled /\ b \in polled /\ polled' = {} /\ sampled' = {}
      /\ last_pulse_delta_w'[b] \in {None, last_pulse_delta_w[b]}
      /\ last_plug_w[b] # None
  <2>1. Left(SilenceLeft(b)) = 0
    BY DEF Left
  <2>2. QED
    BY <2>1, AssessAt
<1>2. pulse_remaining[b] = 0
  BY <1>1, Values DEF ClearedInTime
<1>3. Settle > 2 * MaxPower /\ Silence > Settle /\ WatchdogBy >= MaxPower
  BY DEF Tuned
<1>4. last_pulse_delta_w[b] = None
  <2>1. SilenceLeft(b) \in 1..Silence - 1
    BY <1>3
  <2>2. QED
    BY <1>2, <1>3, <2>1 DEF BatteryInv, JudgedInTime
<1>5. Away(b) = 0
  <2>1. Away(b) \in 0..2 * MaxPower /\ One(b, sampled) = 1
    BY <1>1, AwayTyped DEF BatteryInv, One
  <2>2. QED
    BY <1>3, <2>1 DEF BatteryInv, ComesToRest
<1>6. Away(b)' = 0 /\ last_plug_w[b] = goal[b]
  BY <1>1, <1>5, AwayTyped DEF BatteryInv, Away
<1>7. heard[b] = 0
  BY <1>1 DEF BatteryInv, Forgotten
<1>8. NotYetSeen(b)' /\ PulseFits(b)' /\ goal'[b] \in Power /\ AtRest(b)'
  BY <1>1, <1>2, <1>6, <1>7 DEF BatteryInv, NotYetSeen, PulseFits, AtRest
<1>9. Ramps(b)' /\ ComesToRest(b)' /\ JudgedInTime(b)' /\ Forgotten(b)' /\ Followed(b)'
  BY <1>1, <1>4, <1>6, <1>7 DEF Ramps, ComesToRest, JudgedInTime, Forgotten, Followed
<1>10. SeenMoving(b)'
  <2>1. last_pulse_completed_at'[b] # 0
    <3>1. last_pulse_completed_at[b] \in 0..Settle \cup {None}
      BY Values
    <3>2. last_pulse_completed_at'[b] = Older(last_pulse_completed_at[b], Settle)
      BY AssessAt
    <3>3. QED
      BY <3>1, <3>2, CompletedAges
  <2>2. QED
    BY <1>1, <2>1 DEF SeenMoving
<1>11. LocksEarned(b)'
  BY <1>4, AssessJudges DEF LocksEarned
<1>12. QED
  BY <1>8, <1>9, <1>10, <1>11 DEF BatteryInv

\* A cycle within a silence.
LEMMA AssessCools ==
    ASSUME TypeOK, Tuned, NEW b \in Battery, BatteryInv(b), Assess,
           ~NeedsSilence(CircuitOf[b]), SilenceLeft(b) > 1
    PROVE  BatteryInv(b)'
<1> USE MoreConstants
<1>0. SilenceLeft(b) \in 2..Silence
  BY Values
<1>1. /\ SilenceLeft(b)' = SilenceLeft(b) - 1
      /\ UNCHANGED <<pending_pulse_w, pulse_remaining, plug_w_at_pulse_send, last_plug_w,
                     heard, goal>>
      /\ b \in sampled /\ b \in polled /\ polled' = {} /\ sampled' = {}
      /\ last_pulse_delta_w'[b] \in {None, last_pulse_delta_w[b]}
      /\ last_plug_w[b] # None
      /\ last_pulse_completed_at'[b] = Older(last_pulse_completed_at[b], Settle)
  <2>1. Left(SilenceLeft(b)) = SilenceLeft(b) - 1
    BY <1>0 DEF Left
  <2>2. QED
    BY <2>1, AssessAt
<1>2. SilenceLeft(b)' \in 1..Silence - 1
  BY <1>0, <1>1
<1>3. /\ last_pulse_completed_at'[b] # 0
      /\ (last_pulse_completed_at'[b] = None <=> last_pulse_completed_at[b] = None)
      /\ last_pulse_completed_at[b] # None =>
            /\ last_pulse_completed_at[b] \in 0..Settle
            /\ last_pulse_completed_at'[b] = IF last_pulse_completed_at[b] < Settle
                                             THEN last_pulse_completed_at[b] + 1 ELSE Settle
  <2>1. last_pulse_completed_at[b] \in 0..Settle \cup {None}
    BY Values
  <2>2. QED
    BY <1>1, <2>1, CompletedAges
<1>4. heard[b] = 0
  BY <1>0, <1>1 DEF BatteryInv, Forgotten
<1>5. NotYetSeen(b)' /\ PulseFits(b)' /\ AtRest(b)' /\ Ramps(b)' /\ LocksEarned(b)'
  BY <1>1, <1>2 DEF NotYetSeen, PulseFits, AtRest, Ramps, LocksEarned
<1>6. SeenMoving(b)' /\ Forgotten(b)' /\ goal'[b] \in Power
  BY <1>1, <1>2, <1>3, <1>4 DEF BatteryInv, SeenMoving, Forgotten
<1>7. ComesToRest(b)'
  <2>1. /\ Away(b) \in 0..2 * MaxPower /\ Away(b)' = Away(b)
        /\ One(b, sampled) = 1 /\ One(b, sampled)' = 0
    BY <1>1, AwayTyped DEF BatteryInv, One, Away
  <2>2. QED
    BY <1>0, <1>1, <2>1 DEF BatteryInv, ComesToRest
<1>8. Followed(b)'
  BY <1>1, <1>2, <1>3 DEF BatteryInv, Followed
<1>9. JudgedInTime(b)'
  <2>1. SUFFICES ASSUME last_pulse_delta_w'[b] # None, pulse_remaining[b] = 0
                 PROVE  last_pulse_completed_at'[b] \in Silence - SilenceLeft(b)'..Settle - 1
    BY <1>1 DEF JudgedInTime
  <2>2. /\ last_pulse_delta_w[b] # None /\ last_pulse_completed_at[b] # None
        /\ plug_w_at_pulse_send[b] # None
    BY <1>1, <2>1 DEF BatteryInv, Followed
  <2>3. last_pulse_completed_at[b] + 1 < Settle
    <3>1. Outcome(b) = "unknown"
      BY <2>1, AssessJudges
    <3>2. QED
      BY <1>1, <2>1, <2>2, <3>1 DEF Outcome
  <2>4. last_pulse_completed_at[b] >= Silence - SilenceLeft(b)
    BY <1>0, <1>3, <2>1, <2>2 DEF BatteryInv, JudgedInTime
  <2>5. QED
    BY <1>0, <1>1, <1>3, <2>2, <2>3, <2>4
<1>10. QED
  BY <1>5, <1>6, <1>7, <1>8, <1>9 DEF BatteryInv

LEMMA AssessKeeps ==
    ASSUME TypeOK, Tuned, NEW b \in Battery, BatteryInv(b), ClearedInTime(b), Assess
    PROVE  BatteryInv(b)'
<1>1. SilenceLeft(b) \in 0..Silence
  BY Values
<1>2. SilenceLeft(b) = 0 \/ SilenceLeft(b) = 1 \/ SilenceLeft(b) > 1
  BY <1>1
<1>3. QED
  BY <1>2, AssessMutes, AssessGoesOn, AssessUnmutes, AssessCools


-----------------------------------------------------------------------------
LEMMA HoldsTyped ==
    ASSUME TypeOK, NEW x \in Battery
    PROVE  Holds(x) \in Nat /\ One(x, polled) \in 0..1
<1>1. /\ pulse_remaining[x] \in 0..PulseCount
      /\ last_pulse_completed_at[x] \in 0..Settle \cup {None}
  BY Values
<1>2. QED
  BY <1>1 DEF Holds, One

\* A battery that has not settled holds the gate for a cycle less each cycle.
LEMMA AssessClears ==
    ASSUME TypeOK, Tuned, Assess, NEW b \in Battery, \A x \in Battery : ClearedInTime(x)
    PROVE  ClearedInTime(b)'
<1> USE MoreConstants
<1>1. SUFFICES ASSUME SilenceLeft(b)' > 0, pulse_remaining[b] > 0, phase' = "wait"
               PROVE  /\ SilenceLeft(b)' >= 2
                      /\ \A x \in Battery :
                            /\ CircuitOf[x] # CircuitOf[b]
                            /\ SilenceLeft(x)' = 0 \/ pulse_remaining[x] = 0
                            => Holds(x)' < SilenceLeft(b)'
  <2>1. pulse_remaining' = pulse_remaining
    BY AssessAt
  <2>2. QED
    BY <2>1 DEF ClearedInTime
<1>2. Silence > Settle /\ Settle >= 2
  BY DEF Tuned
<1>3. ASSUME NEW x \in Battery
      PROVE  /\ pulse_remaining[x] \in 0..PulseCount
             /\ last_pulse_completed_at[x] \in 0..Settle \cup {None}
             /\ SilenceLeft(x) \in 0..Silence /\ SilenceLeft(x)' \in 0..Silence
             /\ last_pulse_completed_at[x] # None =>
                    /\ last_pulse_completed_at[x] \in 0..Settle
                    /\ last_pulse_completed_at'[x] = IF last_pulse_completed_at[x] < Settle
                                             THEN last_pulse_completed_at[x] + 1 ELSE Settle
             /\ Holds(x)' = IF pulse_remaining[x] > 0 THEN pulse_remaining[x] + Settle
                            ELSE IF last_pulse_completed_at[x] = None THEN 0
                            ELSE Settle - last_pulse_completed_at'[x]
             /\ Holds(x) = IF pulse_remaining[x] > 0 THEN pulse_remaining[x] + Settle + 1
                           ELSE IF last_pulse_completed_at[x] = None THEN 0
                           ELSE Settle - last_pulse_completed_at[x]
  <2>1. /\ pulse_remaining[x] \in 0..PulseCount
        /\ last_pulse_completed_at[x] \in 0..Settle \cup {None}
        /\ SilenceLeft(x) \in 0..Silence
    BY Values
  <2>2. /\ pulse_remaining' = pulse_remaining
        /\ last_pulse_completed_at'[x] = Older(last_pulse_completed_at[x], Settle)
        /\ x \in polled /\ polled' = {}
    BY AssessAt
  <2>3. /\ last_pulse_completed_at'[x] = None <=> last_pulse_completed_at[x] = None
        /\ last_pulse_completed_at[x] # None =>
              /\ last_pulse_completed_at[x] \in 0..Settle
              /\ last_pulse_completed_at'[x] = IF last_pulse_completed_at[x] < Settle
                                               THEN last_pulse_completed_at[x] + 1 ELSE Settle
    BY <2>1, <2>2, CompletedAges
  <2>4. One(x, polled) = 1 /\ One(x, polled)' = 0
    BY <2>2 DEF One
  <2>5. SilenceLeft(x)' \in 0..Silence
    <3>1. TypeOK'
      BY AssessTyped
    <3>2. QED
      BY <3>1, Constants DEF TypeOK, SilenceLeft
  <2>6. QED
    BY <2>1, <2>2, <2>3, <2>4, <2>5 DEF Holds
<1>4. CASE NeedsSilence(CircuitOf[b])
  <2>1. SilenceLeft(b)' = Silence
    BY <1>4, AssessAt
  <2>2. ASSUME NEW x \in Battery, CircuitOf[x] # CircuitOf[b]
        PROVE  Holds(x)' < Silence
    <3>1. Silence > PulseCount + Settle
      BY <2>2 DEF Tuned
    <3>2. QED
      BY <1>2, <1>3, <3>1
  <2>3. QED
    BY <1>2, <2>1, <2>2
<1>5. CASE ~NeedsSilence(CircuitOf[b])
  <2>1. grid = "fresh" /\ phase = "wait"
    BY <1>5, AssessAt
  <2>2. SilenceLeft(b)' = SilenceLeft(b) - 1 /\ SilenceLeft(b) >= 2
    <3>1. SilenceLeft(b)' = Left(SilenceLeft(b)) /\ SilenceLeft(b) \in 0..Silence
      BY <1>3, <1>5, AssessAt
    <3>2. QED
      BY <1>1, <3>1 DEF Left
  <2>3. ASSUME NEW x \in Battery, CircuitOf[x] # CircuitOf[b],
               SilenceLeft(x)' = 0 \/ pulse_remaining[x] = 0
        PROVE  Holds(x)' < SilenceLeft(b)'
    <3>1. SilenceLeft(x) = 0 \/ pulse_remaining[x] = 0
      <4>1. SUFFICES ASSUME pulse_remaining[x] # 0 PROVE SilenceLeft(x) = 0
        OBVIOUS
      <4>2. SilenceLeft(x)' = 0 /\ pulse_remaining[x] > 0
        BY <1>3, <2>3, <4>1
      <4>3. Left(SilenceLeft(x)) = 0
        <5>1. SilenceLeft(x)' = IF NeedsSilence(CircuitOf[x]) THEN Silence
                                ELSE Left(SilenceLeft(x))
          BY AssessAt
        <5>2. Silence # 0
          OBVIOUS
        <5>3. QED
          BY <4>2, <5>1, <5>2
      <4>4. ~(SilenceLeft(x) >= 2)
        BY <1>3, <4>3 DEF Left
      <4>5. ~(SilenceLeft(x) > 0)
        BY <2>1, <4>2, <4>4 DEF ClearedInTime
      <4>6. QED
        BY <1>3, <4>5
    <3>2. Holds(x) < SilenceLeft(b)
      <4>1. SilenceLeft(b) > 0
        BY <1>3, <2>2
      <4>2. QED
        BY <1>1, <2>1, <2>3, <3>1, <4>1 DEF ClearedInTime
    <3>3. Holds(x)' = 0 \/ Holds(x)' = Holds(x) - 1
      BY <1>3
    <3>4. Holds(x) \in Nat /\ SilenceLeft(b) \in 0..Silence
      BY <1>3, HoldsTyped
    <3>5. QED
      BY <2>2, <3>2, <3>3, <3>4
  <2>4. SilenceLeft(b)' >= 2
    <3>1. any_pulse_in_flight
      BY <1>1, <2>1 DEF Assess
    <3>2. PICK y \in Battery : Muted(CircuitOf[y]) = 0 /\ ~pulse_settled(y)
      BY <3>1 DEF any_pulse_in_flight
    <3>3. SilenceLeft(y)' = 0
      BY <3>2, AssessAt DEF Muted, SilenceLeft
    <3>4. CircuitOf[y] # CircuitOf[b]
      <4>1. CircuitOf[y] = CircuitOf[b] => SilenceLeft(b)' = SilenceLeft(y)'
        BY DEF SilenceLeft
      <4>2. QED
        BY <1>1, <3>3, <4>1
    <3>5. Holds(y)' < SilenceLeft(b)'
      BY <2>3, <3>3, <3>4
    <3>6. Holds(y)' >= 1
      <4>1. CASE pulse_remaining[y] > 0
        BY <1>2, <1>3, <4>1
      <4>2. CASE pulse_remaining[y] = 0
        <5>1. last_pulse_completed_at[y] # None /\ ~(last_pulse_completed_at[y] + 1 >= Settle)
          BY <3>2, <4>2 DEF pulse_settled
        <5>2. QED
          BY <1>3, <4>2, <5>1
      <4>3. QED
        BY <1>3, <4>1, <4>2
    <3>7. QED
      BY <1>3, <2>2, <3>5, <3>6
  <2>5. QED
    BY <2>3, <2>4
<1>6. QED
  BY <1>4, <1>5

\* A poll never makes a battery hold the gate for longer.
LEMMA PollClears ==
    ASSUME TypeOK, NEW a \in Battery, NEW lost \in BOOLEAN, MarstekPolls(a, lost),
           NEW b \in Battery, ClearedInTime(b)
    PROVE  ClearedInTime(b)'
<1> USE MoreConstants
<1>1. /\ UNCHANGED <<silent_until, phase>>
      /\ polled' = polled \cup {a}
      /\ SilenceLeft(a) > 0 => UNCHANGED pulseVars
  BY DEF MarstekPolls, muteVars, SilenceLeft
<1>2. ASSUME NEW x \in Battery
      PROVE  SilenceLeft(x)' = SilenceLeft(x) /\ SilenceLeft(x) \in 0..Silence
  BY <1>1, Values DEF SilenceLeft
<1>3. ASSUME NEW x \in Battery, x # a
      PROVE  /\ pulse_remaining'[x] = pulse_remaining[x] /\ Holds(x)' = Holds(x)
  <2>1. LeftAlone(x)
    BY <1>3, OthersAlone
  <2>2. QED
    BY <1>1, <1>3, <2>1 DEF LeftAlone, Holds, One
<1>4. /\ pulse_remaining'[a] \in 0..pulse_remaining[a]
      /\ SilenceLeft(a) > 0 => pulse_remaining'[a] = pulse_remaining[a]
      /\ SilenceLeft(a) = 0 \/ pulse_remaining[a] = 0 =>
            Holds(a)' \in Nat /\ Holds(a)' <= Holds(a)
  <2>1. /\ pulse_remaining[a] \in 0..PulseCount
        /\ last_pulse_completed_at[a] \in 0..Settle \cup {None}
    BY Values
  <2>2. One(a, polled)' = 1 /\ One(a, polled) \in 0..1
    BY <1>1 DEF One
  <2>3. CASE SilenceLeft(a) > 0
    <3>1. pulse_remaining' = pulse_remaining
          /\ last_pulse_completed_at' = last_pulse_completed_at
      BY <1>1, <2>3 DEF pulseVars
    <3>2. pulse_remaining[a] = 0 => Holds(a)' = Holds(a)
      BY <3>1 DEF Holds
    <3>3. Holds(a) \in Nat
      BY HoldsTyped
    <3>4. QED
      BY <1>2, <2>1, <2>3, <3>1, <3>2, <3>3
  <2>4. CASE SilenceLeft(a) = 0
    <3>1. /\ pulse_remaining' = [pulse_remaining EXCEPT ![a] = Left(@)]
          /\ last_pulse_completed_at' =
               [last_pulse_completed_at EXCEPT ![a] = IF pulse_remaining[a] = 1 THEN 0 ELSE @]
      BY <2>4 DEF MarstekPolls, SilenceLeft
    <3>2. /\ pulse_remaining'[a] = Left(pulse_remaining[a])
          /\ last_pulse_completed_at'[a] =
                 IF pulse_remaining[a] = 1 THEN 0 ELSE last_pulse_completed_at[a]
      <4>1. /\ pulse_remaining \in [Battery -> 0..PulseCount]
            /\ last_pulse_completed_at \in [Battery -> 0..Settle \cup {None}]
        BY DEF TypeOK
      <4>2. QED
        BY <3>1, <4>1
    <3>3. CASE pulse_remaining[a] = 0
      <4>1. pulse_remaining'[a] = 0
            /\ last_pulse_completed_at'[a] = last_pulse_completed_at[a]
        BY <3>2, <3>3 DEF Left
      <4>2. Holds(a)' = Holds(a)
        BY <3>3, <4>1 DEF Holds
      <4>3. Holds(a) \in Nat
        BY HoldsTyped
      <4>4. QED
        BY <2>4, <3>3, <4>1, <4>2, <4>3
    <3>4. CASE pulse_remaining[a] = 1
      <4>1. pulse_remaining'[a] = 0 /\ last_pulse_completed_at'[a] = 0
        BY <3>2, <3>4 DEF Left
      <4>2. Holds(a)' = Settle
        BY <4>1 DEF Holds
      <4>3. Holds(a) >= Settle
        BY <2>2, <3>4 DEF Holds
      <4>4. QED
        BY <2>4, <3>4, <4>1, <4>2, <4>3
    <3>5. CASE pulse_remaining[a] > 1
      <4>1. pulse_remaining'[a] = pulse_remaining[a] - 1
        BY <2>1, <3>2, <3>5 DEF Left
      <4>2. Holds(a)' = pulse_remaining[a] - 1 + Settle + 1
        BY <2>1, <2>2, <3>5, <4>1 DEF Holds
      <4>3. Holds(a) >= pulse_remaining[a] + Settle
        BY <2>1, <2>2, <3>5 DEF Holds
      <4>4. QED
        BY <2>1, <2>4, <3>5, <4>1, <4>2, <4>3
    <3>6. QED
      BY <2>1, <3>3, <3>4, <3>5
  <2>5. QED
    BY <1>2, <2>3, <2>4
<1>5. SUFFICES ASSUME SilenceLeft(b) > 0, pulse_remaining'[b] > 0, phase = "wait"
               PROVE  /\ SilenceLeft(b) >= 2
                      /\ \A x \in Battery :
                            /\ CircuitOf[x] # CircuitOf[b]
                            /\ SilenceLeft(x) = 0 \/ pulse_remaining'[x] = 0
                            => Holds(x)' < SilenceLeft(b)
  BY <1>1, <1>2 DEF ClearedInTime
<1>6. pulse_remaining[b] > 0
  BY <1>3, <1>4, <1>5
<1>7. ASSUME NEW x \in Battery, CircuitOf[x] # CircuitOf[b],
             SilenceLeft(x) = 0 \/ pulse_remaining'[x] = 0
      PROVE  Holds(x)' < SilenceLeft(b)
  <2>1. SilenceLeft(x) = 0 \/ pulse_remaining[x] = 0
    BY <1>2, <1>3, <1>4, <1>7
  <2>2. Holds(x) < SilenceLeft(b)
    BY <1>5, <1>6, <1>7, <2>1 DEF ClearedInTime
  <2>3. Holds(x)' <= Holds(x) /\ Holds(x) \in Nat /\ Holds(x)' \in Nat
    <3>1. Holds(x) \in Nat
      BY HoldsTyped
    <3>2. QED
      BY <1>3, <1>4, <2>1, <3>1
  <2>4. QED
    BY <1>2, <2>2, <2>3
<1>8. SilenceLeft(b) >= 2
  BY <1>5, <1>6 DEF ClearedInTime
<1>9. QED
  BY <1>7, <1>8

LEMMA InitKeeps ==
    ASSUME Init
    PROVE  WholeSilence /\ \A b \in Battery : ClearedInTime(b) /\ BatteryInv(b)
<1> USE MoreConstants
<1>1. WholeSilence
  BY DEF Init, WholeSilence
<1>2. SUFFICES ASSUME NEW b \in Battery PROVE ClearedInTime(b) /\ BatteryInv(b)
  BY <1>1
<1>3. /\ SilenceLeft(b) = 0 /\ pulse_remaining[b] = 0 /\ last_pulse_completed_at[b] = None
      /\ last_plug_w[b] = None /\ goal[b] = 0 /\ heard[b] = 0 /\ last_pulse_delta_w[b] = None
      /\ phase = "wait" /\ sampled = {}
      /\ charge_locked_until[b] = 0 /\ discharge_locked_until[b] = 0
  BY DEF Init, SilenceLeft
<1>4. moved_since[b] = FALSE
  BY DEF Init
<1>5. ClearedInTime(b) /\ NotYetSeen(b) /\ PulseFits(b) /\ AtRest(b) /\ Ramps(b)
  BY <1>3 DEF ClearedInTime, NotYetSeen, PulseFits, AtRest, Ramps, Away
<1>6. SeenMoving(b)
  BY <1>4 DEF SeenMoving
<1>7. ComesToRest(b) /\ Forgotten(b) /\ Followed(b) /\ JudgedInTime(b) /\ LocksEarned(b)
  BY <1>3 DEF ComesToRest, Forgotten, Followed, JudgedInTime, LocksEarned
<1>8. goal[b] \in Power
  BY <1>3 DEF Power
<1>9. QED
  BY <1>5, <1>6, <1>7, <1>8 DEF BatteryInv

\* A step that neither hands out nor clears pulses.
LEMMA OtherClears ==
    ASSUME NEW b \in Battery, ClearedInTime(b),
           UNCHANGED <<pulse_remaining, last_pulse_completed_at, silent_until, polled, phase>>
    PROVE  ClearedInTime(b)'
<1>1. SilenceLeft(b)' = SilenceLeft(b)
  BY DEF SilenceLeft
<1>2. \A x \in Battery : SilenceLeft(x)' = SilenceLeft(x) /\ Holds(x)' = Holds(x)
  BY DEF SilenceLeft, Holds, One
<1>3. QED
  BY <1>1, <1>2 DEF ClearedInTime

LEMMA PulseInvStep ==
    ASSUME Tuned, PulseInv, [Next]_vars
    PROVE  PulseInv'
<1>1. TypeOK' /\ WholeSilence'
  BY StepTyped, WholeSilenceStep DEF PulseInv
<1>2. SUFFICES ASSUME NEW b \in Battery PROVE ClearedInTime(b)' /\ BatteryInv(b)'
  BY <1>1 DEF PulseInv
<1>3. TypeOK /\ WholeSilence /\ ClearedInTime(b) /\ BatteryInv(b)
      /\ \A x \in Battery : ClearedInTime(x)
  BY DEF PulseInv
<1>4. CASE Assess
  BY <1>3, <1>4, AssessClears, AssessKeeps
<1>5. CASE Queue
  <2>1. BatteryInv(b)'
    BY <1>3, <1>5, QueueKeeps
  <2>2. SilenceLeft(b)' > 0 => pulse_remaining'[b] = 0
    BY <1>5 DEF Queue, SilenceLeft, muteVars
  <2>3. ClearedInTime(b)'
    BY <2>2 DEF ClearedInTime
  <2>4. QED
    BY <2>1, <2>3
<1>6. ASSUME NEW a \in Battery, NEW lost \in BOOLEAN, MarstekPolls(a, lost)
      PROVE  ClearedInTime(b)' /\ BatteryInv(b)'
  <2>1. ClearedInTime(b)'
    BY <1>3, <1>6, PollClears
  <2>2. CASE a # b
    BY <1>3, <1>6, <2>1, <2>2, OthersAlone, LeftAloneKeeps
  <2>3. CASE a = b
    <3>1. SilenceLeft(b) \in 0..Silence /\ pulse_remaining[b] \in 0..PulseCount
      BY <1>3, Values
    <3>2. \/ SilenceLeft(b) = 0 /\ pulse_remaining[b] > 0
          \/ SilenceLeft(b) > 0 \/ pulse_remaining[b] = 0
      BY <3>1
    <3>3. QED
      BY <1>3, <1>6, <2>1, <2>3, <3>2, PulseHandedOut, NothingHandedOut
  <2>4. QED
    BY <2>2, <2>3
<1>7. ASSUME NEW a \in Battery, PlugPolled(a) \/ PlugSilent(a) \/ Watchdog(a)
      PROVE  ClearedInTime(b)' /\ BatteryInv(b)'
  <2>1. UNCHANGED <<pulse_remaining, last_pulse_completed_at, silent_until, polled, phase>>
    BY <1>7 DEF PlugPolled, PlugSilent, Watchdog, pulseVars, muteVars
  <2>2. ClearedInTime(b)'
    BY <1>3, <2>1, OtherClears
  <2>3. BatteryInv(b)'
    <3>1. CASE a # b
      BY <1>3, <1>7, <3>1, OthersAlone, LeftAloneKeeps
    <3>2. CASE a = b
      BY <1>3, <1>7, <3>2, PlugPolledKeeps, PlugSilentKeeps, WatchdogKeeps
    <3>3. QED
      BY <3>1, <3>2
  <2>4. QED
    BY <2>2, <2>3
<1>8. CASE GridChanges
  <2>1. UNCHANGED <<pulse_remaining, last_pulse_completed_at, silent_until, polled, phase>>
    BY <1>8 DEF GridChanges, pulseVars, muteVars
  <2>2. QED
    BY <1>3, <1>8, <2>1, OtherClears, GridChangesKeeps
<1>9. CASE UNCHANGED vars
  <2>1. LeftAlone(b)
    BY <1>9 DEF LeftAlone, vars, pulseVars, lockVars, plugVars, muteVars
  <2>2. UNCHANGED <<pulse_remaining, last_pulse_completed_at, silent_until, polled, phase>>
    BY <1>9 DEF vars, pulseVars, muteVars
  <2>3. QED
    BY <1>3, <2>1, <2>2, OtherClears, LeftAloneKeeps
<1>10. QED
  BY <1>4, <1>5, <1>6, <1>7, <1>8, <1>9 DEF Next

\* Where the times fit together, everything a cycle decides from timers and
\* counters alone is what the batteries really do, for any number of batteries on
\* any number of circuits behind the one gate.
THEOREM PulseInvariant == ASSUME Tuned PROVE Spec => []PulseInv
<1>1. Init => PulseInv
  BY InitTyped, InitKeeps DEF PulseInv
<1>2. PulseInv /\ [Next]_vars => PulseInv'
  BY PulseInvStep
<1>3. QED
  BY <1>1, <1>2, PTL DEF Spec

\* No pulse is stacked on one whose reaction is still under way: no battery is
\* ever driven beyond the bounds its pulses were computed for, whatever pulses
\* are lost, refused, cleared, or dropped by a silence.
THEOREM PulsesNotStacked == ASSUME Tuned PROVE Spec => []NothingStacked
<1>1. PulseInv => NothingStacked
  BY DEF PulseInv, BatteryInv, NothingStacked
<1>2. QED
  BY <1>1, PulseInvariant, PTL

\* A battery comes out of a silence with nothing to be handed out.
LEMMA ClearedOnUnmute ==
    ASSUME PulseInv, Assess, NEW b \in Battery, SilenceLeft(b) > 0, SilenceLeft(b)' = 0
    PROVE  pulse_remaining[b] = 0
<1>1. TypeOK /\ ClearedInTime(b)
  BY DEF PulseInv
<1>2. SilenceLeft(b) \in 0..Silence /\ pulse_remaining[b] \in 0..PulseCount
  BY <1>1, Values
<1>3. ~(SilenceLeft(b) >= 2)
  <2>1. SilenceLeft(b)' = Muted(CircuitOf[b])
    BY DEF Assess, SilenceLeft
  <2>2. QED
    BY <1>2, <2>1, MoreConstants DEF Muted, Left, SilenceLeft
<1>4. phase = "wait"
  BY DEF Assess
<1>5. QED
  BY <1>1, <1>2, <1>3, <1>4 DEF ClearedInTime

\* No pulse of before a silence is left to hand out when it ends, however long
\* the batteries of other circuits hold the gate meanwhile.
THEOREM SilenceClears == ASSUME Tuned PROVE Spec => MutedIsCleared
<1>1. PulseInv /\ [Next]_vars =>
          [\A b \in Battery :
             silent_until[CircuitOf[b]] > 0 /\ silent_until'[CircuitOf[b]] = 0 =>
                 pulse_remaining'[b] = 0]_vars
  <2> SUFFICES ASSUME PulseInv, Next, NEW b \in Battery,
                      silent_until[CircuitOf[b]] > 0, silent_until'[CircuitOf[b]] = 0
               PROVE  pulse_remaining'[b] = 0
    OBVIOUS
  <2>1. TypeOK /\ ClearedInTime(b) /\ SilenceLeft(b) > 0 /\ SilenceLeft(b)' = 0
    BY DEF PulseInv, SilenceLeft
  <2>2. SilenceLeft(b) \in 0..Silence /\ pulse_remaining[b] \in 0..PulseCount
    BY <2>1, Values
  <2>3. Assess
    <3>1. silent_until' # silent_until
      BY <2>1, <2>2 DEF SilenceLeft
    <3>2. QED
      BY <3>1 DEF Next, Queue, MarstekPolls, Watchdog, PlugPolled, PlugSilent, GridChanges,
                  muteVars
  <2>4. pulse_remaining[b] = 0
    BY <2>1, <2>3, ClearedOnUnmute
  <2>5. QED
    BY <2>3, <2>4 DEF Assess
<1>2. QED
  BY <1>1, PulseInvariant, PTL DEF Spec, MutedIsCleared

\* A direction of a battery is locked only where the battery refused: an answer
\* that is lost within the margin of PULSE_COUNT, a slow ramp or a stale circuit
\* never looks like a refusal.
THEOREM LocksMeanRefusal == ASSUME Tuned PROVE Spec => LockMeansRefusal
<1>1. PulseInv' =>
          [\A b \in Battery : calm'[CircuitOf[b]] >= Silence =>
             /\ charge_locked_until'[b] = Lockout => b \in Full
             /\ discharge_locked_until'[b] = Lockout => b \in Empty]_vars
  <2> SUFFICES ASSUME PulseInv', NEW b \in Battery, calm'[CircuitOf[b]] >= Silence
               PROVE  /\ charge_locked_until'[b] = Lockout => b \in Full
                      /\ discharge_locked_until'[b] = Lockout => b \in Empty
    OBVIOUS
  <2>1. silent_until' \in [Circuit -> 0..Silence] /\ calm' \in [Circuit -> 0..Silence]
    BY DEF PulseInv, TypeOK
  <2>2. silent_until'[CircuitOf[b]] + calm'[CircuitOf[b]] = Silence
    BY DEF PulseInv, WholeSilence
  <2>3. silent_until'[CircuitOf[b]] = 0
    <3>1. /\ silent_until'[CircuitOf[b]] \in 0..Silence
          /\ calm'[CircuitOf[b]] \in 0..Silence
      BY <2>1
    <3>2. QED
      BY <2>2, <3>1
  <2>4. LocksEarned(b)'
    BY DEF PulseInv, BatteryInv
  <2>5. QED
    BY <2>3, <2>4 DEF LocksEarned, SilenceLeft
<1>2. QED
  BY <1>1, PulseInvariant, PTL DEF LockMeansRefusal

-----------------------------------------------------------------------------
(***************************************************************************)
(* The refinement of SettledPulses.                                        *)
(***************************************************************************)
LEMMA Started == Init => Promise!Init
<1> SUFFICES ASSUME Init PROVE Promise!Init
  OBVIOUS
<1>1. goal = [b \in Battery |-> 0]
  BY DEF Init
<1>2. Shown = [b \in Battery |-> 0]
  BY DEF Init, Shown
<1>3. ASSUME NEW b \in Battery PROVE SilenceLeft(b) = 0 /\ Offered(b) = 0
  <2>1. SilenceLeft(b) = 0
    BY DEF Init, SilenceLeft
  <2>2. pulse_remaining[b] = 0
    BY DEF Init
  <2>3. QED
    BY <2>1, <2>2 DEF Offered
<1>4. Offers = [b \in Battery |-> 0] /\ Mute = {}
  BY <1>3 DEF Offers, Mute
<1>5. QED
  BY <1>1, <1>2, <1>4 DEF Promise!Init

LEMMA AssessMutesOffers == ASSUME PulseInv, PulseInv', Assess PROVE Promise!Mute
<1>1. UNCHANGED <<pending_pulse_w, pulse_remaining, last_plug_w, heard, goal>>
  BY DEF Assess
<1>2. Shown' = Shown
  BY <1>1 DEF Shown
<1>3. ASSUME NEW b \in Battery
      PROVE  Offered(b)' = IF b \in Mute' THEN 0 ELSE Offered(b)
  <2>1. SilenceLeft(b) \in 0..Silence /\ SilenceLeft(b)' \in 0..Silence
    <3>1. silent_until \in [Circuit -> 0..Silence] /\ silent_until' \in [Circuit -> 0..Silence]
      BY DEF PulseInv, TypeOK
    <3>2. QED
      BY <3>1 DEF SilenceLeft
  <2>2. CASE SilenceLeft(b)' > 0
    BY <2>1, <2>2 DEF Mute, Offered
  <2>3. CASE SilenceLeft(b)' = 0 /\ SilenceLeft(b) = 0
    <3>1. b \notin Mute'
      BY <2>3 DEF Mute
    <3>2. QED
      BY <1>1, <2>3, <3>1 DEF Offered
  <2>4. CASE SilenceLeft(b)' = 0 /\ SilenceLeft(b) > 0
    <3>1. b \notin Mute'
      BY <2>4 DEF Mute
    <3>2. pulse_remaining[b] = 0
      BY <2>4, ClearedOnUnmute
    <3>3. QED
      BY <1>1, <2>4, <3>1, <3>2 DEF Offered
  <2>5. QED
    BY <2>1, <2>2, <2>3, <2>4
<1>4. Offers' = [b \in Battery |-> IF b \in Mute' THEN 0 ELSE Offers[b]]
  <2>1. \A b \in Battery : Offers[b] = Offered(b)
    BY DEF Offers
  <2>2. QED
    BY <1>3, <2>1 DEF Offers
<1>5. Mute' \subseteq Battery
  BY DEF Mute
<1>6. QED
  BY <1>1, <1>2, <1>4, <1>5 DEF Promise!Mute

\* Pulses are queued only where all are at rest, and keep the bounds.
LEMMA QueueOffers == ASSUME PulseInv, PulseInv', Queue PROVE Promise!Offer
<1>1. UNCHANGED <<last_plug_w, silent_until, heard, goal>> /\ phase = "queue"
  BY DEF Queue, plugVars, muteVars
<1>2. Shown' = Shown
  BY <1>1 DEF Shown
<1>3. \A b \in Battery : SilenceLeft(b)' = SilenceLeft(b)
  BY <1>1 DEF SilenceLeft
<1>4. Mute' = Mute
  BY <1>3 DEF Mute
<1>5. ASSUME NEW b \in Battery \ Mute
      PROVE  Offers[b] = 0 /\ Shown[b] = goal[b]
  <2>1. TypeOK /\ BatteryInv(b)
    BY DEF PulseInv
  <2>2. SilenceLeft(b) = 0
    <3>1. SilenceLeft(b) \in 0..Silence /\ ~(SilenceLeft(b) > 0)
      BY <2>1, Values DEF Mute
    <3>2. QED
      BY <3>1
  <2>3. pulse_remaining[b] = 0 /\ last_plug_w[b] = goal[b]
    BY <1>1, <2>1, <2>2 DEF BatteryInv, AtRest
  <2>4. Offered(b) = 0
    BY <2>3 DEF Offered
  <2>5. last_plug_w[b] # None
    BY <2>1, <2>3, Values
  <2>6. QED
    BY <2>3, <2>4, <2>5 DEF Offers, Shown
<1>6. ASSUME NEW b \in Battery
      PROVE  Offers'[b] = 0 \/ (b \notin Mute /\ goal[b] + Offers'[b] \in Promise!Power)
  <2>1. Offers'[b] = Offered(b)'
    BY DEF Offers
  <2>2. PulseFits(b)'
    BY DEF PulseInv, BatteryInv
  <2>3. SilenceLeft(b)' > 0 \/ b \notin Mute
    BY <1>3 DEF Mute
  <2>4. CASE SilenceLeft(b)' = 0 /\ pulse_remaining'[b] > 0 /\ heard'[b] < Commit
    <3>1. Offered(b)' = pending_pulse_w'[b]
      BY <2>4 DEF Offered
    <3>2. goal'[b] + pending_pulse_w'[b] \in Power
      BY <2>2, <2>4 DEF PulseFits
    <3>3. b \notin Mute
      BY <2>3, <2>4
    <3>4. QED
      BY <1>1, <2>1, <3>1, <3>2, <3>3 DEF Power, Promise!Power
  <2>5. CASE ~(SilenceLeft(b)' = 0 /\ pulse_remaining'[b] > 0 /\ heard'[b] < Commit)
    BY <2>1, <2>5 DEF Offered
  <2>6. QED
    BY <2>4, <2>5
<1>7. DOMAIN Offers' = Battery
  BY DEF Offers
<1>8. QED
  BY <1>1, <1>2, <1>4, <1>5, <1>6, <1>7 DEF Promise!Offer

\* What an answer makes of an offer.
LEMMA AnswerTaken ==
    ASSUME TypeOK, NEW b \in Battery, NEW lost \in BOOLEAN, MarstekPolls(b, lost)
    PROVE  \/ Offered(b)' = Offered(b) /\ goal' = goal
           \/ /\ Offered(b)' = 0 /\ Offered(b) # 0
              /\ goal' = goal \/ goal' = [goal EXCEPT ![b] = @ + Offered(b)]
<1> USE MoreConstants
<1>1. silent_until' = silent_until /\ SilenceLeft(b)' = SilenceLeft(b)
  BY DEF MarstekPolls, muteVars, SilenceLeft
<1>2. /\ SilenceLeft(b) \in 0..Silence /\ pulse_remaining[b] \in 0..PulseCount
      /\ heard[b] \in 0..Commit /\ pending_pulse_w[b] \in Int /\ goal[b] \in Int
  BY Values DEF Delta
<1>3. /\ pulse_remaining \in [Battery -> 0..PulseCount] /\ pending_pulse_w \in [Battery -> Delta]
      /\ heard \in [Battery -> 0..Commit] /\ goal \in [Battery -> Int]
  BY DEF TypeOK
<1>4. CASE SilenceLeft(b) > 0
  <2>1. goal' = goal
    BY <1>4 DEF MarstekPolls, SilenceLeft
  <2>2. Offered(b)' = 0 /\ Offered(b) = 0
    BY <1>1, <1>2, <1>4 DEF Offered
  <2>3. QED
    BY <2>1, <2>2
<1>5. CASE SilenceLeft(b) = 0
  <2> DEFINE told  == ~lost /\ grid = "fresh"
             r     == pulse_remaining[b]
             pulse == IF r > 0 THEN pending_pulse_w[b] ELSE 0
             acts  == told /\ pulse # 0 /\ heard[b] = Commit - 1
  <2>1. /\ pulse_remaining' = [pulse_remaining EXCEPT ![b] = Left(@)]
        /\ pending_pulse_w' = [pending_pulse_w EXCEPT ![b] = IF r = 1 THEN 0 ELSE @]
        /\ heard' = [heard EXCEPT ![b] =
               IF ~told THEN @ ELSE IF pulse = 0 THEN 0 ELSE Older(@, Commit)]
        /\ goal' = [goal EXCEPT ![b] = IF acts /\ Accepts(b, pulse) THEN @ + pulse ELSE @]
    BY <1>5 DEF MarstekPolls, SilenceLeft
  <2>2. pulse_remaining'[b] = IF r = 0 THEN 0 ELSE r - 1
    BY <1>3, <2>1 DEF Left
  <2>3. pending_pulse_w'[b] = IF r = 1 THEN 0 ELSE pending_pulse_w[b]
    BY <1>3, <2>1
  <2>4. heard'[b] = IF ~told THEN heard[b] ELSE IF pulse = 0 THEN 0
                    ELSE IF heard[b] < Commit THEN heard[b] + 1 ELSE Commit
    <3>1. heard'[b] = IF ~told THEN heard[b] ELSE IF pulse = 0 THEN 0 ELSE Older(heard[b], Commit)
      BY <1>3, <2>1, Zenon
    <3>2. Older(heard[b], Commit) = IF heard[b] < Commit THEN heard[b] + 1 ELSE Commit
      BY <1>2 DEF Older
    <3>3. QED
      BY <3>1, <3>2
  <2>5. goal' = goal \/ (acts /\ goal' = [goal EXCEPT ![b] = @ + pulse])
    <3>1. CASE acts /\ Accepts(b, pulse)
      BY <2>1, <3>1
    <3>2. CASE ~(acts /\ Accepts(b, pulse))
      BY <1>3, <2>1, <3>2
    <3>3. QED
      BY <3>1, <3>2
  <2>6. Offered(b) = IF heard[b] < Commit THEN pulse ELSE 0
    BY <1>2, <1>5 DEF Offered
  <2>7. Offered(b)' = IF pulse_remaining'[b] > 0 /\ heard'[b] < Commit
                      THEN pending_pulse_w'[b] ELSE 0
    BY <1>1, <1>5 DEF Offered
  <2>8. CASE acts
    <3>1. Offered(b) = pulse /\ pulse # 0
      BY <1>2, <2>6, <2>8
    <3>2. heard'[b] = Commit
      BY <1>2, <2>4, <2>8
    <3>3. Offered(b)' = 0
      BY <2>7, <3>2
    <3>4. QED
      BY <2>5, <3>1, <3>3
  <2>9. CASE ~acts
    <3>1. goal' = goal
      BY <2>5, <2>9
    <3>2. pulse = 0 => Offered(b)' = 0
      BY <1>2, <2>2, <2>3, <2>7
    <3>3. pulse # 0 /\ heard[b] = Commit => heard'[b] = Commit
      BY <1>2, <2>4
    <3>4. pulse # 0 /\ heard[b] < Commit => heard'[b] < Commit
      <4>1. ~told \/ pulse = 0 \/ heard[b] # Commit - 1
        BY <2>9
      <4>2. QED
        BY <1>2, <2>4, <4>1
    <3>5. Offered(b)' = 0 \/ Offered(b)' = Offered(b)
      BY <1>2, <2>2, <2>3, <2>6, <2>7, <3>2, <3>3, <3>4
    <3>6. QED
      BY <3>1, <3>5
  <2>10. QED
    BY <2>8, <2>9
<1>6. QED
  BY <1>2, <1>4, <1>5

LEMMA PollAnswers ==
    ASSUME TypeOK, NEW b \in Battery, NEW lost \in BOOLEAN, MarstekPolls(b, lost)
    PROVE  Promise!Answered(b) \/ UNCHANGED <<goal, Shown, Offers, Mute>>
<1>1. UNCHANGED <<last_plug_w, silent_until>>
  BY DEF MarstekPolls, muteVars
<1>2. Shown' = Shown /\ Mute' = Mute
  BY <1>1 DEF Shown, Mute, SilenceLeft
<1>3. ASSUME NEW x \in Battery, x # b PROVE Offered(x)' = Offered(x)
  <2>1. /\ pulse_remaining'[x] = pulse_remaining[x] /\ heard'[x] = heard[x]
        /\ pending_pulse_w'[x] = pending_pulse_w[x]
    BY <1>3, OthersAlone DEF LeftAlone
  <2>2. QED
    BY <1>1, <2>1 DEF Offered, SilenceLeft
<1>4. Offers' = [Offers EXCEPT ![b] = Offered(b)']
  BY <1>3 DEF Offers
<1>5. Offers[b] = Offered(b) /\ Offers \in [Battery -> {Offered(x) : x \in Battery}]
  BY DEF Offers
<1>6. CASE Offered(b)' = Offered(b) /\ goal' = goal
  <2>1. Offers' = Offers
    BY <1>4, <1>5, <1>6
  <2>2. QED
    BY <1>2, <1>6, <2>1
<1>7. CASE /\ Offered(b)' = 0 /\ Offered(b) # 0
           /\ goal' = goal \/ goal' = [goal EXCEPT ![b] = @ + Offered(b)]
  BY <1>2, <1>4, <1>5, <1>7 DEF Promise!Answered
<1>8. QED
  BY <1>6, <1>7, AnswerTaken

\* In a silence nothing is on offer that a target could be dropped with.
LEMMA WatchdogDrops ==
    ASSUME TypeOK, NEW b \in Battery, Watchdog(b) PROVE Promise!Drop(b)
<1>1. /\ UNCHANGED <<pulse_remaining, pending_pulse_w, heard, last_plug_w, silent_until>>
      /\ SilenceLeft(b) > WatchdogBy /\ goal' = [goal EXCEPT ![b] = 0]
  BY DEF Watchdog, pulseVars, plugVars, muteVars, SilenceLeft
<1>2. b \in Mute
  <2>1. SilenceLeft(b) \in 0..Silence
    BY Values
  <2>2. QED
    BY <1>1, <2>1, MoreConstants DEF Mute
<1>3. Shown' = Shown /\ Mute' = Mute /\ Offers' = Offers
  BY <1>1 DEF Shown, Mute, Offers, Offered, SilenceLeft
<1>4. QED
  BY <1>1, <1>2, <1>3 DEF Promise!Drop

LEMMA PlugRamps ==
    ASSUME PulseInv, NEW b \in Battery, PlugPolled(b)
    PROVE  Promise!Ramp(b) \/ UNCHANGED <<goal, Shown, Offers, Mute>>
<1>1. UNCHANGED <<pulse_remaining, pending_pulse_w, heard, silent_until, goal>>
  BY DEF PlugPolled, pulseVars, muteVars
<1>2. Mute' = Mute /\ Offers' = Offers
  BY <1>1 DEF Mute, Offers, Offered, SilenceLeft
<1>3. PICK w \in Power :
         /\ \/ w = goal[b]
            \/ /\ last_plug_w[b] # None /\ w # last_plug_w[b]
               /\ Between(last_plug_w[b], w, goal[b])
         /\ last_plug_w' = [last_plug_w EXCEPT ![b] = w]
  BY DEF PlugPolled
<1>4. TypeOK /\ NotYetSeen(b) /\ w \in Int /\ w # None
  BY DEF PulseInv, BatteryInv, Power
<1>5. Shown' = [Shown EXCEPT ![b] = w]
  <2>1. last_plug_w \in [Battery -> Power \cup {None}]
    BY <1>4 DEF TypeOK
  <2>2. QED
    BY <1>3, <1>4, <2>1 DEF Shown
<1>6. /\ Shown[b] = IF last_plug_w[b] = None THEN 0 ELSE last_plug_w[b]
      /\ Shown = [x \in Battery |-> Shown[x]]
  BY DEF Shown
<1>7. CASE w = Shown[b]
  <2>1. Shown' = Shown
    BY <1>5, <1>6, <1>7
  <2>2. QED
    BY <1>1, <1>2, <2>1
<1>8. CASE w # Shown[b]
  <2>1. goal[b] \in Int /\ last_plug_w[b] \in Power \cup {None}
    BY <1>4, Values
  <2>2. last_plug_w[b] # None
    <3>1. last_plug_w[b] = None => goal[b] = 0
      BY <1>4 DEF NotYetSeen
    <3>2. QED
      BY <1>3, <1>6, <1>8, <3>1
  <2>3. Shown[b] = last_plug_w[b] /\ Shown[b] \in Int
    BY <1>6, <2>1, <2>2 DEF Power
  <2>4. (Shown[b] < w /\ w <= goal[b]) \/ (goal[b] <= w /\ w < Shown[b])
    BY <1>3, <1>4, <1>8, <2>1, <2>3 DEF Between
  <2>5. w \in Promise!Power
    BY DEF Power, Promise!Power
  <2>6. QED
    BY <1>1, <1>2, <1>5, <2>4, <2>5 DEF Promise!Ramp
<1>9. QED
  BY <1>7, <1>8

LEMMA StepRefines ==
    ASSUME PulseInv, PulseInv', [Next]_vars
    PROVE  [Promise!Next]_<<goal, Shown, Offers, Mute>>
<1>1. CASE Assess
  BY <1>1, AssessMutesOffers DEF Promise!Next
<1>2. CASE Queue
  BY <1>2, QueueOffers DEF Promise!Next
<1>3. ASSUME NEW b \in Battery, NEW lost \in BOOLEAN, MarstekPolls(b, lost)
      PROVE  [Promise!Next]_<<goal, Shown, Offers, Mute>>
  BY <1>3, PollAnswers DEF Promise!Next, PulseInv
<1>4. ASSUME NEW b \in Battery, Watchdog(b) PROVE Promise!Next
  BY <1>4, WatchdogDrops DEF Promise!Next, PulseInv
<1>5. ASSUME NEW b \in Battery, PlugPolled(b)
      PROVE  [Promise!Next]_<<goal, Shown, Offers, Mute>>
  BY <1>5, PlugRamps DEF Promise!Next
<1>6. ASSUME \/ \E b \in Battery : PlugSilent(b)
             \/ GridChanges
             \/ UNCHANGED vars
      PROVE  UNCHANGED <<goal, Shown, Offers, Mute>>
  <2>1. UNCHANGED <<pulse_remaining, pending_pulse_w, heard, last_plug_w, silent_until, goal>>
    BY <1>6 DEF PlugSilent, GridChanges, vars, pulseVars, plugVars, muteVars
  <2>2. QED
    BY <2>1 DEF Shown, Mute, Offers, Offered, SilenceLeft
<1>7. QED
  BY <1>1, <1>2, <1>3, <1>4, <1>5, <1>6 DEF Next

\* Pulses are queued only where every battery that may be reached is at rest on
\* its target with nothing on offer, and a pulse that is told several times, lost
\* in part or refused is taken once at most: step_pulse, queue_pulses and the UDP
\* handler implement SettledPulses.
THEOREM PulsesImplement == ASSUME Tuned PROVE Spec => ImplementsPulses
<1>1. PulseInv /\ PulseInv' /\ [Next]_vars => [Promise!Next]_<<goal, Shown, Offers, Mute>>
  BY StepRefines
<1>2. QED
  BY <1>1, Started, PulseInvariant, PTL DEF Spec, ImplementsPulses, Promise!Spec
=============================================================================
