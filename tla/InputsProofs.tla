----------------------------- MODULE InputsProofs -----------------------------
(***************************************************************************)
(* For any batteries, configurations, intervals, timeouts and delays: at   *)
(* most one task reads the SoC, and no cycle of the Modbus mode leaves a   *)
(* setpoint that rests on an old measurement.                              *)
(***************************************************************************)
EXTENDS Inputs, TLAPS

-----------------------------------------------------------------------------
(***************************************************************************)
(* One reader of the SoC.                                                  *)
(***************************************************************************)
\* OneSource is not inductive: a task that is yet to start must not find a
\* configuration which the others, or main, have not seen.
StartsAgree ==
    ~hasty /\ (\E r \in Reader : task[r] = "starting") =>
        /\ writers = (cfg.mode = "modbus")
        /\ \A r \in Reader : task[r] = "polling" => Polls(r)

SourceInv ==
    /\ task \in [Reader -> {"starting", "idle", "polling"}]
    /\ StartsAgree /\ OneSource

LEMMA SourceInit == Init => SourceInv
<1> SUFFICES ASSUME Init PROVE SourceInv
  OBVIOUS
<1>1. task = [r \in Reader |-> "starting"] /\ writers = (cfg.mode = "modbus")
  BY DEF Init
<1>2. StartsAgree
  BY <1>1 DEF StartsAgree
<1>3. \A r \in Reading : r = "writers"
  BY <1>1 DEF Reading
<1>4. QED
  BY <1>1, <1>2, <1>3 DEF SourceInv, OneSource

\* No two of them are meant to poll, and none where there are writers.
LEMMA PollsExcludes ==
    ASSUME NEW r1 \in Reader, NEW r2 \in Reader, Polls(r1), Polls(r2)
    PROVE  r1 = r2 /\ cfg.mode # "modbus"
BY DEF Polls, Reader

LEMMA StartKeepsSource ==
    ASSUME SourceInv, NEW r \in Reader, Start(r)
    PROVE  SourceInv'
<1>1. task' \in [Reader -> {"starting", "idle", "polling"}]
  BY DEF Start, SourceInv
<1>2. UNCHANGED <<cfg, writers, hasty>> /\ task[r] = "starting"
  BY DEF Start
<1>3. ~hasty => /\ writers = (cfg.mode = "modbus")
                /\ \A q \in Reader : task'[q] = "polling" => Polls(q)
  BY <1>2 DEF SourceInv, StartsAgree, Start
<1>4. StartsAgree'
  BY <1>2, <1>3 DEF StartsAgree, Polls
<1>5. OneSource'
  <2> SUFFICES ASSUME ~hasty, NEW r1 \in Reading', NEW r2 \in Reading' PROVE r1 = r2
    BY <1>2 DEF OneSource
  <2>1. CASE r1 = "writers" \/ r2 = "writers"
    <3>1. ~(\E q \in Reader : task'[q] = "polling")
      BY <1>2, <1>3, <2>1, PollsExcludes DEF Reading, Reader
    <3>2. QED
      BY <3>1, <2>1 DEF Reading
  <2>2. CASE r1 # "writers" /\ r2 # "writers"
    BY <1>3, <2>2, PollsExcludes DEF Reading
  <2>3. QED
    BY <2>1, <2>2
<1>6. QED
  BY <1>1, <1>4, <1>5 DEF SourceInv

LEMMA SourceStep == SourceInv /\ [Next]_vars => SourceInv'
<1> SUFFICES ASSUME SourceInv, [Next]_vars PROVE SourceInv'
  OBVIOUS
<1>1. ASSUME UNCHANGED config PROVE SourceInv'
  BY <1>1 DEF config, SourceInv, StartsAgree, OneSource, Reading, Polls
<1>2. ASSUME NEW new \in Configs, Swap(new) PROVE SourceInv'
  <2>1. UNCHANGED <<writers, task>>
    BY <1>2 DEF Swap
  <2>2. hasty' = (hasty \/ \E r \in Reader : task[r] = "starting")
    BY <1>2 DEF Swap
  <2>3. StartsAgree'
    BY <2>1, <2>2 DEF StartsAgree
  <2>4. OneSource'
    BY <2>1, <2>2 DEF SourceInv, OneSource, Reading
  <2>5. QED
    BY <2>1, <2>3, <2>4 DEF SourceInv
<1>3. CASE \E r \in Reader : Start(r)
  BY <1>3, StartKeepsSource
<1>4. CASE (\E r \in Reader \cup {"writers"} : ReadSoc(r)) \/ Request \/ Answer \/ TimedOut
  BY <1>1, <1>4 DEF ReadSoc, Request, Answer, TimedOut
<1>5. CASE (\E rep \in replies : Receive(rep) \/ Lose(rep)) \/ Cycle \/ Tick
  BY <1>1, <1>5 DEF Receive, Lose, Cycle, Tick
<1>6. CASE (\E b \in Battery : PlugSpeaks(b) \/ Relay(b)) \/ UNCHANGED vars
  BY <1>1, <1>6 DEF PlugSpeaks, Relay, vars
<1>7. QED
  BY <1>2, <1>3, <1>4, <1>5, <1>6 DEF Next

\* "two SoC sources writing to the same field race each other" (main.rs): however
\* many PUTs come, unless one comes before both pollers have started.
THEOREM OneReader == Spec => []OneSource
<1>1. SourceInv => OneSource
  BY DEF SourceInv
<1>2. QED
  BY <1>1, SourceInit, SourceStep, PTL DEF Spec

-----------------------------------------------------------------------------
(***************************************************************************)
(* How old a measurement may be that a cycle acts on.                      *)
(***************************************************************************)
\* Where the mode is kept, the writers are those of the mode, and no circuit of
\* the Modbus mode is ever mute.
ModeKept ==
    ~remoded =>
        /\ writers = (cfg.mode = "modbus")
        /\ cfg.mode = "modbus" => silent = [b \in Battery |-> 0]

\* The reply that a poll waits for was measured since it asked.
WaitedFor ==
    poll.pc = "waiting" => \A rep \in replies : rep.matches => rep.taken <= poll.for

\* The stamp of a reading is at most the timeout of a poll behind the measurement.
StampedInTime ==
    snapshot.stamp # None =>
        snapshot.taken # None /\ snapshot.taken <= snapshot.stamp + Timeout

AgeInv == TypeOK /\ ModeKept /\ WaitedFor /\ StampedInTime

LEMMA Constants ==
    /\ None \notin Nat /\ {Interval, Timeout, GridStale, CycleTime, Silence, MaxDelay} \subseteq Nat
    /\ Oldest \in Nat /\ Oldest = GridStale + Timeout + 1
    /\ \A c \in Configs : c.mode \in {"modbus", "pulse"}
<1>1. None \notin Nat /\ {Interval, Timeout, GridStale, CycleTime, Silence, MaxDelay} \subseteq Nat
  BY InputConstantsOK
<1>2. \A c \in Configs : c.mode \in {"modbus", "pulse"}
  BY InputConstantsOK
<1>3. QED
  BY <1>1, <1>2 DEF Oldest

LEMMA AgesGrow ==
    ASSUME NEW age \in Age
    PROVE  /\ Older(age) \in Age
           /\ Older(age) = None <=> age = None
           /\ age # None => Older(age) \in {age + 1, Oldest} /\ Older(age) <= age + 1
BY Constants DEF Age, Older

LEMMA AgeInit == Init => AgeInv
<1> SUFFICES ASSUME Init PROVE AgeInv
  OBVIOUS
<1>1. cfg \in Configs /\ {writers, hasty, remoded} \subseteq BOOLEAN
  BY DEF Init
<1>2. poll \in [pc: {"asleep"}, for: 0..Interval] /\ replies = {}
  BY Constants DEF Init
<1>3. snapshot \in [stamp: Age, taken: Age]
  BY DEF Init, Age
<1>4. cycle_in \in 0..CycleTime /\ stale_plug \cup cut \subseteq Battery
  BY Constants DEF Init
<1>5. silent \in [Battery -> 0..Silence] /\ command = [b \in Battery |-> None]
  BY Constants DEF Init
<1>6. task \in [Reader -> {"starting", "idle", "polling"}] /\ soc = None
  BY DEF Init
<1>7. command \in [Battery -> Age]
  BY <1>5 DEF Age
<1>8. TypeOK
  BY <1>1, <1>2, <1>3, <1>4, <1>5, <1>6, <1>7 DEF TypeOK
<1>9. QED
  BY <1>8 DEF Init, AgeInv, ModeKept, WaitedFor, StampedInTime

\* The poller of the meter.
LEMMA MeterKeepsAge ==
    ASSUME AgeInv,
           Request \/ Answer \/ TimedOut \/ \E rep \in replies : Receive(rep) \/ Lose(rep)
    PROVE  AgeInv'
<1>1. UNCHANGED <<config, soc, plugs, dispatch>>
  BY DEF Request, Answer, TimedOut, Receive, Lose
<1>2. UNCHANGED <<cfg, writers, task, hasty, remoded, soc, cycle_in, stale_plug, cut, silent, command>>
  BY <1>1 DEF config, plugs, dispatch
<1>3. ASSUME /\ poll' \in [pc: {"asleep"}, for: 0..Interval] \cup [pc: {"waiting"}, for: 0..Timeout]
             /\ replies' \subseteq [matches : BOOLEAN, taken : 0..MaxDelay]
             /\ snapshot' \in [stamp: Age, taken: Age]
             /\ WaitedFor' /\ StampedInTime'
      PROVE  AgeInv'
  BY <1>2, <1>3 DEF AgeInv, TypeOK, ModeKept
<1>4. CASE Request
  <2>1. poll' = [pc |-> "waiting", for |-> 0] /\ UNCHANGED snapshot
    BY <1>4 DEF Request
  <2>2. replies' \subseteq [matches : {FALSE}, taken : 0..MaxDelay]
    <3>1. \A rep \in replies : [rep EXCEPT !.matches = FALSE] \in [matches : {FALSE}, taken : 0..MaxDelay]
      BY DEF AgeInv, TypeOK
    <3>2. QED
      BY <1>4, <3>1 DEF Request
  <2>3. WaitedFor'
    BY <2>2 DEF WaitedFor
  <2>4. replies' \subseteq [matches : BOOLEAN, taken : 0..MaxDelay]
    BY <2>2
  <2>5. poll' \in [pc: {"waiting"}, for: 0..Timeout]
    BY <2>1, Constants
  <2>6. QED
    BY <1>3, <2>1, <2>3, <2>4, <2>5 DEF AgeInv, TypeOK, StampedInTime
<1>5. CASE Answer
  <2>1. UNCHANGED <<poll, snapshot>> /\ replies' = replies \cup {[matches |-> TRUE, taken |-> 0]}
    BY <1>5 DEF Answer
  <2>2. replies' \subseteq [matches : BOOLEAN, taken : 0..MaxDelay]
    <3>1. 0 \in 0..MaxDelay
      BY Constants
    <3>2. [matches |-> TRUE, taken |-> 0] \in [matches : BOOLEAN, taken : 0..MaxDelay]
      BY <3>1
    <3>3. QED
      BY <2>1, <3>2 DEF AgeInv, TypeOK
  <2>3. WaitedFor'
    BY <2>1, Constants DEF AgeInv, TypeOK, WaitedFor
  <2>4. QED
    BY <1>3, <2>1, <2>2, <2>3 DEF AgeInv, TypeOK, StampedInTime
<1>6. CASE TimedOut
  <2>1. poll' = [pc |-> "asleep", for |-> 0] /\ UNCHANGED <<replies, snapshot>>
    BY <1>6 DEF TimedOut
  <2>2. WaitedFor'
    BY <2>1 DEF WaitedFor
  <2>3. QED
    BY <1>3, <2>1, <2>2, Constants DEF AgeInv, TypeOK, StampedInTime
<1>7. ASSUME NEW rep \in replies, Lose(rep) PROVE AgeInv'
  <2>1. UNCHANGED <<poll, snapshot>> /\ replies' \subseteq replies
    BY <1>7 DEF Lose
  <2>2. QED
    BY <1>3, <2>1 DEF AgeInv, TypeOK, WaitedFor, StampedInTime
<1>8. ASSUME NEW rep \in replies, Receive(rep) PROVE AgeInv'
  <2>1. replies' \subseteq replies
    BY <1>8 DEF Receive
  <2>2. CASE Matches(rep)
    <3>1. rep.matches /\ poll.pc = "waiting" /\ poll' = [pc |-> "asleep", for |-> 0]
      BY <1>8, <2>2 DEF Receive, Matches
    <3>2. rep.taken \in Nat /\ rep.taken <= Timeout
      BY <3>1, Constants DEF AgeInv, TypeOK, WaitedFor
    <3>3. snapshot' \in {snapshot, [stamp |-> 0, taken |-> rep.taken]}
      BY <1>8, <2>2 DEF Receive
    <3>4. snapshot' \in [stamp: Age, taken: Age] /\ StampedInTime'
      BY <3>2, <3>3, Constants DEF AgeInv, TypeOK, StampedInTime, Age
    <3>5. WaitedFor'
      BY <3>1 DEF WaitedFor
    <3>6. QED
      BY <1>3, <2>1, <3>1, <3>4, <3>5, Constants DEF AgeInv, TypeOK
  <2>3. CASE ~Matches(rep)
    <3>1. UNCHANGED <<poll, snapshot>>
      BY <1>8, <2>3 DEF Receive
    <3>2. QED
      BY <1>3, <2>1, <3>1 DEF AgeInv, TypeOK, WaitedFor, StampedInTime
  <2>4. QED
    BY <2>2, <2>3
<1>9. QED
  BY <1>4, <1>5, <1>6, <1>7, <1>8

\* A cycle; what it sends.
LEMMA CycleActsOnRecent ==
    ASSUME AgeInv, Cycle, ~remoded, NEW b \in Battery \ cut, command'[b] # None
    PROVE  command'[b] <= GridStale + Timeout
<1>1. CASE cfg.mode = "modbus" /\ writers
  <2>1. StepModbus
    BY <1>1 DEF Cycle
  <2>2. GridFresh
    BY <2>1 DEF StepModbus
  <2>3. Muted(b) = 0
    BY <1>1, Constants DEF Muted, Cooldown, AgeInv, ModeKept
  <2>4. command'[b] = snapshot.taken
    BY <2>1, <2>2, <2>3, Constants DEF StepModbus
  <2>5. /\ snapshot.stamp \in Nat /\ snapshot.stamp <= GridStale
        /\ snapshot.taken \in Nat /\ snapshot.taken <= snapshot.stamp + Timeout
    BY <2>2, Constants DEF GridFresh, AgeInv, StampedInTime, TypeOK, Age
  <2>6. QED
    BY <2>4, <2>5, Constants
<1>2. CASE ~(cfg.mode = "modbus" /\ writers)
  BY <1>2 DEF Cycle, AgeInv, ModeKept, TypeOK
<1>3. QED
  BY <1>1, <1>2

LEMMA CycleKeepsAge ==
    ASSUME AgeInv, Cycle
    PROVE  AgeInv'
<1>1. UNCHANGED <<cfg, writers, task, hasty, remoded, soc, poll, replies, snapshot, stale_plug, cut>>
  BY DEF Cycle, config, meter, plugs
<1>2. cycle_in' \in 0..CycleTime
  BY Constants DEF Cycle
<1>3. \A b \in Battery : Muted(b) \in {silent[b], Cooldown} /\ Cooldown \in {0, Silence}
  BY DEF Muted, Cooldown
<1>4. silent' \in [Battery -> 0..Silence]
  BY <1>3, Constants DEF Cycle, AgeInv, TypeOK
<1>5. command' \in [Battery -> Age]
  BY DEF Cycle, StepModbus, AgeInv, TypeOK, Age
<1>6. ~writers => UNCHANGED command
  BY DEF Cycle
<1>7. TypeOK'
  BY <1>1, <1>2, <1>4, <1>5, <1>6 DEF AgeInv, TypeOK
<1>8. ModeKept'
  <2>1. ASSUME ~remoded, cfg.mode = "modbus", NEW b \in Battery PROVE Muted(b) = 0
    BY <2>1, Constants DEF Muted, Cooldown, AgeInv, ModeKept
  <2>2. QED
    BY <1>1, <2>1 DEF Cycle, AgeInv, ModeKept
<1>9. QED
  BY <1>1, <1>7, <1>8 DEF AgeInv, WaitedFor, StampedInTime

\* Time passes for the poll and for its replies alike.
LEMMA TickKeepsAge ==
    ASSUME AgeInv, Tick
    PROVE  AgeInv'
<1>1. UNCHANGED <<cfg, writers, task, hasty, remoded, soc, stale_plug, cut>>
  BY DEF Tick, config, plugs
<1>2. cycle_in' \in 0..CycleTime
  BY Constants DEF Tick, AgeInv, TypeOK
<1>3. poll' \in [pc: {"asleep"}, for: 0..Interval] \cup [pc: {"waiting"}, for: 0..Timeout]
  BY Constants DEF Tick, AgeInv, TypeOK
<1>4. /\ poll'.pc = poll.pc /\ poll'.for = poll.for + 1 /\ poll.for \in Nat
  BY Constants DEF Tick, AgeInv, TypeOK
<1>5. \A rep \in replies' : \E q \in replies :
          q.taken < MaxDelay /\ rep = [q EXCEPT !.taken = @ + 1]
  BY DEF Tick
<1>6. \A rep \in replies' : \E q \in replies :
          rep \in [matches : BOOLEAN, taken : 0..MaxDelay]
              /\ rep.matches = q.matches /\ rep.taken = q.taken + 1 /\ q.taken \in Nat
  BY <1>5, Constants DEF AgeInv, TypeOK
<1>7. WaitedFor'
  BY <1>4, <1>6 DEF AgeInv, WaitedFor
<1>8. snapshot'.stamp = Older(snapshot.stamp) /\ snapshot'.taken = Older(snapshot.taken)
      /\ snapshot.stamp \in Age /\ snapshot.taken \in Age
  BY DEF Tick, AgeInv, TypeOK
<1>9. snapshot' \in [stamp: Age, taken: Age]
  BY <1>8, AgesGrow DEF Tick
<1>10. StampedInTime'
  <2> SUFFICES ASSUME snapshot.stamp # None
               PROVE  /\ Older(snapshot.taken) # None
                      /\ Older(snapshot.taken) <= Older(snapshot.stamp) + Timeout
    BY <1>8, AgesGrow DEF StampedInTime
  <2>1. /\ snapshot.stamp \in 0..Oldest /\ snapshot.taken \in 0..Oldest
        /\ snapshot.taken <= snapshot.stamp + Timeout
    BY <1>8 DEF AgeInv, StampedInTime, Age
  <2>2. QED
    BY <2>1, Constants DEF Older
<1>11. silent' \in [Battery -> 0..Silence]
  BY Constants DEF Tick, AgeInv, TypeOK
<1>12. command' \in [Battery -> Age]
  BY AgesGrow DEF Tick, AgeInv, TypeOK
<1>13. ~writers => command' = [b \in Battery |-> None]
  BY DEF Tick, Older, AgeInv, TypeOK
<1>14. TypeOK'
  BY <1>1, <1>2, <1>3, <1>6, <1>9, <1>11, <1>12, <1>13 DEF AgeInv, TypeOK
<1>15. ModeKept'
  BY <1>1 DEF Tick, AgeInv, ModeKept
<1>16. QED
  BY <1>7, <1>10, <1>14, <1>15 DEF AgeInv

LEMMA AgeStep == AgeInv /\ [Next]_vars => AgeInv'
<1> SUFFICES ASSUME AgeInv, [Next]_vars PROVE AgeInv'
  OBVIOUS
<1>1. CASE \E r \in Reader : Start(r)
  <2>1. task' \in [Reader -> {"starting", "idle", "polling"}]
    BY <1>1 DEF Start, AgeInv, TypeOK
  <2>2. QED
    BY <1>1, <2>1 DEF Start, AgeInv, TypeOK, ModeKept, WaitedFor, StampedInTime,
                      meter, plugs, dispatch
<1>2. CASE \E r \in Reader \cup {"writers"} : ReadSoc(r)
  BY <1>2 DEF ReadSoc, AgeInv, TypeOK, ModeKept, WaitedFor, StampedInTime,
              config, meter, plugs, dispatch
<1>3. CASE \E new \in Configs : Swap(new)
  <2> PICK new \in Configs : Swap(new)
    BY <1>3
  <2>1. UNCHANGED <<writers, task, poll, replies, snapshot, stale_plug, cut, cycle_in, silent, command>>
    BY DEF Swap, meter, plugs, dispatch
  <2>2. cfg' = new /\ hasty' \in BOOLEAN /\ soc' \in {soc, None}
    BY DEF Swap, AgeInv, TypeOK
  <2>3. remoded' = (remoded \/ new.mode # cfg.mode)
    BY DEF Swap
  <2>4. TypeOK'
    BY <2>1, <2>2, <2>3 DEF AgeInv, TypeOK
  <2>5. ModeKept'
    BY <2>1, <2>2, <2>3 DEF AgeInv, ModeKept
  <2>6. QED
    BY <2>1, <2>4, <2>5 DEF AgeInv, WaitedFor, StampedInTime
<1>4. CASE Request \/ Answer \/ TimedOut \/ \E rep \in replies : Receive(rep) \/ Lose(rep)
  BY <1>4, MeterKeepsAge
<1>5. CASE Cycle
  BY <1>5, CycleKeepsAge
<1>6. CASE Tick
  BY <1>6, TickKeepsAge
<1>7. CASE \E b \in Battery : PlugSpeaks(b) \/ Relay(b)
  BY <1>7 DEF PlugSpeaks, Relay, AgeInv, TypeOK, ModeKept, WaitedFor, StampedInTime,
              config, meter, dispatch
<1>8. CASE UNCHANGED vars
  BY <1>8 DEF vars, AgeInv, TypeOK, ModeKept, WaitedFor, StampedInTime,
              config, meter, plugs, dispatch
<1>9. QED
  BY <1>1, <1>2, <1>3, <1>4, <1>5, <1>6, <1>7, <1>8 DEF Next

\* "Grid stale -> command every battery to standby so they don't keep churning on
\* a stale assumption" (step_modbus), from the measurement to the mailbox: no cycle
\* leaves a setpoint that rests on a measurement older than grid_stale_s and a
\* timeout of the poll, as long as nobody changes the mode.
THEOREM RecentMeasurement == Spec => ActsOnRecent
<1>1. AgeInv /\ [Next]_vars =>
          [Cycle /\ ~remoded =>
              \A b \in Battery \ cut : command'[b] # None => command'[b] <= GridStale + Timeout]_vars
  BY CycleActsOnRecent
<1>2. QED
  BY <1>1, AgeInit, AgeStep, PTL DEF Spec, ActsOnRecent

\* The types: above all, a silence is never longer than one whole silence, however
\* many cycles ask for it, and without writers no mailbox holds a setpoint.
THEOREM InputsTyped == Spec => []TypeOK
<1>1. AgeInv => TypeOK
  BY DEF AgeInv
<1>2. QED
  BY <1>1, AgeInit, AgeStep, PTL DEF Spec

=============================================================================
