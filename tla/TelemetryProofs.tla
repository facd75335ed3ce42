--------------------------- MODULE TelemetryProofs ---------------------------
(***************************************************************************)
(* For every model, every firmware, every sample of the tables and every   *)
(* request: the types of the loop, what the cache may hold, and that a     *)
(* range which was once served stays served.                               *)
(***************************************************************************)
EXTENDS Telemetry, TLAPS

-----------------------------------------------------------------------------
\* "SoC and battery_power are guaranteed there for every variant"
\* (fast_registers): the registers that a fast refresh derives them from are in
\* the fast tier of every model.
THEOREM DerivedInFastTier ==
    \A m \in MarstekModel : {soc_register(m)} \cup PowerRegisters(m) \subseteq fast_registers(m)
<1> SUFFICES ASSUME NEW m \in MarstekModel
             PROVE  {soc_register(m)} \cup PowerRegisters(m) \subseteq fast_registers(m)
  OBVIOUS
<1> USE DEF soc_register, PowerRegisters, battery_power_register, battery_power_is_int32,
            fast_registers
<1>1. CASE m = "venus_e_v1_v2"
  BY <1>1 DEF VENUS_E_V1V2_FAST
<1>2. CASE m = "venus_e_v3"
  BY <1>2 DEF VENUS_E_V3_FAST
<1>3. CASE m = "venus_d"
  BY <1>3 DEF VENUS_D_FAST
<1>4. CASE m = "venus_a"
  BY <1>4 DEF VENUS_A_FAST, VENUS_D_FAST
<1>5. QED
  BY <1>1, <1>2, <1>3, <1>4 DEF MarstekModel

-----------------------------------------------------------------------------
\* No step takes a register out of the cache, or changes the battery.
LEMMA CacheGrows ==
    ASSUME [Next]_vars
    PROVE  UNCHANGED battery /\ cached \subseteq cached'
<1> USE DEF battery, request, shared
<1>1. CASE Task
  <2>1. CASE TakeSetpoint \/ PollSoc \/ \E tier \in Tier : Refresh(tier)
    BY <2>1 DEF TakeSetpoint, PollSoc, Refresh
  <2>2. CASE Connect \/ WriteSetpoint
    BY <2>2 DEF Connect, WriteSetpoint
  <2>3. CASE ReadSoc
    BY <2>3 DEF ReadSoc
  <2>4. CASE Read
    BY <2>4 DEF Read, ReadRegister, Refused, WireError
  <2>5. CASE Collected
    BY <2>5 DEF Collected, Merged
  <2>6. QED
    BY <1>1, <2>1, <2>2, <2>3, <2>4, <2>5 DEF Task
<1>2. CASE (\E sp \in Sends[tiered] : Send(sp)) \/ \E timer \in Tier \cup {"soc"} : Elapse(timer)
  BY <1>2 DEF Send, Elapse
<1>3. CASE Change \/ Weather \/ Breaks
  BY <1>3 DEF Change, Weather, Breaks
<1>4. CASE UNCHANGED vars
  BY <1>4 DEF vars
<1>5. QED
  BY <1>1, <1>2, <1>3, <1>4 DEF Next

\* A larger cache answers what a smaller one does.
LEMMA MoreIsServed ==
    ASSUME UNCHANGED model, cached \subseteq cached', NEW addr, NEW count,
           Reply(addr, count) = "ok"
    PROVE  Reply(addr, count)' = "ok"
<1> DEFINE keys == {alias_probe_register(model, (addr + k) % 65536) : k \in 0..(count - 1)}
<1>1. cached # {} /\ keys \subseteq cached
  BY DEF Reply
<1>2. cached' # {} /\ keys \subseteq cached'
  BY <1>1
<1>3. keys' = keys
  BY DEF alias_probe_register
<1>4. QED
  BY <1>2, <1>3 DEF Reply

\* "Merge new readings into the cache (don't replace)" (tier_refresh): for any
\* tables and any failures, a range that was once served is served ever after.
THEOREM ServedForGood == Spec => RangeStaysServed
<1>1. [Next]_vars => [\A q \in Asked : Reply(q[1], q[2]) = "ok" => Reply(q[1], q[2])' = "ok"]_vars
  <2> SUFFICES ASSUME [Next]_vars, NEW q \in Asked, Reply(q[1], q[2]) = "ok"
               PROVE  Reply(q[1], q[2])' = "ok"
    OBVIOUS
  <2>1. UNCHANGED model /\ cached \subseteq cached'
    BY CacheGrows DEF battery
  <2>2. QED
    BY <2>1, MoreIsServed
<1>2. QED
  BY <1>1, PTL DEF Spec, RangeStaysServed

-----------------------------------------------------------------------------
\* The types are not inductive: what a refresh adds to the cache was collected
\* from registers that the firmware has, and only where the cache is kept.
TypeInv ==
    /\ TypeOK
    /\ job \in Tier => tiered
    /\ got \cap missing = {}

LEMMA TypeInit == Init => TypeInv
<1> SUFFICES ASSUME Init PROVE TypeInv
  OBVIOUS
<1>1. model \in MarstekModel /\ tiered \in BOOLEAN /\ Attempts \in Nat \ {0}
  BY TelemetryConstantsOK DEF Init
<1>2. TypeOK
  BY <1>1 DEF Init, TypeOK, Tier
<1>3. QED
  BY <1>2 DEF Init, TypeInv, Tier

\* A job that ends, or a write that is tried once more, leaves the job typed.
LEMMA JobEnds ==
    ASSUME TypeInv, UNCHANGED battery, Done
    PROVE  /\ job' = "select" /\ attempt' \in 0..Attempts /\ streak' \in 0..2
           /\ todo' = {} /\ got' = {} /\ gotNew' = {}
BY TelemetryConstantsOK DEF Done, TypeInv, TypeOK

LEMMA WriteGoesOn ==
    ASSUME TypeInv, UNCHANGED battery, job = "write", AnotherAttempt
    PROVE  /\ job' \in {"write", "select"} /\ (job' = "write" => attempt' # 0)
           /\ attempt' \in 0..Attempts /\ streak' \in 0..2
           /\ todo' = {} /\ got' = {} /\ gotNew' = {}
<1>1. CASE attempt < Attempts
  <2>1. UNCHANGED <<job, todo, streak, got, gotNew>> /\ attempt' = attempt + 1
    BY <1>1 DEF AnotherAttempt
  <2>2. todo = {} /\ got = {} /\ gotNew = {} /\ streak \in 0..2
    BY DEF TypeInv, TypeOK, Tier
  <2>3. attempt' \in 0..Attempts /\ attempt' # 0
    BY <1>1, <2>1, TelemetryConstantsOK DEF TypeInv, TypeOK
  <2>4. QED
    BY <2>1, <2>2, <2>3
<1>2. CASE ~(attempt < Attempts)
  BY <1>2, JobEnds DEF AnotherAttempt
<1>3. QED
  BY <1>1, <1>2

\* The steps of a refresh.
LEMMA ReadTyped ==
    ASSUME TypeInv, UNCHANGED battery, Read
    PROVE  TypeInv'
<1> USE DEF battery, shared
<1> PICK r \in Sample : ReadRegister(r) \/ Refused(r) \/ WireError(r)
  BY DEF Read
<1>1. job \in Tier /\ r \in todo /\ job' = job /\ tiered' = tiered /\ Table(job)' = Table(job)
  BY DEF ReadRegister, Refused, WireError, Reading, Table
<1>2. streak' \in 0..2
  BY DEF ReadRegister, Refused, WireError, Suspect, Longer, TypeInv, TypeOK
<1>3. /\ todo' \cap got' = {} /\ todo' \cup got' \subseteq Table(job)
      /\ gotNew' \subseteq got' /\ got' \cap missing = {}
  <2>1. CASE ReadRegister(r)
    BY <1>1, <2>1 DEF ReadRegister, TypeInv, TypeOK
  <2>2. CASE Refused(r)
    BY <1>1, <2>2 DEF Refused, TypeInv, TypeOK
  <2>3. CASE WireError(r)
    BY <1>1, <2>3 DEF WireError, TypeInv, TypeOK
  <2>4. QED
    BY <2>1, <2>2, <2>3
<1>4. ctx' \in {ctx, None, "broken"} /\ UNCHANGED <<answers, wants, attempt, due, shared>>
  BY DEF ReadRegister, Refused, WireError
<1>5. UNCHANGED <<Timers, All, Sends[tiered], model, missing>>
  BY DEF Timers, All, Table
<1>6. /\ todo' \cup got' \subseteq IF job' \in Tier THEN Table(job)' ELSE {}
      /\ job' \in Tier => tiered'
  BY <1>1, <1>3 DEF TypeInv
<1>7. QED
  BY <1>1, <1>2, <1>3, <1>4, <1>5, <1>6 DEF TypeInv, TypeOK

LEMMA CollectedTyped ==
    ASSUME TypeInv, UNCHANGED battery, Collected
    PROVE  TypeInv'
<1> USE DEF battery, shared
<1>1. tiered /\ got \subseteq All \ missing /\ gotNew \subseteq got
  BY DEF Collected, TypeInv, TypeOK, All, Tier
<1>2. due' \subseteq Timers /\ cached' \subseteq All \ missing /\ cachedNew' \subseteq cached'
  BY <1>1 DEF Collected, Merged, TypeInv, TypeOK
<1>3. current' \subseteq {"soc", "power"}
  BY DEF Collected, Derived, TypeInv, TypeOK
<1>4. Done /\ UNCHANGED <<battery, answers, ctx, wants>>
  BY DEF Collected
<1>5. All' = All /\ Timers' = Timers
  BY DEF All, Table, Timers
<1>6. /\ job' = "select" /\ attempt' \in 0..Attempts /\ streak' \in 0..2
      /\ todo' = {} /\ got' = {} /\ gotNew' = {}
  BY <1>4, JobEnds
<1>7. UNCHANGED <<model, tiered, missing, answers, ctx, wants>>
  BY <1>4
<1>8. cached' \subseteq IF tiered' THEN All' \ missing' ELSE {}
  BY <1>1, <1>2, <1>5, <1>7
<1>9. TypeOK'
  BY <1>2, <1>3, <1>5, <1>6, <1>7, <1>8 DEF TypeInv, TypeOK, Tier
<1>10. QED
  BY <1>6, <1>9 DEF TypeInv, Tier

LEMMA TypeStep == TypeInv /\ [Next]_vars => TypeInv'
<1> SUFFICES ASSUME TypeInv, [Next]_vars PROVE TypeInv'
  OBVIOUS
<1>1. UNCHANGED battery
  BY CacheGrows
<1>2. UNCHANGED <<Timers, All, Sends[tiered]>> /\ \A tier : Table(tier)' = Table(tier)
  BY <1>1 DEF battery, Timers, All, Table
<1>3. CASE Task
  <2>1. CASE TakeSetpoint
    <3>1. attempt' \in 0..Attempts /\ (job' = "write" => attempt' # 0)
      <4>1. Attempts \in Nat /\ Attempts >= 1 /\ attempt \in 0..Attempts
        BY TelemetryConstantsOK DEF TypeInv, TypeOK
      <4>2. (job' = "write" /\ attempt' = 1) \/ (job' \in {"soc", "select"} /\ attempt' = attempt)
        BY <2>1 DEF TakeSetpoint
      <4>3. QED
        BY <4>1, <4>2
    <3>2. job' \in {"select", "write", "soc"} /\ wants' = None
      BY <2>1 DEF TakeSetpoint
    <3>3. todo = {} /\ got = {}
      BY <2>1 DEF TakeSetpoint, TypeInv, TypeOK, Tier
    <3>4. QED
      BY <1>1, <1>2, <2>1, <3>1, <3>2, <3>3
         DEF TakeSetpoint, TypeInv, TypeOK, battery, shared, Tier
  <2>2. CASE PollSoc
    BY <1>1, <1>2, <2>2 DEF PollSoc, Quiet, TypeInv, TypeOK, battery, request, shared, Tier
  <2>3. CASE \E tier \in Tier : Refresh(tier)
    BY <1>1, <1>2, <2>3 DEF Refresh, Quiet, TypeInv, TypeOK, battery, shared, Tier, Timers
  <2>4. CASE Connect
    <3>1. CASE ctx' = "good" /\ UNCHANGED <<job, request>>
      BY <1>1, <1>2, <2>4, <3>1 DEF Connect, TypeInv, TypeOK, battery, request, shared
    <3>2. CASE job = "write" /\ AnotherAttempt
      BY <1>1, <1>2, <2>4, <3>2, WriteGoesOn DEF Connect, TypeInv, TypeOK, battery, shared, Tier
    <3>3. CASE job = "soc" /\ Done
      BY <1>1, <1>2, <2>4, <3>3, JobEnds DEF Connect, TypeInv, TypeOK, battery, shared, Tier
    <3>4. CASE job \in Tier /\ todo' = {} /\ UNCHANGED <<job, attempt, streak, got, gotNew, ctx>>
      <4>1. /\ todo' \cup got' \subseteq IF job' \in Tier THEN Table(job)' ELSE {}
            /\ todo' \cap got' = {} /\ gotNew' \subseteq got'
        BY <1>2, <3>4 DEF TypeInv, TypeOK
      <4>2. UNCHANGED <<model, tiered, missing, answers, ctx, wants, due, cached, cachedNew, current>>
        BY <1>1, <2>4, <3>4 DEF Connect, battery, shared
      <4>3. TypeOK'
        BY <1>2, <3>4, <4>1, <4>2 DEF TypeInv, TypeOK
      <4>4. QED
        BY <3>4, <4>2, <4>3 DEF TypeInv
    <3>5. QED
      BY <2>4, <3>1, <3>2, <3>3, <3>4 DEF Connect, Tier
  <2>5. CASE WriteSetpoint
    <3>1. CASE job' = "soc" /\ UNCHANGED <<request, ctx>>
      BY <1>1, <1>2, <2>5, <3>1 DEF WriteSetpoint, TypeInv, TypeOK, battery, request, shared, Tier
    <3>2. CASE Done /\ UNCHANGED ctx
      BY <1>1, <1>2, <2>5, <3>2, JobEnds DEF WriteSetpoint, TypeInv, TypeOK, battery, shared, Tier
    <3>3. CASE ctx' = None /\ AnotherAttempt
      BY <1>1, <1>2, <2>5, <3>3, WriteGoesOn DEF WriteSetpoint, TypeInv, TypeOK, battery, shared, Tier
    <3>4. QED
      BY <2>5, <3>1, <3>2, <3>3 DEF WriteSetpoint
  <2>6. CASE ReadSoc
    BY <1>1, <1>2, <2>6, JobEnds DEF ReadSoc, TypeInv, TypeOK, battery, Tier
  <2>7. CASE Read
    BY <1>1, <2>7, ReadTyped
  <2>8. CASE Collected
    BY <1>1, <2>8, CollectedTyped
  <2>9. QED
    BY <1>3, <2>1, <2>2, <2>3, <2>4, <2>5, <2>6, <2>7, <2>8 DEF Task
<1>4. CASE (\E sp \in Sends[tiered] : Send(sp)) \/ \E timer \in Tier \cup {"soc"} : Elapse(timer)
  BY <1>1, <1>2, <1>4 DEF Send, Elapse, TypeInv, TypeOK, battery, request, shared
<1>5. CASE Change \/ Weather \/ Breaks
  BY <1>1, <1>2, <1>5 DEF Change, Weather, Breaks, TypeInv, TypeOK, battery, request, shared
<1>6. CASE UNCHANGED vars
  BY <1>1, <1>2, <1>6 DEF vars, TypeInv, TypeOK, battery, request, shared
<1>7. QED
  BY <1>3, <1>4, <1>5, <1>6 DEF Next

\* Whatever fails and whatever is sent: a third error in a row is never counted
\* but drops the connection, and the cache, which is kept only where the virtual
\* Modbus server runs, holds nothing but registers of the model's tables that its
\* firmware has answered.
THEOREM LoopTyped == Spec => []TypeOK
<1>1. TypeInv => TypeOK
  BY DEF TypeInv
<1>2. QED
  BY <1>1, TypeInit, TypeStep, PTL DEF Spec

=============================================================================
