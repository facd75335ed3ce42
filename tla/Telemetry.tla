------------------------------ MODULE Telemetry ------------------------------
(***************************************************************************)
(* One connection to a battery carries its setpoints, its SoC and, where   *)
(* the virtual Modbus server runs, a refresh of two tiers of registers     *)
(* into a cache that the server answers from.  This is the loop of a       *)
(* BatteryWriter after its init, one request to the battery per step; what *)
(* a setpoint write does to the battery, and the end of the task, are in   *)
(* the module BatteryWriter.                                               *)
(*                                                                         *)
(* Values are abstracted to whether the battery still holds them: when its *)
(* registers change, no copy is current.  A SoC beyond 0..100 is taken for *)
(* one that was refused.                                                   *)
(***************************************************************************)
EXTENDS RegisterMap, FiniteSets

CONSTANTS
    Sample,    \* the registers of the tables that are looked at
    Asked,     \* <<address, count>> of the requests of Home Assistant
    Models, Missing, \* the models looked at, and what their firmware may lack
    Tiered,    \* may virtual_modbus be enabled? a set of BOOLEAN
    Attempts,  \* of a setpoint write
    Sends,     \* what is sent with and without the cache: setpoints that are
               \* the "same" as the last write, or "differs"
    None

ASSUME TelemetryConstantsOK ==
    /\ IsFiniteSet(Sample) /\ Sample \subseteq Nat
    /\ Asked \subseteq Nat \X (Nat \ {0})
    /\ Models \subseteq MarstekModel /\ Missing \subseteq SUBSET Sample
    /\ Attempts \in Nat \ {0} /\ Sends \in [BOOLEAN -> SUBSET {"same", "differs"}]
    /\ Tiered \subseteq BOOLEAN

VARIABLES
    model, tiered, \* of the battery: its model, and is the cache kept?
    missing,       \* registers that its firmware does not have
    answers,       \* does it answer for now?
    ctx,           \* the connection: None, "good" or "broken"
    wants,         \* the mailbox: None, or a setpoint within the deadband or not
    job,           \* what the loop is at
    attempt, todo, streak, \* of the job
    got, gotNew,   \* `collected', and what of it is current
    due,           \* the timers that have run out
    cached, cachedNew,     \* cached_holding_regs, and what of it is current
    current        \* which of "soc" and "power" the dispatcher reads as they are

battery == <<model, tiered, missing>>
request == <<attempt, todo, streak, got, gotNew>>
shared  == <<cached, cachedNew, current>>
vars    == <<battery, answers, ctx, wants, job, request, due, shared>>

Tier == {"fast", "slow"}
Table(tier) ==
    Sample \cap (IF tier = "fast" THEN fast_registers(model) ELSE slow_registers(model))
All == Table("fast") \cup Table("slow")

Timers == IF tiered THEN Tier ELSE {"soc"}

Init ==
    /\ model \in Models /\ tiered \in Tiered /\ missing \in {m \cap All : m \in Missing}
    /\ answers = TRUE /\ ctx = "good" /\ wants = None
    /\ job = "select" /\ attempt = 0 /\ todo = {} /\ streak = 0
    /\ got = {} /\ gotNew = {}
    /\ due = Timers
    /\ cached = {} /\ cachedNew = {} /\ current = {}

-----------------------------------------------------------------------------
(***************************************************************************)
(* The select of the loop: biased, so that a branch is taken only if none  *)
(* before it is ready.                                                     *)
(***************************************************************************)
\* soc_poll_due; next to a fast refresh it is rarely so, and left open here.
SocPollDue == IF tiered THEN BOOLEAN ELSE {"soc" \in due}

TakeSetpoint ==
    /\ job = "select"
    /\ wants # None /\ wants' = None
    /\ \/ wants = "differs" /\ job' = "write" /\ attempt' = 1
       \/ /\ wants = "same"
          /\ job' = IF ~tiered /\ TRUE \in SocPollDue THEN "soc" ELSE "select"
          /\ UNCHANGED attempt
    /\ UNCHANGED <<battery, answers, ctx, todo, streak, got, gotNew, due, shared>>

Quiet == job = "select" /\ wants = None

PollSoc ==
    /\ Quiet /\ ~tiered /\ "soc" \in due
    /\ job' = "soc"
    /\ UNCHANGED <<battery, answers, ctx, wants, request, due, shared>>

Refresh(tier) ==
    /\ Quiet /\ tier \in due
    /\ tier = "slow" => "fast" \notin due
    /\ job' = tier /\ todo' = Table(tier)
    /\ UNCHANGED <<battery, answers, ctx, wants, attempt, streak, got, gotNew, due, shared>>

\* The job ends, and the loop selects again.
Done ==
    /\ job' = "select" /\ attempt' = 0 /\ todo' = {} /\ streak' = 0
    /\ got' = {} /\ gotNew' = {}

-----------------------------------------------------------------------------
(***************************************************************************)
(* The connection.                                                         *)
(***************************************************************************)
\* Another attempt of a write, or its end.
AnotherAttempt ==
    IF attempt < Attempts
    THEN attempt' = attempt + 1 /\ UNCHANGED <<job, todo, streak, got, gotNew>>
    ELSE Done

\* ensure_conn: a write tries again, a refresh goes on with what it has.
Connect ==
    /\ job \in {"write", "soc"} \/ (job \in Tier /\ todo # {})
    /\ ctx = None
    /\ \/ ctx' = "good" /\ UNCHANGED <<job, request>>
       \/ /\ ~answers /\ UNCHANGED ctx
          /\ CASE job = "write" -> AnotherAttempt
               [] job = "soc"   -> Done
               [] job \in Tier  -> todo' = {} /\ UNCHANGED <<job, attempt, streak, got, gotNew>>
    /\ UNCHANGED <<battery, answers, wants, due, shared>>

Fails == ctx = "broken" \/ ~answers

\* do_write: an error drops the connection, a success reads the SoC if it is due.
WriteSetpoint ==
    /\ job = "write" /\ ctx # None
    /\ \/ /\ ctx = "good" /\ UNCHANGED ctx
          /\ \E socDue \in SocPollDue :
                 IF socDue THEN job' = "soc" /\ UNCHANGED request ELSE Done
       \/ Fails /\ ctx' = None /\ AnotherAttempt
    /\ UNCHANGED <<battery, answers, wants, due, shared>>

\* What the dispatcher reads is derived from these registers.
Source(value) == IF value = "soc" THEN {soc_register(model)} ELSE PowerRegisters(model)

\* read_soc_on_open: two requests, whose errors are swallowed.
ReadSoc ==
    /\ job = "soc" /\ ctx # None
    /\ LET there == {v \in {"soc", "power"} : Source(v) \cap missing = {}}
       IN  \E read \in SUBSET there :
               /\ ctx = "broken" => read = {}
               /\ ~Fails => read = there
               /\ current' = current \cup read
    /\ ctx' \in {ctx} \cup (IF Fails THEN {"broken"} ELSE {})
    /\ due' = due \ {"soc"}
    /\ Done
    /\ UNCHANGED <<battery, answers, wants, cached, cachedNew>>

-----------------------------------------------------------------------------
(***************************************************************************)
(* tier_refresh: the registers of a table, one at a time (here, in         *)
(* ascending order).                                                       *)
(***************************************************************************)
Reading(r) == job \in Tier /\ ctx # None /\ r \in todo /\ \A other \in todo : r <= other

ReadRegister(r) ==
    /\ Reading(r) /\ ctx = "good" /\ r \notin missing
    /\ todo' = todo \ {r} /\ streak' = 0
    /\ got' = got \cup {r} /\ gotNew' = gotNew \cup {r}
    /\ UNCHANGED <<battery, answers, ctx, wants, job, attempt, due, shared>>

\* An exception of the firmware: the connection is in order.
Refused(r) ==
    /\ Reading(r) /\ ctx = "good" /\ (r \in missing \/ ~answers)
    /\ todo' = todo \ {r} /\ streak' = 0
    /\ UNCHANGED <<battery, answers, ctx, wants, job, attempt, got, gotNew, due, shared>>

\* Mutants: the threshold is one higher; a wire error is taken for an exception.
Suspect_Above(n) == n > 3
Longer_Reset(n)  == 0

\* WIRE_ERROR_DROP_THRESHOLD
Suspect(n) == n >= 3
Longer(n)  == n + 1

\* A timeout or a garbled answer, which may leave the codec in the middle of a
\* frame; the third in a row drops the connection and ends the refresh.
WireError(r) ==
    /\ Reading(r) /\ Fails
    /\ IF Suspect(Longer(streak))
       THEN ctx' = None /\ todo' = {} /\ streak' = 0
       ELSE ctx' \in {ctx, "broken"} /\ todo' = todo \ {r} /\ streak' = Longer(streak)
    /\ UNCHANGED <<battery, answers, wants, job, attempt, got, gotNew, due, shared>>

\* Mutant: the cache is replaced by what the tier has brought.
Merged_Replace(old, new) == new

Merged(old, new) == old \cup new

\* The values that a fast refresh derives, and those of them that are current.
Derived(registers) == IF job = "fast" THEN {v \in {"soc", "power"} : Source(v) \subseteq registers} ELSE {}

\* The end of a refresh.  One that brought nothing is not stamped, and is due
\* at once.
Collected ==
    /\ job \in Tier /\ todo = {}
    /\ IF got = {} THEN UNCHANGED <<due, shared>>
       ELSE /\ due' = due \ {job}
            /\ cached' = Merged(cached, got)
            /\ cachedNew' = Merged(cachedNew \ got, gotNew)
            /\ current' = (current \ Derived(got)) \cup Derived(gotNew)
    /\ Done
    /\ UNCHANGED <<battery, answers, ctx, wants>>

-----------------------------------------------------------------------------
(***************************************************************************)
(* Around the task.                                                        *)
(***************************************************************************)
\* The dispatcher sends in every cycle; the mailbox keeps the latest.
Send(sp) ==
    /\ wants' = sp
    /\ UNCHANGED <<battery, answers, ctx, job, request, due, shared>>

\* A select takes a branch that is ready at once: no time passes before it.
Ready == job = "select" /\ (wants # None \/ due # {})

Elapse(timer) ==
    /\ timer \in Timers \ due /\ ~Ready
    /\ due' = due \cup {timer}
    /\ UNCHANGED <<battery, answers, ctx, wants, job, request, shared>>

\* The registers of the battery change.
Change ==
    /\ gotNew' = {} /\ cachedNew' = {} /\ current' = {}
    /\ UNCHANGED <<battery, answers, ctx, wants, job, attempt, todo, streak, got, due, cached>>

\* The battery, or the bridge in front of it, fails for a time, or is back.
Weather ==
    /\ answers' = ~answers
    /\ UNCHANGED <<battery, ctx, wants, job, request, due, shared>>

Breaks ==
    /\ ctx = "good" /\ ~answers /\ ctx' = "broken"
    /\ UNCHANGED <<battery, answers, wants, job, request, due, shared>>

Read == \E r \in Sample : ReadRegister(r) \/ Refused(r) \/ WireError(r)
Task ==
    \/ TakeSetpoint \/ PollSoc \/ (\E tier \in Tier : Refresh(tier))
    \/ Connect \/ WriteSetpoint \/ ReadSoc \/ Read \/ Collected
Next ==
    \/ Task
    \/ \E sp \in Sends[tiered] : Send(sp)
    \/ \E timer \in Tier \cup {"soc"} : Elapse(timer)
    \/ Change \/ Weather \/ Breaks

Spec == Init /\ [][Next]_vars

\* The task goes on, the timers run out, and a select that keeps finding its
\* mailbox empty gets to the branch of a timer.
FairSpec ==
    /\ Spec
    /\ WF_vars(Task)
    /\ SF_vars(Refresh("fast") \/ PollSoc) /\ SF_vars(Refresh("slow"))
    /\ SF_vars(Elapse("fast") \/ Elapse("soc")) /\ SF_vars(Elapse("slow"))

-----------------------------------------------------------------------------
(***************************************************************************)
(* The virtual Modbus server, for a unit that it knows.                    *)
(***************************************************************************)
Reply(addr, count) ==
    LET keys == {alias_probe_register(model, (addr + k) % 65536) : k \in 0..(count - 1)}
    IN  CASE cached = {}          -> "ServerDeviceBusy"
          [] cached # {} /\ keys \subseteq cached -> "ok"
          [] OTHER                -> "IllegalDataAddress"

-----------------------------------------------------------------------------
(***************************************************************************)
(* Properties.                                                             *)
(***************************************************************************)
\* The types; a streak is dropped before its third error is counted, and the
\* cache holds nothing that the firmware does not have.
TypeOK ==
    /\ model \in MarstekModel /\ tiered \in BOOLEAN /\ missing \subseteq All
    /\ answers \in BOOLEAN
    /\ ctx \in {None, "good", "broken"} /\ wants \in Sends[tiered] \cup {None}
    /\ job \in {"select", "write", "soc"} \cup Tier
    /\ attempt \in 0..Attempts /\ (job = "write" => attempt # 0)
    /\ streak \in 0..2 /\ due \subseteq Timers
    /\ todo \cap got = {}
    /\ todo \cup got \subseteq IF job \in Tier THEN Table(job) ELSE {}
    /\ gotNew \subseteq got /\ cachedNew \subseteq cached
    /\ cached \subseteq IF tiered THEN All \ missing ELSE {}
    /\ current \subseteq {"soc", "power"}

\* "Merge new readings into the cache (don't replace)": a range that the server
\* has once answered is answered ever after, whichever tier is refreshed and
\* whatever part of a refresh fails.
RangeStaysServed ==
    [][\A q \in Asked : Reply(q[1], q[2]) = "ok" => Reply(q[1], q[2])' = "ok"]_vars

\* The battery answers from some time on, and setpoints leave the loop free again
\* and again.
Undisturbed == <>[]answers /\ []<>Quiet

\* Where the registers stop changing and no more setpoints are to be written, the
\* dispatcher has the SoC and the power as they are, the cache has all that the
\* firmware has, and the probe of Home Assistant is answered.  Without the cache,
\* this takes a connection that does not stay broken: nothing would drop it.
CatchesUp ==
    /\ Undisturbed /\ (tiered \/ []<>(ctx # "broken"))
    /\ <>[][~Change]_vars /\ <>[](job # "write")
    =>
    <>[]/\ \A v \in {"soc", "power"} : Source(v) \cap missing = {} => v \in current
        /\ tiered => cachedNew = All \ missing
        /\ tiered /\ soc_register(model) \notin missing => Reply(32104, 1) = "ok"

\* "On any error we close + reconnect on the next operation": a connection that
\* is broken is dropped, though other errors and exceptions come in between.
Reconnects == Undisturbed /\ tiered => (ctx = "broken" ~> ctx # "broken")
=============================================================================
