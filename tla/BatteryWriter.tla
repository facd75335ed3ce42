---------------------------- MODULE BatteryWriter ----------------------------
(***************************************************************************)
(* The Modbus writer of one battery (modbus.rs, BatteryWriter), the        *)
(* mailbox through which the dispatcher steers it (ModbusDispatch), what   *)
(* the dispatcher puts there in a cycle (dispatcher.rs, the soft           *)
(* remediation and step_modbus) and the end of the process (main.rs).      *)
(* Writers do not share anything: one battery stands for each of them.     *)
(*                                                                         *)
(* Time is only told after the shutdown signal: a unit is what a request   *)
(* that fails costs, a request that is answered costs nothing.             *)
(***************************************************************************)
EXTENDS Integers, Sequences

CONSTANTS
    Watts,         \* the powers that are commanded, in steps of some watts
    Deadband,      \* WRITE_DEADBAND_W
    Attempts,      \* MODBUS_WRITE_RETRIES + 1
    MaxFailures,   \* bound: the requests that fail in one behaviour
    ShutdownGrace, \* the 5 s main waits for the writers
    Signals,       \* the signals the process may get
    MayOverload,   \* whether the circuit may be in soft remediation
    MayRestart,    \* whether the process may be killed and started anew
    None

ASSUME WriterConstantsOK ==
    /\ Watts \subseteq Nat \ {0}
    /\ {Deadband, Attempts, ShutdownGrace} \subseteq Nat \ {0}
    /\ MaxFailures \in Nat
    /\ Signals \subseteq {"SIGINT", "SIGTERM"}
    /\ {MayOverload, MayRestart} \subseteq BOOLEAN
    /\ None \notin Nat

VARIABLES
    desired,       \* the value of the watch channel
    changed,       \* has the writer not seen it yet?
    last_written,  \* the last setpoint whose write succeeded, or None
    job,           \* what the writer is doing
    connected,     \* does it hold a Modbus connection (ctx)?
    regs,          \* the control registers of the battery
    phase,         \* the half of the dispatcher's cycle that comes next
    grace,         \* time left until main returns; None before the signal
    failures,      \* requests that have failed
    unanswered     \* history: one of them since the signal

mailbox    == <<desired, changed>>
writer     == <<last_written, job, connected, regs>>
vars == <<mailbox, writer, phase, grace, failures, unanswered>>

\* force_mode is 1 to charge, 2 to discharge.
Standby  == [mode |-> 0, watts |-> 0]
Setpoint == {Standby} \cup [mode: {1, 2}, watts: Watts]
JobKind  == {"init", "init pause", "idle", "write", "park", "failsafe", "gone"}
Job      == [kind: JobKind, sp: Setpoint, attempt: 1..Attempts, step: 1..5]
Register == {"rs485", "force_mode", "charge", "discharge"}
Power    == Watts \cup {0}

TypeOK ==
    /\ desired \in Setpoint
    /\ changed \in BOOLEAN
    /\ last_written \in Setpoint \cup {None}
    /\ job \in Job
    /\ connected \in BOOLEAN
    /\ regs \in [rs485: {0, 1}, force_mode: 0..2, charge: Power, discharge: Power]
    /\ phase \in {"safety", "step"}
    /\ grace \in 0..ShutdownGrace \cup {None}
    /\ failures \in 0..MaxFailures
    /\ unanswered \in BOOLEAN

Start(kind, sp) == [kind |-> kind, sp |-> sp, attempt |-> 1, step |-> 1]

Init ==
    /\ desired = Standby /\ changed = FALSE
    /\ last_written = None
    /\ job = Start("init", Standby)
    /\ connected = FALSE
    /\ regs = [rs485 |-> 0, force_mode |-> 0, charge |-> 0, discharge |-> 0]
    /\ phase = "safety"
    /\ grace = None
    /\ failures = 0 /\ unanswered = FALSE

Alive == grace # 0

-----------------------------------------------------------------------------
(***************************************************************************)
(* The dispatcher's cycle, in two halves between which the writer may run. *)
(***************************************************************************)
Send(sp) == desired' = sp /\ changed' = TRUE

\* enforce_circuit_safety: Standby to a circuit over its cap, the soft remediation.
SafetyHalf ==
    /\ Alive /\ phase = "safety"
    /\ \/ MayOverload /\ Send(Standby)
       \/ UNCHANGED mailbox
    /\ phase' = "step"
    /\ UNCHANGED <<writer, grace, failures, unanswered>>

\* step_modbus: Standby where the grid is stale, nothing where the battery is
\* cut or its circuit muted, and else the target, whatever soft remediation says.
StepHalf ==
    /\ Alive /\ phase = "step"
    /\ \/ \E sp \in Setpoint : Send(sp)
       \/ UNCHANGED mailbox
    /\ phase' = "safety"
    /\ UNCHANGED <<writer, grace, failures, unanswered>>

-----------------------------------------------------------------------------
(***************************************************************************)
(* The register writes of each job.                                        *)
(***************************************************************************)
Reg(r, v) == [reg |-> r, value |-> v]

ParkWrites == <<Reg("rs485", 1), Reg("charge", 0), Reg("discharge", 0),
                Reg("force_mode", 0)>>

\* Mutant: the opposite direction is zeroed last.
SetpointWrites_ZeroLast(sp) ==
    IF sp.mode = 0 THEN ParkWrites
    ELSE IF sp.mode = 1
    THEN <<Reg("rs485", 1), Reg("force_mode", 1), Reg("charge", sp.watts),
           Reg("discharge", 0)>>
    ELSE <<Reg("rs485", 1), Reg("force_mode", 2), Reg("discharge", sp.watts),
           Reg("charge", 0)>>

SetpointWrites(sp) ==
    IF sp.mode = 0 THEN ParkWrites
    ELSE IF sp.mode = 1
    THEN <<Reg("rs485", 1), Reg("discharge", 0), Reg("force_mode", 1),
           Reg("charge", sp.watts)>>
    ELSE <<Reg("rs485", 1), Reg("charge", 0), Reg("force_mode", 2),
           Reg("discharge", sp.watts)>>

Writes(j) ==
    CASE j.kind = "init"              -> <<Reg("rs485", 1), Reg("force_mode", 0)>>
      [] j.kind \in {"write", "park"} -> SetpointWrites(j.sp)
      [] j.kind = "failsafe"          -> <<Reg("force_mode", 0), Reg("rs485", 0)>>
      [] OTHER                        -> <<>>

Idle == Start("idle", Standby)
Busy == job.kind \in {"init", "write", "park", "failsafe"}

\* After the park the connection is dropped and the failsafe opens its own.
\* Mutant: the writer is gone once the battery is parked.
NextJob_NoFailsafe(kind) ==
    CASE kind \in {"init", "write"} -> Idle
      [] OTHER                      -> Start("gone", Standby)

NextJob(kind) ==
    CASE kind \in {"init", "write"} -> Idle
      [] kind = "park"              -> Start("failsafe", Standby)
      [] OTHER                      -> Start("gone", Standby)

\* Mutant: the retries of a write are not counted.
AfterFailure_Uncounted(j) ==
    CASE j.kind = "init"  -> Start("init pause", Standby)
      [] j.kind = "write" -> [j EXCEPT !.attempt = @ + 1, !.step = 1]
      [] OTHER            -> NextJob(j.kind)

AfterFailure(j) ==
    CASE j.kind = "init" -> Start("init pause", Standby)
      [] j.kind = "write" /\ j.attempt < Attempts ->
             [j EXCEPT !.attempt = @ + 1, !.step = 1]
      [] OTHER -> NextJob(j.kind)

-----------------------------------------------------------------------------
Connect ==
    /\ Alive /\ Busy /\ ~connected
    /\ connected' = TRUE
    /\ UNCHANGED <<mailbox, last_written, job, regs, phase, grace, failures,
                   unanswered>>

Apply(w) == [regs EXCEPT ![w.reg] = w.value]

WriteRegister ==
    /\ Alive /\ Busy /\ connected
    /\ job.step <= Len(Writes(job))
    /\ regs' = Apply(Writes(job)[job.step])
    /\ job' = [job EXCEPT !.step = @ + 1]
    /\ UNCHANGED <<mailbox, last_written, connected, phase, grace, failures,
                   unanswered>>

\* A connect or a write fails; the battery may have applied the write.  The
\* connection is dropped.
RequestFails(applied) ==
    /\ Alive /\ Busy
    /\ failures < MaxFailures
    /\ job.step <= Len(Writes(job))
    /\ applied => connected
    /\ regs' = IF applied THEN Apply(Writes(job)[job.step]) ELSE regs
    /\ job' = AfterFailure(job)
    /\ connected' = FALSE
    /\ failures' = failures + 1
    /\ unanswered' = (grace # None)
    /\ grace' = IF grace = None THEN None ELSE grace - 1
    /\ UNCHANGED <<mailbox, last_written, phase>>

JobDone ==
    /\ Alive /\ Busy
    /\ job.step > Len(Writes(job))
    /\ job' = NextJob(job.kind)
    /\ last_written' = IF job.kind \in {"init", "write"} THEN job.sp ELSE last_written
    /\ connected' = (connected /\ job.kind \in {"init", "write"})
    /\ UNCHANGED <<mailbox, regs, phase, grace, failures, unanswered>>

InitAgain ==
    /\ Alive /\ job.kind = "init pause"
    /\ job' = Start("init", Standby)
    /\ UNCHANGED <<mailbox, last_written, connected, regs, phase, grace, failures,
                   unanswered>>

-----------------------------------------------------------------------------
(***************************************************************************)
(* The select of the idle writer, shutdown first.                          *)
(***************************************************************************)
Signed(sp) == IF sp.mode = 1 THEN -sp.watts ELSE sp.watts
Distance(x, y) == IF x < y THEN y - x ELSE x - y

should_write(sp) ==
    \/ last_written = None
    \/ sp.mode # last_written.mode
    \/ Distance(Signed(sp), Signed(last_written)) >= Deadband

\* Mutant: the deadband is measured from the last setpoint seen.
TakeSetpoint_Drifts ==
    /\ Alive /\ job.kind = "idle" /\ grace = None /\ changed
    /\ changed' = FALSE
    /\ IF should_write(desired)
       THEN job' = Start("write", desired) /\ UNCHANGED last_written
       ELSE last_written' = desired /\ UNCHANGED job
    /\ UNCHANGED <<desired, connected, regs, phase, grace, failures, unanswered>>

TakeSetpoint ==
    /\ Alive /\ job.kind = "idle" /\ grace = None /\ changed
    /\ changed' = FALSE
    /\ job' = IF should_write(desired) THEN Start("write", desired) ELSE job
    /\ UNCHANGED <<desired, last_written, connected, regs, phase, grace, failures,
                   unanswered>>

\* The reads that share the connection may open it, or fail and drop it.
Poll ==
    /\ Alive /\ job.kind = "idle" /\ grace = None
    /\ connected' = ~connected
    /\ UNCHANGED <<mailbox, last_written, job, regs, phase, grace, failures,
                   unanswered>>

ShutDown ==
    /\ Alive /\ job.kind = "idle" /\ grace # None
    /\ job' = Start("park", Standby)
    /\ UNCHANGED <<mailbox, last_written, connected, regs, phase, grace, failures,
                   unanswered>>

-----------------------------------------------------------------------------
(***************************************************************************)
(* The end of the process.  Ctrl-C makes main wait for the writers for a   *)
(* while; SIGTERM has no handler.                                          *)
(***************************************************************************)
Interrupt ==
    /\ Alive
    /\ \/ "SIGINT" \in Signals /\ grace = None /\ grace' = ShutdownGrace
       \/ "SIGTERM" \in Signals /\ grace' = 0
    /\ UNCHANGED <<mailbox, writer, phase, failures, unanswered>>

\* Main's sleep goes on while the writer pauses, or has nothing left to do.
Elapse ==
    /\ grace # None /\ Alive
    /\ job.kind \in {"init pause", "gone"}
    /\ grace' = grace - 1
    /\ UNCHANGED <<mailbox, writer, phase, failures, unanswered>>

\* Killed or not, a new process starts with what the battery has kept.
Restart ==
    /\ MayRestart
    /\ desired' = Standby /\ changed' = FALSE
    /\ last_written' = None
    /\ job' = Start("init", Standby)
    /\ connected' = FALSE
    /\ phase' = "safety"
    /\ grace' = None
    /\ unanswered' = FALSE
    /\ UNCHANGED <<regs, failures>>

Next ==
    \/ SafetyHalf
    \/ StepHalf
    \/ Connect
    \/ WriteRegister
    \/ \E applied \in BOOLEAN : RequestFails(applied)
    \/ JobDone
    \/ InitAgain
    \/ TakeSetpoint
    \/ Poll
    \/ ShutDown
    \/ Interrupt
    \/ Elapse
    \/ Restart

Spec == Init /\ [][Next]_vars

(***************************************************************************)
(* Fairness: the dispatcher's interval ticks on, and the writer's task is  *)
(* polled while it can do something.                                       *)
(***************************************************************************)
WriterStep == Connect \/ WriteRegister \/ JobDone \/ InitAgain \/ TakeSetpoint

FairSpec == Spec /\ WF_vars(SafetyHalf) /\ WF_vars(StepHalf) /\ WF_vars(WriterStep)

-----------------------------------------------------------------------------
(***************************************************************************)
(* Properties.                                                             *)
(***************************************************************************)

\* Whatever request fails, at whatever step of whatever write, and wherever
\* the process dies in between: a battery that is forced to charge has no
\* discharge setpoint left in its registers, and the other way round.
NeverBothWays ==
    /\ regs.force_mode = 1 => regs.discharge = 0
    /\ regs.force_mode = 2 => regs.charge = 0

\* What the battery is forced to.
Follows(sp) ==
    /\ regs.rs485 = 1 /\ regs.force_mode = sp.mode
    /\ sp.mode = 1 => Distance(regs.charge, sp.watts) < Deadband
    /\ sp.mode = 2 => Distance(regs.discharge, sp.watts) < Deadband

\* "Direct setpoint writes ... every cycle": a setpoint that the dispatcher
\* keeps sending is at last what the battery does, to within the deadband, and
\* stays it -- whatever came before it, restarts of the process included, and
\* whichever requests fail on the way, as long as no write needs its last
\* attempt (one that is given up leaves registers nobody knows of).
FollowsLatest ==
    \A sp \in Setpoint :
        /\ <>[](desired = sp /\ grace = None) /\ []<>changed
        /\ [](job.kind = "write" => job.attempt < Attempts)
        /\ <>[][~Restart]_vars
        => <>[]Follows(sp)

Parked == regs.force_mode = 0 /\ regs.rs485 = 0

\* "force_mode = 0 plus rs485_control = off to every battery before exit": a
\* battery that has been initialised, and has answered every request since the
\* signal, is back in its automatic mode when the process is gone.
ParkedAtExit == ~Alive /\ last_written # None /\ ~unanswered => Parked

-----------------------------------------------------------------------------
(***************************************************************************)
(* The inductive invariant.                                                *)
(***************************************************************************)

\* A write has zeroed the opposite direction before it sets the force mode, and
\* has set the mode before it sets the power.
ZeroedFirst ==
    /\ job.kind \in {"init", "failsafe"} => job.step <= 3
    /\ job.kind \in {"write", "park"} /\ job.step > 2 =>
           (job.sp.mode = 1 => regs.discharge = 0) /\ (job.sp.mode = 2 => regs.charge = 0)
    /\ job.kind \in {"write", "park"} /\ job.step > 3 /\ job.sp.mode # 0 =>
           regs.force_mode = job.sp.mode

WriterInv == TypeOK /\ NeverBothWays /\ ZeroedFirst

=============================================================================
