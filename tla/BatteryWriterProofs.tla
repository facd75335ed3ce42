------------------------ MODULE BatteryWriterProofs ------------------------
(***************************************************************************)
(* For every set of powers, number of retries, number of failing requests  *)
(* and moment of the process's death: the registers of a battery never     *)
(* hold a setpoint against the direction it is forced to.                  *)
(***************************************************************************)
EXTENDS BatteryWriter, TLAPS

Registers == [rs485: {0, 1}, force_mode: 0..2, charge: Power, discharge: Power]

-----------------------------------------------------------------------------
\* A job that starts is a job.
LEMMA StartTyped ==
    ASSUME NEW kind \in JobKind, NEW sp \in Setpoint
    PROVE  Start(kind, sp) \in Job
<1>1. 1 \in 1..Attempts /\ 1 \in 1..5
  BY WriterConstantsOK
<1>2. QED
  BY <1>1 DEF Start, Job

LEMMA StandbyIsSetpoint == Standby \in Setpoint
BY DEF Setpoint

LEMMA SetpointParts ==
    ASSUME NEW sp \in Setpoint
    PROVE  sp.mode \in {0, 1, 2} /\ sp.watts \in Power
BY DEF Setpoint, Standby, Power

\* The writes of a setpoint: what each step may do to the registers.
LEMMA SetpointWritesShape ==
    ASSUME NEW sp \in Setpoint
    PROVE  /\ Len(SetpointWrites(sp)) = 4
           /\ SetpointWrites(sp)[1] = Reg("rs485", 1)
           /\ sp.mode = 0 => /\ SetpointWrites(sp)[2] = Reg("charge", 0)
                             /\ SetpointWrites(sp)[3] = Reg("discharge", 0)
                             /\ SetpointWrites(sp)[4] = Reg("force_mode", 0)
           /\ sp.mode = 1 => /\ SetpointWrites(sp)[2] = Reg("discharge", 0)
                             /\ SetpointWrites(sp)[3] = Reg("force_mode", 1)
                             /\ SetpointWrites(sp)[4] = Reg("charge", sp.watts)
           /\ sp.mode = 2 => /\ SetpointWrites(sp)[2] = Reg("charge", 0)
                             /\ SetpointWrites(sp)[3] = Reg("force_mode", 2)
                             /\ SetpointWrites(sp)[4] = Reg("discharge", sp.watts)
<1>1. sp.mode \in {0, 1, 2}
  BY SetpointParts
<1>2. CASE sp.mode = 0
  BY <1>2 DEF SetpointWrites, ParkWrites
<1>3. CASE sp.mode = 1
  BY <1>3 DEF SetpointWrites
<1>4. CASE sp.mode = 2
  BY <1>4 DEF SetpointWrites
<1>5. QED
  BY <1>1, <1>2, <1>3, <1>4

LEMMA ApplyReg ==
    ASSUME NEW v
    PROVE  /\ Apply(Reg("rs485", v)) = [regs EXCEPT !.rs485 = v]
           /\ Apply(Reg("force_mode", v)) = [regs EXCEPT !.force_mode = v]
           /\ Apply(Reg("charge", v)) = [regs EXCEPT !.charge = v]
           /\ Apply(Reg("discharge", v)) = [regs EXCEPT !.discharge = v]
BY DEF Apply, Reg

\* What a register write of the current job does.
LEMMA ApplyKeeps ==
    ASSUME WriterInv, Busy, job.step <= Len(Writes(job)), NEW r, r = Apply(Writes(job)[job.step])
    PROVE  /\ r \in Registers
           /\ r.force_mode = 1 => r.discharge = 0
           /\ r.force_mode = 2 => r.charge = 0
           /\ job.kind \in {"write", "park"} /\ job.step >= 2 =>
                  (job.sp.mode = 1 => r.discharge = 0) /\ (job.sp.mode = 2 => r.charge = 0)
           /\ job.kind \in {"write", "park"} /\ job.step >= 3 /\ job.sp.mode # 0 =>
                  r.force_mode = job.sp.mode
<1>1. /\ job \in Job /\ job.step \in 1..5 /\ job.sp \in Setpoint
      /\ job.sp.mode \in {0, 1, 2} /\ job.sp.watts \in Power
      /\ regs \in Registers
  BY SetpointParts DEF WriterInv, TypeOK, Job, Registers
<1>2. 0 \in Power
  BY DEF Power
<1>3. CASE job.kind = "init"
  <2>1. Writes(job) = <<Reg("rs485", 1), Reg("force_mode", 0)>>
    BY <1>3 DEF Writes
  <2>2. job.step \in {1, 2}
    BY <1>1, <2>1
  <2>3. Writes(job)[job.step] \in {Reg("rs485", 1), Reg("force_mode", 0)}
    BY <2>1, <2>2
  <2>4. QED
    BY <1>1, <1>3, <2>3 DEF Reg, Apply, Registers, WriterInv, NeverBothWays
<1>4. CASE job.kind = "failsafe"
  <2>1. Writes(job) = <<Reg("force_mode", 0), Reg("rs485", 0)>>
    BY <1>4 DEF Writes
  <2>2. job.step \in {1, 2}
    BY <1>1, <2>1
  <2>3. Writes(job)[job.step] \in {Reg("rs485", 0), Reg("force_mode", 0)}
    BY <2>1, <2>2
  <2>4. QED
    BY <1>1, <1>4, <2>3 DEF Reg, Apply, Registers, WriterInv, NeverBothWays
<1>5. CASE job.kind \in {"write", "park"}
  <2>1. Writes(job) = SetpointWrites(job.sp)
    BY <1>5 DEF Writes
  <2>2. job.step \in {1, 2, 3, 4}
    BY <1>1, <2>1, SetpointWritesShape
  <2>3. CASE job.step = 1
    <3>1. r = [regs EXCEPT !.rs485 = 1]
      BY <1>1, <2>1, <2>3, SetpointWritesShape, ApplyReg
    <3>2. QED
      BY <1>1, <2>3, <3>1 DEF Registers, WriterInv, NeverBothWays
  <2>4. CASE job.step = 2
    <3>1. \/ job.sp.mode = 1 /\ r = [regs EXCEPT !.discharge = 0]
          \/ job.sp.mode \in {0, 2} /\ r = [regs EXCEPT !.charge = 0]
      BY <1>1, <2>1, <2>4, SetpointWritesShape, ApplyReg
    <3>2. QED
      BY <1>1, <1>2, <2>4, <3>1 DEF Registers, WriterInv, NeverBothWays
  <2>5. CASE job.step = 3
    <3>1. \/ job.sp.mode = 0 /\ r = [regs EXCEPT !.discharge = 0]
          \/ job.sp.mode \in {1, 2} /\ r = [regs EXCEPT !.force_mode = job.sp.mode]
      BY <1>1, <2>1, <2>5, SetpointWritesShape, ApplyReg
    <3>2. QED
      BY <1>1, <1>2, <1>5, <2>5, <3>1 DEF Registers, WriterInv, NeverBothWays, ZeroedFirst
  <2>6. CASE job.step = 4
    <3>1. \/ job.sp.mode = 0 /\ r = [regs EXCEPT !.force_mode = 0]
          \/ job.sp.mode = 1 /\ r = [regs EXCEPT !.charge = job.sp.watts]
          \/ job.sp.mode = 2 /\ r = [regs EXCEPT !.discharge = job.sp.watts]
      BY <1>1, <2>1, <2>6, SetpointWritesShape, ApplyReg
    <3>2. /\ job.sp.mode = 1 => regs.discharge = 0 /\ regs.force_mode = 1
          /\ job.sp.mode = 2 => regs.charge = 0 /\ regs.force_mode = 2
      BY <1>5, <2>6 DEF WriterInv, ZeroedFirst
    <3>3. QED
      <4>1. CASE job.sp.mode = 0
        BY <1>1, <3>1, <4>1 DEF Registers
      <4>2. CASE job.sp.mode = 1
        BY <1>1, <3>1, <3>2, <4>2 DEF Registers, WriterInv, NeverBothWays
      <4>3. CASE job.sp.mode = 2
        BY <1>1, <3>1, <3>2, <4>3 DEF Registers, WriterInv, NeverBothWays
      <4>4. QED
        BY <1>1, <4>1, <4>2, <4>3
  <2>7. QED
    BY <2>2, <2>3, <2>4, <2>5, <2>6
<1>6. QED
  BY <1>3, <1>4, <1>5 DEF Busy

-----------------------------------------------------------------------------
LEMMA WriterInit == Init => WriterInv
<1> SUFFICES ASSUME Init PROVE WriterInv
  OBVIOUS
<1>1. job \in Job
  BY StartTyped, StandbyIsSetpoint DEF Init, JobKind
<1>2. TypeOK
  <2>1. regs \in [rs485: {0, 1}, force_mode: 0..2, charge: Power, discharge: Power]
    BY DEF Init, Power
  <2>2. QED
    <3>1. 0 \in 0..MaxFailures
      BY WriterConstantsOK
    <3>2. QED
      BY <1>1, <2>1, <3>1, StandbyIsSetpoint DEF Init, TypeOK
<1>3. NeverBothWays /\ ZeroedFirst
  BY DEF Init, NeverBothWays, ZeroedFirst, Start
<1>4. QED
  BY <1>2, <1>3 DEF WriterInv

\* The writer's job after a request that failed, or after its last write.
LEMMA NextJobTyped ==
    ASSUME NEW kind \in JobKind
    PROVE  NextJob(kind) \in Job /\ NextJob(kind).step = 1
<1>1. NextJob(kind) \in {Start("idle", Standby), Start("failsafe", Standby),
                         Start("gone", Standby)}
  BY DEF NextJob, Idle
<1>2. {"idle", "failsafe", "gone"} \subseteq JobKind
  BY DEF JobKind
<1>3. QED
  BY <1>1, <1>2, StartTyped, StandbyIsSetpoint DEF Start

LEMMA AfterFailureTyped ==
    ASSUME NEW j \in Job
    PROVE  AfterFailure(j) \in Job /\ AfterFailure(j).step = 1
<1>1. CASE j.kind = "init"
  BY <1>1, StartTyped, StandbyIsSetpoint DEF AfterFailure, JobKind, Start
<1>2. CASE j.kind = "write" /\ j.attempt < Attempts
  <2>1. j.attempt + 1 \in 1..Attempts /\ 1 \in 1..5
    BY <1>2, WriterConstantsOK DEF Job
  <2>2. AfterFailure(j) = [j EXCEPT !.attempt = @ + 1, !.step = 1]
    BY <1>2 DEF AfterFailure
  <2>3. QED
    BY <2>1, <2>2 DEF Job
<1>3. CASE ~(j.kind = "init") /\ ~(j.kind = "write" /\ j.attempt < Attempts)
  <2>1. AfterFailure(j) = NextJob(j.kind)
    BY <1>3 DEF AfterFailure
  <2>2. j.kind \in JobKind
    BY DEF Job
  <2>3. QED
    BY <2>1, <2>2, NextJobTyped
<1>4. QED
  BY <1>1, <1>2, <1>3

\* A job at its first step has nothing to have zeroed.
LEMMA FreshJob == ASSUME job'.step = 1 PROVE ZeroedFirst'
BY DEF ZeroedFirst

-----------------------------------------------------------------------------
LEMMA WriterStepKeeps == WriterInv /\ [Next]_vars => WriterInv'
<1> SUFFICES ASSUME WriterInv, [Next]_vars PROVE WriterInv'
  OBVIOUS
<1> USE DEF WriterInv
<1>1. job \in Job /\ job.kind \in JobKind /\ job.sp \in Setpoint /\ job.step \in 1..5
  BY DEF TypeOK, Job
<1>2. CASE SafetyHalf
  <2>1. desired' \in Setpoint /\ changed' \in BOOLEAN
    <3>1. Send(Standby) \/ UNCHANGED mailbox
      BY <1>2 DEF SafetyHalf
    <3>2. QED
      BY <3>1, StandbyIsSetpoint DEF Send, mailbox, TypeOK
  <2>2. UNCHANGED <<writer, grace, failures, unanswered>> /\ phase' = "step"
    BY <1>2 DEF SafetyHalf
  <2>3. QED
    BY <2>1, <2>2 DEF writer, TypeOK, NeverBothWays, ZeroedFirst
<1>3. CASE StepHalf
  <2>1. desired' \in Setpoint /\ changed' \in BOOLEAN
    <3>1. CASE \E sp \in Setpoint : Send(sp)
      BY <3>1 DEF Send
    <3>2. CASE UNCHANGED mailbox
      BY <3>2 DEF mailbox, TypeOK
    <3>3. QED
      BY <1>3, <3>1, <3>2 DEF StepHalf
  <2>2. UNCHANGED <<writer, grace, failures, unanswered>> /\ phase' = "safety"
    BY <1>3 DEF StepHalf
  <2>3. QED
    BY <2>1, <2>2 DEF writer, TypeOK, NeverBothWays, ZeroedFirst
<1>4. CASE Connect
  BY <1>4 DEF Connect, mailbox, TypeOK, NeverBothWays, ZeroedFirst
<1>5. CASE WriteRegister
  <2>1. job' = [job EXCEPT !.step = @ + 1]
    BY <1>5 DEF WriteRegister
  <2>2. Len(Writes(job)) <= 4 /\ (job.kind \in {"init", "failsafe"} => job.step <= 2)
    <3>1. CASE job.kind = "init"
      <4>1. Writes(job) = <<Reg("rs485", 1), Reg("force_mode", 0)>>
        BY <3>1 DEF Writes
      <4>2. QED
        BY <4>1, <1>1, <1>5 DEF WriteRegister
    <3>2. CASE job.kind = "failsafe"
      <4>1. Writes(job) = <<Reg("force_mode", 0), Reg("rs485", 0)>>
        BY <3>2 DEF Writes
      <4>2. QED
        BY <4>1, <1>1, <1>5 DEF WriteRegister
    <3>3. CASE job.kind \in {"write", "park"}
      <4>1. Writes(job) = SetpointWrites(job.sp)
        BY <3>3 DEF Writes
      <4>2. QED
        <5>1. Len(SetpointWrites(job.sp)) = 4
          BY <1>1, SetpointWritesShape
        <5>2. QED
          BY <3>3, <4>1, <5>1
    <3>4. QED
      BY <3>1, <3>2, <3>3, <1>5 DEF WriteRegister, Busy
  <2>3. job.step + 1 \in 1..5
    BY <1>1, <1>5, <2>2 DEF WriteRegister
  <2>4. job' \in Job
    BY <1>1, <2>1, <2>3 DEF Job
  <2>5. /\ regs' \in Registers
        /\ NeverBothWays'
        /\ job.kind \in {"write", "park"} /\ job.step >= 2 =>
               /\ job.sp.mode = 1 => regs'.discharge = 0
               /\ job.sp.mode = 2 => regs'.charge = 0
        /\ job.kind \in {"write", "park"} /\ job.step >= 3 /\ job.sp.mode # 0 =>
               regs'.force_mode = job.sp.mode
    BY <1>5, ApplyKeeps DEF WriteRegister, NeverBothWays
  <2>6. job'.kind = job.kind /\ job'.sp = job.sp /\ job'.step = job.step + 1
    BY <1>1, <2>1 DEF Job
  <2>7. ZeroedFirst'
    BY <1>1, <2>2, <2>5, <2>6 DEF ZeroedFirst
  <2>8. TypeOK'
    BY <1>5, <2>4, <2>5 DEF WriteRegister, mailbox, TypeOK, Registers
  <2>9. QED
    BY <2>5, <2>7, <2>8
<1>6. ASSUME NEW applied \in BOOLEAN, RequestFails(applied) PROVE WriterInv'
  <2>1. job' \in Job /\ job'.step = 1
    BY <1>1, <1>6, AfterFailureTyped DEF RequestFails
  <2>2. regs' \in Registers /\ NeverBothWays'
    <3>1. CASE applied
      BY <1>6, <3>1, ApplyKeeps DEF RequestFails, NeverBothWays
    <3>2. CASE ~applied
      BY <1>6, <3>2 DEF RequestFails, NeverBothWays, TypeOK, Registers
    <3>3. QED
      BY <3>1, <3>2
  <2>3. failures' \in 0..MaxFailures
    BY <1>6, WriterConstantsOK DEF RequestFails, TypeOK
  <2>4. grace' \in 0..ShutdownGrace \cup {None}
    BY <1>6, WriterConstantsOK DEF RequestFails, TypeOK, Alive
  <2>5. TypeOK'
    BY <1>6, <2>1, <2>2, <2>3, <2>4 DEF RequestFails, mailbox, TypeOK, Registers
  <2>6. QED
    BY <2>1, <2>2, <2>5, FreshJob
<1>7. CASE JobDone
  <2>1. job' \in Job /\ job'.step = 1
    BY <1>1, <1>7, NextJobTyped DEF JobDone
  <2>2. TypeOK'
    BY <1>1, <1>7, <2>1 DEF JobDone, mailbox, TypeOK
  <2>3. NeverBothWays'
    BY <1>7 DEF JobDone, NeverBothWays
  <2>4. QED
    BY <2>1, <2>2, <2>3, FreshJob
<1>8. CASE InitAgain
  <2>1. job' \in Job /\ job'.step = 1
    BY <1>8, StartTyped, StandbyIsSetpoint DEF InitAgain, JobKind, Start
  <2>2. QED
    BY <1>8, <2>1, FreshJob DEF InitAgain, mailbox, TypeOK, NeverBothWays
<1>9. CASE TakeSetpoint
  <2>1. job' \in Job
    BY <1>1, <1>9, StartTyped DEF TakeSetpoint, TypeOK, JobKind
  <2>2. ZeroedFirst'
    BY <1>9 DEF TakeSetpoint, ZeroedFirst, Start
  <2>3. QED
    BY <1>9, <2>1, <2>2 DEF TakeSetpoint, TypeOK, NeverBothWays
<1>10. CASE Poll
  BY <1>10 DEF Poll, mailbox, TypeOK, NeverBothWays, ZeroedFirst
<1>11. CASE ShutDown
  <2>1. job' \in Job /\ job'.step = 1
    BY <1>11, StartTyped, StandbyIsSetpoint DEF ShutDown, JobKind, Start
  <2>2. QED
    BY <1>11, <2>1, FreshJob DEF ShutDown, mailbox, TypeOK, NeverBothWays
<1>12. CASE Interrupt
  BY <1>12, WriterConstantsOK
     DEF Interrupt, mailbox, writer, TypeOK, NeverBothWays, ZeroedFirst
<1>13. CASE Elapse
  <2>1. grace' \in 0..ShutdownGrace
    <3>1. grace \in 0..ShutdownGrace /\ grace # 0 /\ grace' = grace - 1
      BY <1>13 DEF Elapse, Alive, TypeOK
    <3>2. ShutdownGrace \in Nat
      BY WriterConstantsOK
    <3>3. QED
      BY <3>1, <3>2
  <2>2. QED
    BY <1>13, <2>1 DEF Elapse, mailbox, writer, TypeOK, NeverBothWays, ZeroedFirst
<1>14. CASE Restart
  <2>1. job' \in Job /\ job'.step = 1
    BY <1>14, StartTyped, StandbyIsSetpoint DEF Restart, JobKind, Start
  <2>2. QED
    BY <1>14, <2>1, FreshJob, StandbyIsSetpoint DEF Restart, TypeOK, NeverBothWays
<1>15. CASE UNCHANGED vars
  BY <1>15 DEF vars, mailbox, writer, TypeOK, NeverBothWays, ZeroedFirst
<1>16. QED
  BY <1>2, <1>3, <1>4, <1>5, <1>6, <1>7, <1>8, <1>9, <1>10, <1>11, <1>12, <1>13, <1>14,
     <1>15 DEF Next

-----------------------------------------------------------------------------
\* The inductive invariant of the writer (modbus.rs, BatteryWriter) holds in
\* every behaviour: the types, NeverBothWays, and that a write which is past
\* its second register has zeroed the direction it turns away from.
THEOREM WriterInvariance == Spec => []WriterInv
<1>1. Init => WriterInv
  BY WriterInit
<1>2. WriterInv /\ [Next]_vars => WriterInv'
  BY WriterStepKeeps
<1>3. QED
  BY <1>1, <1>2, PTL DEF Spec

\* A battery that is forced to charge has no discharge setpoint left, and the
\* other way round, whatever fails and whenever the process dies
\* (write_setpoint_on, "Zero the opposite direction first").
THEOREM OneDirection == Spec => []NeverBothWays
<1>1. WriterInv => NeverBothWays
  BY DEF WriterInv
<1>2. QED
  BY <1>1, WriterInvariance, PTL

-----------------------------------------------------------------------------
(***************************************************************************)
(* The end of the process.  ParkedAtExit is a matter of the order of the   *)
(* shutdown: who is parked has seen the signal, who is gone has had both   *)
(* registers of the failsafe written unless a request failed, and main's   *)
(* wait runs out only for a writer that is gone, that never was            *)
(* initialised, or one of whose requests failed.                           *)
(***************************************************************************)
ExitInv ==
    /\ job.kind \in {"park", "failsafe", "gone"} => grace # None
    /\ last_written # None => job.kind \notin {"init", "init pause"}
    /\ job.kind = "failsafe" /\ job.step > 1 => regs.force_mode = 0
    /\ job.kind = "failsafe" /\ job.step > 2 => regs.rs485 = 0
    /\ job.kind = "gone" /\ ~unanswered => Parked
    /\ grace = 0 /\ last_written # None /\ ~unanswered => job.kind = "gone"

LEMMA ExitInit == Init => ExitInv
<1>1. 0 # None
  BY WriterConstantsOK
<1>2. QED
  BY <1>1 DEF Init, ExitInv, Start

\* A register write of the failsafe, which starts with the force mode.
LEMMA FailsafeWrites ==
    ASSUME WriterInv, ExitInv, WriteRegister, job.kind = "failsafe"
    PROVE  /\ job.step \in {1, 2}
           /\ regs'.force_mode = 0
           /\ job.step = 2 => regs'.rs485 = 0
<1>1. job.step \in 1..5 /\ regs \in Registers
  BY DEF WriterInv, TypeOK, Job, Registers
<1>2. Writes(job) = <<Reg("force_mode", 0), Reg("rs485", 0)>>
  BY DEF Writes
<1>3. job.step \in {1, 2}
  BY <1>1, <1>2 DEF WriteRegister
<1>4. CASE job.step = 1
  <2>1. regs' = [regs EXCEPT !.force_mode = 0]
    BY <1>2, <1>4, ApplyReg DEF WriteRegister
  <2>2. QED
    BY <1>1, <1>4, <2>1 DEF Registers
<1>5. CASE job.step = 2
  <2>1. regs' = [regs EXCEPT !.rs485 = 0]
    BY <1>2, <1>5, ApplyReg DEF WriteRegister
  <2>2. QED
    BY <1>1, <1>5, <2>1 DEF Registers, ExitInv
<1>6. QED
  BY <1>3, <1>4, <1>5

LEMMA ExitStep ==
    ASSUME "SIGTERM" \notin Signals, WriterInv, ExitInv, [Next]_vars
    PROVE  ExitInv'
<1>1. job \in Job /\ job.kind \in JobKind /\ job.step \in 1..5
  BY DEF WriterInv, TypeOK, Job
<1>2. grace \in Nat \cup {None} /\ None \notin Nat /\ ShutdownGrace \in Nat \ {0}
  BY WriterConstantsOK DEF WriterInv, TypeOK
<1>3. CASE SafetyHalf \/ StepHalf \/ Connect \/ Poll \/ UNCHANGED vars
  <2>1. UNCHANGED <<job, regs, last_written, grace, unanswered>>
    BY <1>3 DEF SafetyHalf, StepHalf, Connect, Poll, vars, writer
  <2>2. QED
    BY <2>1 DEF ExitInv, Parked
<1>4. CASE WriteRegister
  <2>1. /\ UNCHANGED <<last_written, grace, unanswered>> /\ grace # 0
        /\ job.kind \in {"init", "write", "park", "failsafe"}
    BY <1>4 DEF WriteRegister, Alive, Busy
  <2>2. job'.kind = job.kind /\ job'.step = job.step + 1
    BY <1>1, <1>4 DEF WriteRegister, Job
  <2>3. CASE job.kind = "failsafe"
    <3>1. job.step \in {1, 2} /\ regs'.force_mode = 0 /\ (job.step = 2 => regs'.rs485 = 0)
      BY <1>4, <2>3, FailsafeWrites
    <3>2. QED
      BY <2>1, <2>2, <2>3, <3>1 DEF ExitInv
  <2>4. CASE job.kind # "failsafe"
    BY <2>1, <2>2, <2>4 DEF ExitInv
  <2>5. QED
    BY <2>3, <2>4
<1>5. ASSUME NEW applied \in BOOLEAN, RequestFails(applied) PROVE ExitInv'
  <2>1. /\ last_written' = last_written /\ unanswered' = (grace # None)
        /\ grace' = IF grace = None THEN None ELSE grace - 1
        /\ job' = AfterFailure(job)
        /\ job.kind \in {"init", "write", "park", "failsafe"}
    BY <1>5 DEF RequestFails, Busy
  <2>2. /\ job'.step = 1
        /\ job'.kind \in {"failsafe", "gone"} => job.kind \in {"park", "failsafe"}
        /\ job'.kind \notin {"park", "init"}
        /\ job'.kind = "init pause" => job.kind = "init"
    BY <1>1, <2>1, AfterFailureTyped DEF AfterFailure, NextJob, Start, Idle, Job
  <2>3. CASE grace = None
    <3>1. grace' = None /\ 0 # None
      BY <1>2, <2>1, <2>3
    <3>2. QED
      BY <2>1, <2>2, <2>3, <3>1 DEF ExitInv
  <2>4. CASE grace # None
    <3>1. unanswered'
      BY <2>1, <2>4, Zenon
    <3>2. grace \in Nat /\ grace # 0 /\ grace' = grace - 1
      BY <1>2, <1>5, <2>1, <2>4 DEF RequestFails, Alive
    <3>3. grace' # None
      BY <1>2, <3>2
    <3>4. last_written' # None => job'.kind \notin {"init", "init pause"}
      BY <2>1, <2>2 DEF ExitInv
    <3>5. ~(job'.step > 1) /\ ~(job'.step > 2)
      <4>1. job'.step = 1
        BY <2>2, Zenon
      <4>2. QED
        BY <4>1
    <3>6. QED
      BY <3>1, <3>3, <3>4, <3>5, Zenon DEF ExitInv
  <2>5. QED
    BY <2>3, <2>4
<1>6. CASE JobDone
  <2>1. /\ UNCHANGED <<regs, grace, unanswered>> /\ grace # 0
        /\ job' = NextJob(job.kind) /\ job.kind \in {"init", "write", "park", "failsafe"}
        /\ job.step > Len(Writes(job))
    BY <1>6 DEF JobDone, Alive, Busy
  <2>2. CASE job.kind \in {"init", "write"}
    <3>1. job'.kind = "idle"
      BY <2>1, <2>2 DEF NextJob, Idle, Start
    <3>2. QED
      BY <2>1, <3>1 DEF ExitInv
  <2>3. CASE job.kind = "park"
    <3>1. job'.kind = "failsafe" /\ job'.step = 1
      BY <2>1, <2>3 DEF NextJob, Start
    <3>2. grace' # None /\ grace' # 0
      BY <2>1, <2>3 DEF ExitInv
    <3>3. ~(job'.step > 1) /\ ~(job'.step > 2)
      BY <3>1
    <3>4. QED
      BY <3>1, <3>2, <3>3, Zenon DEF ExitInv
  <2>4. CASE job.kind = "failsafe"
    <3>1. job'.kind = "gone" /\ job'.step = 1 /\ last_written' = last_written
      BY <1>6, <2>1, <2>4 DEF NextJob, Start, JobDone
    <3>2. Len(Writes(job)) = 2
      BY <2>4 DEF Writes
    <3>3. Parked
      BY <1>1, <2>1, <2>4, <3>2 DEF ExitInv, Parked
    <3>4. Parked'
      BY <2>1, <3>3 DEF Parked
    <3>5. grace' # None /\ grace' # 0
      BY <2>1, <2>4 DEF ExitInv
    <3>6. QED
      BY <3>1, <3>4, <3>5 DEF ExitInv
  <2>5. QED
    BY <2>1, <2>2, <2>3, <2>4
<1>7. CASE InitAgain
  BY <1>7 DEF InitAgain, ExitInv, Alive, Start
<1>8. CASE TakeSetpoint
  <2>1. job'.kind \in {"idle", "write"} /\ grace' = None /\ 0 # None
    BY <1>2, <1>8 DEF TakeSetpoint, Start
  <2>2. QED
    BY <2>1 DEF ExitInv
<1>9. CASE ShutDown
  BY <1>9 DEF ShutDown, ExitInv, Alive, Start
<1>10. CASE Interrupt
  <2>1. grace' = ShutdownGrace /\ UNCHANGED <<job, regs, last_written, unanswered>>
    BY <1>10 DEF Interrupt, writer
  <2>2. grace' # None /\ grace' # 0
    BY <1>2, <2>1
  <2>3. QED
    BY <2>1, <2>2 DEF ExitInv, Parked
<1>11. CASE Elapse
  <2>1. /\ UNCHANGED <<job, regs, last_written, unanswered>>
        /\ job.kind \in {"init pause", "gone"}
    BY <1>11 DEF Elapse, writer
  <2>2. grace' # None
    <3>1. grace \in Nat /\ grace # 0 /\ grace' = grace - 1
      BY <1>2, <1>11 DEF Elapse, Alive
    <3>2. QED
      BY <1>2, <3>1
  <2>3. QED
    BY <2>1, <2>2 DEF ExitInv, Parked
<1>12. CASE Restart
  <2>1. 0 # None
    BY <1>2
  <2>2. QED
    BY <1>12, <2>1 DEF Restart, ExitInv, Start
<1>13. QED
  BY <1>3, <1>4, <1>5, <1>6, <1>7, <1>8, <1>9, <1>10, <1>11, <1>12 DEF Next

\* "force_mode = 0 plus rs485_control = off to every battery before exit": for any
\* powers, retries, failing requests and moments of the signal, a battery that has
\* been initialised and has answered since the signal is in its automatic mode when
\* the process is gone, as long as nobody sends SIGTERM, which has no handler.
THEOREM ParkedBeforeExit ==
    ASSUME "SIGTERM" \notin Signals
    PROVE  Spec => []ParkedAtExit
<1>1. ExitInv => ParkedAtExit
  BY DEF ExitInv, ParkedAtExit, Alive
<1>2. WriterInv /\ ExitInv /\ [Next]_vars => ExitInv'
  BY ExitStep
<1>3. QED
  BY <1>1, <1>2, ExitInit, WriterInvariance, PTL DEF Spec

=============================================================================
