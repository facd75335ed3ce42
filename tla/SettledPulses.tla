---------------------------- MODULE SettledPulses ----------------------------
(***************************************************************************)
(* What the pulse mode promises: the batteries that may be reached are     *)
(* offered a change of their target only when every one of them is where   *)
(* it wants to be and none has an offer left; an offer keeps the target    *)
(* within the bounds and is taken at most once, however often it is told;  *)
(* and one that was not taken is gone when the battery is muted.           *)
(***************************************************************************)
EXTENDS Integers

CONSTANTS Battery, MaxPower

VARIABLES
    goal,   \* what each battery wants to do
    power,  \* what its plug shows
    offer,  \* the change it may still take, or 0
    muted   \* the batteries that get no answers

Power == -MaxPower..MaxPower

Init ==
    /\ goal = [b \in Battery |-> 0]
    /\ power = [b \in Battery |-> 0]
    /\ offer = [b \in Battery |-> 0]
    /\ muted = {}

Offer ==
    /\ \A b \in Battery \ muted : offer[b] = 0 /\ power[b] = goal[b]
    /\ DOMAIN offer' = Battery
    /\ \A b \in Battery :
          offer'[b] = 0 \/ (b \notin muted /\ goal[b] + offer'[b] \in Power)
    /\ UNCHANGED <<goal, power, muted>>

\* Taken, refused, or told too rarely to be taken.
Answered(b) ==
    /\ offer[b] # 0
    /\ offer' = [offer EXCEPT ![b] = 0]
    /\ goal' \in {goal, [goal EXCEPT ![b] = @ + offer[b]]}
    /\ UNCHANGED <<power, muted>>

Mute ==
    /\ muted' \subseteq Battery
    /\ offer' = [b \in Battery |-> IF b \in muted' THEN 0 ELSE offer[b]]
    /\ UNCHANGED <<goal, power>>

Drop(b) ==
    /\ b \in muted
    /\ goal' = [goal EXCEPT ![b] = 0]
    /\ UNCHANGED <<power, offer, muted>>

Ramp(b) ==
    /\ \E p \in Power : /\ (power[b] < p /\ p <= goal[b]) \/ (goal[b] <= p /\ p < power[b])
                        /\ power' = [power EXCEPT ![b] = p]
    /\ UNCHANGED <<goal, offer, muted>>

Next == Offer \/ Mute \/ \E b \in Battery : Answered(b) \/ Drop(b) \/ Ramp(b)

Spec == Init /\ [][Next]_<<goal, power, offer, muted>>
=============================================================================
