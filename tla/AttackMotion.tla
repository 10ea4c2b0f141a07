---------------------------- MODULE AttackMotion ----------------------------
(* The attack motion of a ground unit (rts/Sim/Units/Unit.cpp, the firing of *)
(* its weapons in rts/Sim/Weapons/Weapon.cpp).  A unit type whose definition *)
(* sets attackCannotMove brakes before its first weapon fires, stands still  *)
(* during the windup, the shots of the salvo and the recovery, and is free   *)
(* again afterwards.  Orders, impulses, stuns, scripts and transporters      *)
(* interrupt it between any two steps of the frame; a transporter that dies, *)
(* a skid or a script can also set the unit's velocity and interrupt nothing.*)
(*                                                                           *)
(* The program keeps frame numbers; the module keeps the frames that are     *)
(* left until then, 0 for "now or in the past", so that time needs no bound. *)
(* Left out: stockpiled ammunition, forceUseWeapons, the state of a skid     *)
(* (what it does to the speed is PushUnit), and why a weapon cannot aim, pay *)
(* for a shot or reach its target (each is a choice).                        *)
EXTENDS Integers

CONSTANTS
    NumWeapons,         \* weapons of the unit, numbered from 0
    SalvoSize,          \* shots of one attack, per weapon
    SalvoWindup,        \* frames between firing and the first shot
    SalvoDelay,         \* frames between two shots
    ReloadTime,         \* frames between two attacks
    AttackRecoveryTime, \* frames the unit stands still after the last shot
    MaxSpeed,           \* bound: 0 satisfies attackStartSpeedThreshold, each
                        \* frame of braking takes 1
    CannotMove,         \* the values of attackCannotMove that are considered
    Revalidate,         \* the same for revalidateTargetOnSalvo
    HoldOutOfArc,       \* the same for BURST_CONTROL_OUT_OF_ARC_HOLD
    HitsItself          \* whether what a shot does may interrupt the shooter
                        \* before the shot is noted

Weapons == 0 .. NumWeapons - 1

ASSUME AttackMotionAssumption ==
    /\ NumWeapons \in Nat \ {0}
    /\ SalvoSize \in [Weapons -> Nat \ {0}]
    /\ SalvoWindup \in [Weapons -> Nat]
    /\ SalvoDelay \in [Weapons -> Nat]
    /\ ReloadTime \in [Weapons -> Nat]
    /\ AttackRecoveryTime \in Nat
    /\ MaxSpeed \in Nat
    /\ CannotMove \subseteq BOOLEAN /\ Revalidate \subseteq BOOLEAN
    /\ HoldOutOfArc \subseteq BOOLEAN /\ HitsItself \subseteq BOOLEAN

VARIABLES
    attackCannotMove, revalidate, holdOutOfArc, \* the definitions' switches
    step,        \* what the frame does next: "unit", "weapons", "fire", "salvo"
    current,     \* the weapon whose turn it is
    motion,      \* the attackMotion fields of the unit
    weapon,      \* salvo and reload of every weapon
    speed,       \* horizontal speed of the unit
    target,      \* the weapons that have a target
    scripted, stunned, transported, holdsFire,
    attack       \* history of the first weapon's last attack: whether a shot
                 \* was released, whether the unit could be locked at its
                 \* start, the speed of a push that no braking undid yet

definitions == <<attackCannotMove, revalidate, holdOutOfArc>>
frame == <<step, current>>
circumstances == <<target, scripted, stunned, transported, holdsFire>>
vars == <<definitions, frame, motion, weapon, speed, circumstances, attack>>

Phases == {"Mobile", "StoppingForAttack", "AttackWindup", "AttackRelease",
           "AttackRecovery"}

(* ResetAttackMotionState.  started says that attackMotionStartFrame is set, *)
(* sinceRelease how much of the recovery the last release has left, endFrame *)
(* is -1 when there is none.                                                 *)
NoMotion ==
    [phase |-> "Mobile", weaponNum |-> -1, started |-> FALSE,
     sinceRelease |-> 0, endFrame |-> -1,
     hasReleased |-> FALSE, finalRelease |-> FALSE]

FreshWeapon == [reload |-> 0, previousReload |-> 0, salvoLeft |-> 0, nextSalvo |-> 0]

-----------------------------------------------------------------------------
(* What the functions of the unit and of the weapon read and compute.        *)

SupportsAttackMoveLock == ~scripted
MayLock == attackCannotMove /\ SupportsAttackMoveLock
LockedIn(m) == MayLock /\ m.phase # "Mobile"
IsAttackMovementLocked == LockedIn(motion)
IsAttackStartSpeedSatisfied == speed = 0
CanUpdateWeapons == ~holdsFire /\ ~stunned
IsStoppingForAttack(m, w) == m.phase = "StoppingForAttack" /\ m.weaponNum = w

(* CWeapon::CancelAttackMotion: the pending shots are dropped, the reload is *)
(* given back when nothing was shot.                                         *)
WeaponCancelled(wpn, refund) ==
    LET reload == IF refund THEN wpn.previousReload ELSE wpn.reload
    IN  [reload |-> reload, previousReload |-> reload, salvoLeft |-> 0,
         nextSalvo |-> IF wpn.salvoLeft > 0 THEN 0 ELSE wpn.nextSalvo]

(* CUnit::CancelAttackMotion: the weapons after it; the motion is reset.     *)
WeaponsAlwaysRefunded(m, weapons, refund) ==
    IF m.weaponNum \in Weapons
    THEN [weapons EXCEPT ![m.weaponNum] = WeaponCancelled(@, refund /\ m.started)]
    ELSE weapons

WeaponsCancelled(m, weapons, refund) ==
    IF m.weaponNum \in Weapons
    THEN [weapons EXCEPT ![m.weaponNum] =
              WeaponCancelled(@, refund /\ ~m.hasReleased /\ m.started)]
    ELSE weapons

CancelIf(condition, m, weapons, refund) ==
    /\ motion' = IF condition THEN NoMotion ELSE m
    /\ weapon' = IF condition THEN WeaponsCancelled(m, weapons, refund) ELSE weapons

(* CUnit::RequestAttackStop: the motion after it; the answer is AnswersStop. *)
StopRequested(m, w) ==
    IF w = 0 /\ MayLock /\ m.phase = "Mobile"
    THEN [NoMotion EXCEPT !.phase = "StoppingForAttack", !.weaponNum = w]
    ELSE m
AnswersStop(w) == (w = 0 /\ MayLock) => IsAttackStartSpeedSatisfied

BeginMotionOfAnyWeapon(m, w) ==
    [NoMotion EXCEPT !.phase = "AttackWindup", !.weaponNum = w, !.started = TRUE]

BeginAttackMotion(m, w) ==
    IF w = 0
    THEN [NoMotion EXCEPT !.phase = "AttackWindup", !.weaponNum = w, !.started = TRUE]
    ELSE m

NotifyAttackReleased(m, w, finalShot) ==
    IF m.weaponNum # w \/ ~m.started THEN m
    ELSE [m EXCEPT !.phase = "AttackRelease", !.hasReleased = TRUE,
                   !.finalRelease = finalShot,
                   !.sinceRelease = AttackRecoveryTime,
                   !.endFrame = IF finalShot THEN AttackRecoveryTime ELSE -1]

FinishAttackMotion(m, w) ==
    IF m.weaponNum # w THEN m
    ELSE IF ~m.hasReleased THEN NoMotion
    ELSE [m EXCEPT !.finalRelease = TRUE, !.endFrame = m.sinceRelease,
                   !.phase = IF m.sinceRelease > 0 THEN "AttackRecovery"
                                                   ELSE "AttackRelease"]

-----------------------------------------------------------------------------
Init ==
    /\ attackCannotMove \in CannotMove
    /\ revalidate \in Revalidate
    /\ holdOutOfArc \in HoldOutOfArc
    /\ step = "unit" /\ current = 0
    /\ motion = NoMotion
    /\ weapon = [w \in Weapons |-> FreshWeapon]
    /\ speed = 0
    /\ target = {}
    /\ scripted = FALSE /\ stunned = FALSE
    /\ transported = FALSE /\ holdsFire = FALSE
    /\ attack = [fired |-> FALSE, mayLock |-> FALSE, pushed |-> 0]

-----------------------------------------------------------------------------
(* A frame: the unit moves and is updated, then its weapons, one by one.     *)

OneLess(n) == IF n > 0 THEN n - 1 ELSE n
AgedMotion == [motion EXCEPT !.sinceRelease = OneLess(@), !.endFrame = OneLess(@)]
(* Paralyzed weapons do not reload: their reloadStatus moves with the frame. *)
AgedWeapons ==
    [w \in Weapons |->
        [weapon[w] EXCEPT !.reload = IF stunned THEN @ ELSE OneLess(@),
                          !.previousReload = OneLess(@),
                          !.nextSalvo = OneLess(@)]]

(* The phase at the start of CUnit::Update.                                  *)
NextPhase(m) ==
    IF m.phase = "AttackRelease" /\ ~m.finalRelease
    THEN [m EXCEPT !.phase = "AttackWindup"]
    ELSE IF m.phase = "AttackRelease" /\ m.endFrame > 0
    THEN [m EXCEPT !.phase = "AttackRecovery"]
    ELSE IF m.phase \in {"AttackRelease", "AttackRecovery"} /\ m.endFrame <= 0
    THEN NoMotion
    ELSE m

(* The ground move type brakes a locked or stunned unit.                     *)
SpeedsWithoutBrake == 0 .. MaxSpeed

SpeedsOfTheFrame ==
    IF transported \/ scripted THEN 0 .. MaxSpeed
    ELSE IF IsAttackMovementLocked \/ stunned THEN {OneLess(speed)}
    ELSE 0 .. MaxSpeed

UpdateUnit ==
    /\ step = "unit"
    /\ speed' \in SpeedsOfTheFrame
    /\ LET m == NextPhase(AgedMotion)
       IN  CancelIf(transported /\ LockedIn(m), m, AgedWeapons, FALSE)
    /\ attack' = [attack EXCEPT !.pushed = OneLess(@)]
    /\ step' = "weapons"
    /\ UNCHANGED <<definitions, current, circumstances>>

UpdateWeapons ==
    /\ step = "weapons"
    /\ step' = IF CanUpdateWeapons THEN "fire" ELSE "unit"
    /\ current' = 0
    /\ UNCHANGED <<definitions, motion, weapon, speed, circumstances, attack>>

(* The timers and the target among the conditions of CanFireImpl.            *)
Ready(w) ==
    /\ weapon[w].salvoLeft = 0 /\ weapon[w].nextSalvo = 0
    /\ weapon[w].reload = 0
    /\ w \in target

ToSalvo == step' = "salvo" /\ UNCHANGED current
InFire(w) == step = "fire" /\ w = current

(* UpdateFire returns early: not ready, no aim, no line of fire, no means.   *)
CannotFireKeepsStopping(w) ==
    /\ InFire(w)
    /\ ToSalvo
    /\ UNCHANGED <<definitions, motion, weapon, speed, circumstances, attack>>

CannotFire(w) ==
    /\ InFire(w)
    /\ CancelIf(IsStoppingForAttack(motion, w), motion, weapon, FALSE)
    /\ ToSalvo
    /\ UNCHANGED <<definitions, speed, circumstances, attack>>

(* The unit is still too fast.                                               *)
Brake(w) ==
    /\ InFire(w)
    /\ Ready(w) /\ ~AnswersStop(w)
    /\ motion' = StopRequested(motion, w)
    /\ ToSalvo
    /\ UNCHANGED <<definitions, weapon, speed, circumstances, attack>>

(* The script blocks the shot, or the resources are gone after all.          *)
BlockShot(w) ==
    /\ InFire(w)
    /\ Ready(w) /\ AnswersStop(w)
    /\ LET m == StopRequested(motion, w)
       IN  CancelIf(IsStoppingForAttack(m, w), m, weapon, FALSE)
    /\ ToSalvo
    /\ UNCHANGED <<definitions, speed, circumstances, attack>>

NewAttack == [fired |-> FALSE, mayLock |-> MayLock, pushed |-> 0]

(* The attack is committed: reload and windup start.                         *)
CommitForgetsPrevious(w) ==
    /\ InFire(w)
    /\ Ready(w) /\ AnswersStop(w)
    /\ weapon' = [weapon EXCEPT ![w] =
           [reload |-> ReloadTime[w], previousReload |-> ReloadTime[w],
            salvoLeft |-> SalvoSize[w], nextSalvo |-> SalvoWindup[w]]]
    /\ motion' = BeginAttackMotion(StopRequested(motion, w), w)
    /\ attack' = IF w = 0 THEN NewAttack ELSE attack
    /\ ToSalvo
    /\ UNCHANGED <<definitions, speed, circumstances>>

Commit(w) ==
    /\ InFire(w)
    /\ Ready(w) /\ AnswersStop(w)
    /\ weapon' = [weapon EXCEPT ![w] =
           [reload |-> ReloadTime[w], previousReload |-> @.reload,
            salvoLeft |-> SalvoSize[w], nextSalvo |-> SalvoWindup[w]]]
    /\ motion' = BeginAttackMotion(StopRequested(motion, w), w)
    /\ attack' = IF w = 0 THEN NewAttack ELSE attack
    /\ ToSalvo
    /\ UNCHANGED <<definitions, speed, circumstances>>

-----------------------------------------------------------------------------
(* UpdateSalvo.                                                              *)

InSalvo(w) == step = "salvo" /\ w = current
ShotDue(w) == weapon[w].salvoLeft > 0 /\ weapon[w].nextSalvo = 0
NextWeapon(w) ==
    IF w + 1 \in Weapons THEN step' = "fire" /\ current' = w + 1
                         ELSE step' = "unit" /\ current' = 0

NoShotDue(w) ==
    /\ InSalvo(w)
    /\ ~ShotDue(w)
    /\ NextWeapon(w)
    /\ UNCHANGED <<definitions, motion, weapon, speed, circumstances, attack>>

(* The target is out of reach before the first shot of the salvo.            *)
FailFirstRelease(w) ==
    /\ InSalvo(w)
    /\ ShotDue(w) /\ revalidate /\ weapon[w].salvoLeft = SalvoSize[w]
    /\ CancelIf(motion.phase # "Mobile", motion, weapon, TRUE)
    /\ NextWeapon(w)
    /\ UNCHANGED <<definitions, speed, circumstances, attack>>

(* The target is out of reach after the first shot.                          *)
EndSalvoEarly(w) ==
    /\ InSalvo(w)
    /\ ShotDue(w) /\ revalidate /\ weapon[w].salvoLeft < SalvoSize[w]
    /\ weapon' = [weapon EXCEPT ![w].salvoLeft = 0, ![w].nextSalvo = 0]
    /\ motion' = FinishAttackMotion(motion, w)
    /\ NextWeapon(w)
    /\ UNCHANGED <<definitions, speed, circumstances, attack>>

ShotTaken(w) ==
    [weapon EXCEPT ![w].salvoLeft = @ - 1, ![w].nextSalvo = SalvoDelay[w]]
TargetReachable(w) == revalidate => w \in target

(* The shot is held back because the target left the arc of fire.            *)
HoldShotUnfinished(w) ==
    /\ InSalvo(w)
    /\ ShotDue(w) /\ TargetReachable(w) /\ holdOutOfArc
    /\ weapon' = ShotTaken(w)
    /\ NextWeapon(w)
    /\ UNCHANGED <<definitions, motion, speed, circumstances, attack>>

HoldShot(w) ==
    /\ InSalvo(w)
    /\ ShotDue(w) /\ TargetReachable(w) /\ holdOutOfArc
    /\ weapon' = ShotTaken(w)
    /\ motion' = IF weapon'[w].salvoLeft = 0 THEN FinishAttackMotion(motion, w)
                                             ELSE motion
    /\ NextWeapon(w)
    /\ UNCHANGED <<definitions, speed, circumstances, attack>>

(* The shot leaves.  What it does may come back at once, as an impulse or as *)
(* the order of a script that saw the target die, and cancel the motion      *)
(* before the release is noted.                                              *)
Release(w) ==
    /\ InSalvo(w)
    /\ ShotDue(w) /\ TargetReachable(w)
    /\ \E interrupted \in HitsItself :
          LET cancelled == interrupted /\ IsAttackMovementLocked
              m == IF cancelled THEN NoMotion ELSE motion
          IN  /\ weapon' = IF cancelled
                           THEN WeaponsCancelled(motion, ShotTaken(w), TRUE)
                           ELSE ShotTaken(w)
              /\ motion' = NotifyAttackReleased(m, w, weapon'[w].salvoLeft = 0)
    /\ attack' = IF w = 0 THEN [attack EXCEPT !.fired = TRUE] ELSE attack
    /\ NextWeapon(w)
    /\ UNCHANGED <<definitions, speed, circumstances>>

FrameStep ==
    \/ UpdateUnit
    \/ UpdateWeapons
    \/ \E w \in Weapons :
          \/ CannotFire(w) \/ Brake(w) \/ BlockShot(w) \/ Commit(w)
          \/ NoShotDue(w) \/ FailFirstRelease(w) \/ EndSalvoEarly(w)
          \/ HoldShot(w) \/ Release(w)

-----------------------------------------------------------------------------
(* What reaches the unit between two steps of the frame: script callbacks    *)
(* and Lua run in the middle of a weapon's update, too.                      *)

(* A Move order given directly, neither queued nor internal.                 *)
GiveMove ==
    /\ IsAttackMovementLocked
    /\ CancelIf(TRUE, motion, weapon, TRUE)
    /\ UNCHANGED <<definitions, frame, speed, circumstances, attack>>

(* An impulse pushes the unit, or its transporter in its place.              *)
ApplyImpulse ==
    /\ CancelIf(IsAttackMovementLocked, motion, weapon, TRUE)
    /\ speed' \in IF transported THEN {speed} ELSE 0 .. MaxSpeed
    /\ UNCHANGED <<definitions, frame, circumstances, attack>>

SetStunned(stun) ==
    /\ CancelIf(stun /\ IsAttackMovementLocked, motion, weapon, FALSE)
    /\ stunned' = stun

Paralyze ==
    /\ \E stun \in BOOLEAN : SetStunned(stun)
    /\ UNCHANGED <<definitions, frame, speed, target, scripted, transported,
                   holdsFire, attack>>

Pushed == [attack EXCEPT !.pushed = IF motion.started THEN speed' ELSE 0]

(* The velocity is set with no word to the attack: by a script               *)
(* (SetUnitVelocity), a collision with a skidding unit, a frame of a skid.   *)
PushUnit ==
    /\ speed' \in 0 .. MaxSpeed
    /\ attack' = Pushed
    /\ UNCHANGED <<definitions, frame, motion, weapon, circumstances>>

(* A fire platform does not stun whom it carries; the engine stops at once.  *)
AttachUnit ==
    /\ ~transported
    /\ transported' = TRUE
    /\ \E isFirePlatform \in BOOLEAN : SetStunned(~isFirePlatform)
    /\ speed' = IF scripted THEN speed ELSE 0
    /\ UNCHANGED <<definitions, frame, target, scripted, holdsFire, attack>>

DetachUnit ==
    /\ transported
    /\ transported' = FALSE
    /\ \E paralyzed \in BOOLEAN : SetStunned(paralyzed)
    /\ UNCHANGED <<definitions, frame, speed, target, scripted, holdsFire, attack>>

(* The transporter dies and lets go.  A flying one orders its passenger to   *)
(* stay, a Move order like any other; the passenger takes over its velocity. *)
ReleaseTransportees ==
    /\ transported
    /\ transported' = FALSE
    /\ \E ordered, paralyzed \in BOOLEAN :
          /\ CancelIf((ordered \/ paralyzed) /\ IsAttackMovementLocked,
                      motion, weapon, ordered)
          /\ stunned' = paralyzed
    /\ speed' \in 0 .. MaxSpeed
    /\ attack' = Pushed
    /\ UNCHANGED <<definitions, frame, target, scripted, holdsFire>>

EnableScriptInAttack ==
    /\ ~scripted
    /\ scripted' = TRUE
    /\ UNCHANGED <<definitions, frame, motion, weapon, speed, target, stunned,
                   transported, holdsFire, attack>>

EnableScriptMoveType ==
    /\ ~scripted
    /\ CancelIf(IsAttackMovementLocked, motion, weapon, FALSE)
    /\ scripted' = TRUE
    /\ UNCHANGED <<definitions, frame, speed, target, stunned, transported,
                   holdsFire, attack>>

DisableScriptMoveType ==
    /\ scripted
    /\ scripted' = FALSE
    /\ UNCHANGED <<definitions, frame, motion, weapon, speed, target, stunned,
                   transported, holdsFire, attack>>

SetHoldFire ==
    /\ holdsFire' = ~holdsFire
    /\ UNCHANGED <<definitions, frame, motion, weapon, speed, target, scripted,
                   stunned, transported, attack>>

(* Targets are found, lost and die.                                          *)
ChangeTarget(w) ==
    /\ target' = IF w \in target THEN target \ {w} ELSE target \cup {w}
    /\ UNCHANGED <<definitions, frame, motion, weapon, speed, scripted, stunned,
                   transported, holdsFire, attack>>

Event ==
    \/ GiveMove \/ ApplyImpulse \/ PushUnit \/ Paralyze
    \/ AttachUnit \/ DetachUnit \/ ReleaseTransportees
    \/ EnableScriptMoveType \/ DisableScriptMoveType \/ SetHoldFire
    \/ \E w \in Weapons : ChangeTarget(w)

Next == FrameStep \/ Event

(* The simulation runs on: the next step of the frame is always taken.       *)
Spec == Init /\ [][Next]_vars /\ WF_vars(FrameStep)

-----------------------------------------------------------------------------
(* The fields have the values the program can give them.                     *)
TypeOK ==
    /\ attackCannotMove \in CannotMove /\ revalidate \in Revalidate
    /\ holdOutOfArc \in HoldOutOfArc
    /\ step \in {"unit", "weapons", "fire", "salvo"} /\ current \in Weapons
    /\ motion \in [phase : Phases, weaponNum : {-1, 0}, started : BOOLEAN,
                   sinceRelease : 0 .. AttackRecoveryTime,
                   endFrame : -1 .. AttackRecoveryTime,
                   hasReleased : BOOLEAN, finalRelease : BOOLEAN]
    /\ weapon \in [Weapons -> [reload : Nat, previousReload : Nat,
                              salvoLeft : Nat, nextSalvo : Nat]]
    /\ \A w \in Weapons : /\ weapon[w].reload <= ReloadTime[w]
                          /\ weapon[w].salvoLeft <= SalvoSize[w]
    /\ speed \in 0 .. MaxSpeed /\ target \subseteq Weapons
    /\ {scripted, stunned, transported, holdsFire} \subseteq BOOLEAN
    /\ attack \in [fired : BOOLEAN, mayLock : BOOLEAN, pushed : 0 .. MaxSpeed]

(* The first weapon owes shots exactly while the unit is in a windup or      *)
(* between two releases: no interruption leaves the lock behind without an   *)
(* attack, or an attack behind without the lock.                             *)
LockedWhileShotsPend ==
    weapon[0].salvoLeft > 0 <=> \/ motion.phase = "AttackWindup"
                                \/ motion.phase = "AttackRelease" /\ ~motion.finalRelease

(* A unit that could be locked when it began its attack moves before the     *)
(* lock is gone only if its velocity was set behind the attack's back: by    *)
(* the death of its transporter (ReleaseTransportees), a script, a skid or   *)
(* the collision with one.  Even then it only brakes, and stands again when  *)
(* the push is used up.  Orders, impulses, stuns, loading, unloading, a      *)
(* script's move type and the other weapons never move it under the lock.    *)
StandsWhileAttacking ==
    (/\ IsAttackMovementLocked
     /\ motion.phase # "StoppingForAttack"
     /\ attack.mayLock) => speed <= attack.pushed

(* A reload is the price of a shot.  Once a shot of the first weapon is out, *)
(* an interruption may end the salvo and the recovery but gives no reload    *)
(* back (section 17 of the design document); a first release that fails is   *)
(* not a shot and gives it back in full (the comment in UpdateSalvo).        *)
ReloadPaysForShots ==
    [][/\ attack'.fired => weapon'[0].reload >= weapon[0].reload - 1
       /\ FailFirstRelease(0) => weapon'[0].reload = 0]_vars

(* A unit whose targets are gone for good, and whose weapons are updated, is *)
(* free to move at last: no lock is left behind.                             *)
EventuallyMobile ==
    <>[](target = {} /\ CanUpdateWeapons) => <>[](motion.phase = "Mobile")

(* No attempt to attack goes on forever: unless the unit is pushed again and *)
(* again, it comes to a stop and shoots or gives up, also with a target that *)
(* stays.                                                                    *)
PushesEnd == <>[][~PushUnit /\ ~ReleaseTransportees]_vars
AttemptsEnd ==
    <>[]CanUpdateWeapons /\ PushesEnd =>
        []<>(motion.phase \notin {"StoppingForAttack", "AttackWindup"})
=============================================================================
