------------------------- MODULE AttackMotionProofs -------------------------
(* The safety properties of the attack motion, for any number of weapons,    *)
(* any salvos and any times.                                                 *)
EXTENDS AttackMotion, TLAPS

MotionOK(m) ==
    m \in [phase : Phases, weaponNum : {-1, 0}, started : BOOLEAN,
           sinceRelease : 0 .. AttackRecoveryTime,
           endFrame : -1 .. AttackRecoveryTime,
           hasReleased : BOOLEAN, finalRelease : BOOLEAN]

WeaponsOK(ws) ==
    /\ ws \in [Weapons -> [reload : Nat, previousReload : Nat,
                           salvoLeft : Nat, nextSalvo : Nat]]
    /\ \A w \in Weapons : ws[w].reload <= ReloadTime[w] /\ ws[w].salvoLeft <= SalvoSize[w]

(* The fields of a motion that belong together.                              *)
PhaseAgrees(m) ==
    /\ m.phase = "Mobile" <=> m.weaponNum = -1
    /\ m.started <=> m.phase \notin {"Mobile", "StoppingForAttack"}
    /\ m.hasReleased => m.started
    /\ m.phase = "AttackWindup" => ~m.finalRelease
    /\ m.phase = "AttackRecovery" => m.finalRelease
    /\ m.phase \in {"AttackRelease", "AttackRecovery"} => m.hasReleased

(* The first weapon and the motion: shots that are owed, and, as long as     *)
(* they are owed, what cancelling them would give back.                      *)
ShotsAgree(m, wpn) ==
    /\ wpn.salvoLeft > 0 <=> \/ m.phase = "AttackWindup"
                             \/ m.phase = "AttackRelease" /\ ~m.finalRelease
    /\ wpn.salvoLeft > 0 => wpn.previousReload = 0
    /\ m.hasReleased => wpn.salvoLeft < SalvoSize[0]

ReleaseNoted(m, fired) == m.started => (m.hasReleased <=> fired)

Agree(m, ws, fired) ==
    /\ PhaseAgrees(m)
    /\ ShotsAgree(m, ws[0])
    /\ ReleaseNoted(m, fired)

(* Who could be locked at the start of an attack was not taken over by a     *)
(* script since, and moves only as far as it was pushed.                     *)
Stands ==
    attack.mayLock /\ motion.started =>
        attackCannotMove /\ ~scripted /\ speed <= attack.pushed

Inv == TypeOK /\ Agree(motion, weapon, attack.fired) /\ Stands

-----------------------------------------------------------------------------
LEMMA ZeroIsWeapon == 0 \in Weapons /\ Weapons \subseteq Nat
  BY AttackMotionAssumption DEF Weapons

LEMMA NoMotionAgrees ==
    ASSUME NEW ws, NEW fired \in BOOLEAN, WeaponsOK(ws), ws[0].salvoLeft = 0
    PROVE  MotionOK(NoMotion) /\ Agree(NoMotion, ws, fired)
  BY AttackMotionAssumption, ZeroIsWeapon
  DEF MotionOK, WeaponsOK, Agree, PhaseAgrees, ShotsAgree, ReleaseNoted, NoMotion, Phases

(* Whatever interrupts an attack leaves a free unit and no shots behind.     *)
LEMMA CancelAgrees ==
    ASSUME NEW m, NEW ws, NEW refund \in BOOLEAN, NEW fired \in BOOLEAN,
           MotionOK(m), WeaponsOK(ws), Agree(m, ws, fired)
    PROVE  /\ WeaponsOK(WeaponsCancelled(m, ws, refund))
           /\ WeaponsCancelled(m, ws, refund)[0].salvoLeft = 0
           /\ fired => WeaponsCancelled(m, ws, refund)[0].reload = ws[0].reload
           /\ \A w \in Weapons \ {0} : WeaponsCancelled(m, ws, refund)[w] = ws[w]
  <1> DEFINE given == refund /\ ~m.hasReleased /\ m.started
             wpn == WeaponCancelled(ws[0], given)
  <1>1. ws[0] \in [reload : Nat, previousReload : Nat, salvoLeft : Nat, nextSalvo : Nat]
    BY ZeroIsWeapon DEF WeaponsOK
  <1>2. /\ wpn \in [reload : Nat, previousReload : Nat, salvoLeft : Nat, nextSalvo : Nat]
        /\ wpn.salvoLeft = 0
        /\ wpn.reload = IF given THEN ws[0].previousReload ELSE ws[0].reload
    BY <1>1 DEF WeaponCancelled
  <1>3. CASE m.weaponNum = -1
    <2>1. WeaponsCancelled(m, ws, refund) = ws
      BY <1>3, ZeroIsWeapon DEF WeaponsCancelled
    <2>2. ws[0].salvoLeft = 0
      BY <1>1, <1>3 DEF Agree, PhaseAgrees, ShotsAgree
    <2> QED  BY <2>1, <2>2
  <1>4. CASE m.weaponNum = 0
    <2>1. WeaponsCancelled(m, ws, refund) = [ws EXCEPT ![0] = wpn]
      BY <1>4, ZeroIsWeapon DEF WeaponsCancelled, WeaponsOK
    <2>2. given => ws[0].previousReload <= ReloadTime[0]
      <3>1. SUFFICES ASSUME given PROVE ws[0].previousReload <= ReloadTime[0]
        OBVIOUS
      <3>2. m.phase = "AttackWindup"
        BY <3>1 DEF Agree, PhaseAgrees, MotionOK, Phases
      <3>3. ws[0].previousReload = 0
        BY <3>2 DEF Agree, ShotsAgree
      <3> QED  BY <3>3, AttackMotionAssumption, ZeroIsWeapon
    <2>3. wpn.reload <= ReloadTime[0] /\ wpn.salvoLeft <= SalvoSize[0]
      BY <1>2, <2>2, ZeroIsWeapon, AttackMotionAssumption DEF WeaponsOK
    <2>4. fired => wpn.reload = ws[0].reload
      BY <1>2 DEF Agree, ReleaseNoted, MotionOK
    <2> HIDE DEF wpn
    <2>5. WeaponsOK([ws EXCEPT ![0] = wpn])
      BY <1>2, <2>3 DEF WeaponsOK
    <2>6. /\ [ws EXCEPT ![0] = wpn][0] = wpn
          /\ \A w \in Weapons \ {0} : [ws EXCEPT ![0] = wpn][w] = ws[w]
      BY ZeroIsWeapon DEF WeaponsOK
    <2> QED  BY <1>2, <2>1, <2>4, <2>5, <2>6
  <1> QED  BY <1>3, <1>4 DEF MotionOK

(* The other steps of a motion.                                              *)
LEMMA AttackStartTyped ==
    ASSUME NEW m, NEW phase \in Phases, NEW started \in BOOLEAN, MotionOK(m)
    PROVE  /\ MotionOK([m EXCEPT !.phase = phase, !.weaponNum = 0])
           /\ MotionOK([m EXCEPT !.phase = phase, !.weaponNum = 0, !.started = started])
  BY DEF MotionOK

LEMMA EndTyped ==
    ASSUME NEW m, NEW phase \in Phases, NEW end \in -1 .. AttackRecoveryTime,
           NEW final \in BOOLEAN, NEW since \in 0 .. AttackRecoveryTime,
           NEW released \in BOOLEAN, MotionOK(m)
    PROVE  /\ MotionOK([m EXCEPT !.finalRelease = final, !.endFrame = end, !.phase = phase])
           /\ MotionOK([m EXCEPT !.phase = phase, !.hasReleased = released,
                                 !.finalRelease = final, !.sinceRelease = since,
                                 !.endFrame = end])
  BY DEF MotionOK

LEMMA StopAgrees ==
    ASSUME NEW m, NEW ws, NEW fired \in BOOLEAN, NEW w \in Weapons,
           MotionOK(m), WeaponsOK(ws), Agree(m, ws, fired)
    PROVE  /\ MotionOK(StopRequested(m, w))
           /\ Agree(StopRequested(m, w), ws, fired)
           /\ StopRequested(m, w).started = m.started
           /\ m.phase # "Mobile" => StopRequested(m, w) = m
  <1>1. ws[0] \in [reload : Nat, previousReload : Nat, salvoLeft : Nat, nextSalvo : Nat]
    BY ZeroIsWeapon DEF WeaponsOK
  <1>2. CASE w = 0 /\ MayLock /\ m.phase = "Mobile"
    <2> DEFINE r == [NoMotion EXCEPT !.phase = "StoppingForAttack", !.weaponNum = 0]
    <2>1. StopRequested(m, w) = r
      BY <1>2 DEF StopRequested
    <2>2. /\ r.phase = "StoppingForAttack" /\ r.weaponNum = 0 /\ ~r.started
          /\ ~r.hasReleased /\ ~r.finalRelease
      BY DEF NoMotion
    <2>3. MotionOK(r)
      <3>1. MotionOK(NoMotion)
        BY AttackMotionAssumption DEF NoMotion, MotionOK, Phases
      <3>2. "StoppingForAttack" \in Phases
        BY DEF Phases
      <3> QED  BY <3>1, <3>2, AttackStartTyped
    <2>4. ~(ws[0].salvoLeft > 0)
      BY <1>1, <1>2 DEF Agree, ShotsAgree
    <2>5. ~m.started
      BY <1>2 DEF Agree, PhaseAgrees
    <2>6. Agree(r, ws, fired)
      <3> HIDE DEF r
      <3> QED  BY <2>2, <2>4 DEF Agree, PhaseAgrees, ShotsAgree, ReleaseNoted
    <2>7. m.started = FALSE /\ r.started = FALSE
      BY <2>2, <2>5 DEF MotionOK
    <2> QED  BY <1>2, <2>1, <2>3, <2>6, <2>7
  <1>3. CASE ~(w = 0 /\ MayLock /\ m.phase = "Mobile")
    BY <1>3 DEF StopRequested
  <1> QED  BY <1>2, <1>3

LEMMA NotifyAgrees ==
    ASSUME NEW m, NEW w \in Weapons, NEW finalShot \in BOOLEAN, MotionOK(m), PhaseAgrees(m)
    PROVE  LET r == NotifyAttackReleased(m, w, finalShot)
           IN  /\ MotionOK(r) /\ PhaseAgrees(r)
               /\ r.started = m.started
               /\ ~(m.weaponNum = w /\ m.started) => r = m
               /\ m.weaponNum = w /\ m.started =>
                     /\ r.phase = "AttackRelease" /\ r.hasReleased
                     /\ r.finalRelease = finalShot
  <1> DEFINE r == [m EXCEPT !.phase = "AttackRelease", !.hasReleased = TRUE,
                   !.finalRelease = finalShot,
                   !.sinceRelease = AttackRecoveryTime,
                   !.endFrame = IF finalShot THEN AttackRecoveryTime ELSE -1]
  <1>1. CASE m.weaponNum = w /\ m.started
    <2>1. NotifyAttackReleased(m, w, finalShot) = r
      BY <1>1 DEF NotifyAttackReleased
    <2>2. /\ r.phase = "AttackRelease" /\ r.hasReleased /\ r.started = m.started
          /\ r.finalRelease = finalShot /\ r.weaponNum = m.weaponNum
      BY DEF MotionOK
    <2>3. MotionOK(r)
      <3>1. /\ (IF finalShot THEN AttackRecoveryTime ELSE -1) \in -1 .. AttackRecoveryTime
            /\ AttackRecoveryTime \in 0 .. AttackRecoveryTime
        BY AttackMotionAssumption
      <3>2. "AttackRelease" \in Phases
        BY DEF Phases
      <3> QED  BY <3>1, <3>2, EndTyped
    <2>4. PhaseAgrees(r)
      <3>1. m.weaponNum # -1
        BY <1>1, ZeroIsWeapon
      <3> HIDE DEF r
      <3> QED  BY <1>1, <2>2, <3>1 DEF PhaseAgrees
    <2> QED  BY <1>1, <2>1, <2>2, <2>3, <2>4
  <1>2. CASE ~(m.weaponNum = w /\ m.started)
    BY <1>2 DEF NotifyAttackReleased, MotionOK
  <1> QED  BY <1>1, <1>2

LEMMA FinishAgrees ==
    ASSUME NEW m, NEW w \in Weapons, MotionOK(m), PhaseAgrees(m), m.weaponNum = w
    PROVE  LET r == FinishAttackMotion(m, w)
           IN  /\ MotionOK(r) /\ PhaseAgrees(r)
               /\ r.phase \notin {"AttackWindup", "StoppingForAttack"}
               /\ r.phase = "AttackRelease" => r.finalRelease
               /\ r.phase # "Mobile" => m.hasReleased /\ r.hasReleased /\ m.phase # "Mobile"
               /\ r.started => m.started
  <1> DEFINE r == [m EXCEPT !.finalRelease = TRUE, !.endFrame = m.sinceRelease,
                   !.phase = IF m.sinceRelease > 0 THEN "AttackRecovery"
                                                   ELSE "AttackRelease"]
  <1>1. CASE ~m.hasReleased
    <2>1. FinishAttackMotion(m, w) = NoMotion
      BY <1>1 DEF FinishAttackMotion
    <2>2. MotionOK(NoMotion) /\ PhaseAgrees(NoMotion)
          /\ NoMotion.phase = "Mobile" /\ ~NoMotion.started
      BY AttackMotionAssumption DEF NoMotion, MotionOK, PhaseAgrees, Phases
    <2> QED  BY <2>1, <2>2
  <1>2. CASE m.hasReleased
    <2>1. FinishAttackMotion(m, w) = r
      BY <1>2 DEF FinishAttackMotion
    <2>2. /\ r.phase \in {"AttackRecovery", "AttackRelease"}
          /\ r.weaponNum = m.weaponNum /\ r.started = m.started
          /\ r.hasReleased = m.hasReleased /\ r.finalRelease
      BY DEF MotionOK
    <2>3. MotionOK(r)
      <3>1. m.sinceRelease \in 0 .. AttackRecoveryTime /\ m.sinceRelease \in -1 .. AttackRecoveryTime
        BY AttackMotionAssumption DEF MotionOK
      <3>2. (IF m.sinceRelease > 0 THEN "AttackRecovery" ELSE "AttackRelease") \in Phases
        BY DEF Phases
      <3> QED  BY <3>1, <3>2, EndTyped
    <2>4. m.phase # "Mobile" /\ m.weaponNum # -1
      BY <1>2, ZeroIsWeapon DEF PhaseAgrees
    <2>5. PhaseAgrees(r)
      <3> HIDE DEF r
      <3> QED  BY <1>2, <2>2, <2>4 DEF PhaseAgrees
    <2> QED
      <3> HIDE DEF r
      <3> QED  BY <1>2, <2>1, <2>2, <2>3, <2>4, <2>5
  <1> QED  BY <1>1, <1>2

-----------------------------------------------------------------------------
(* One step of the program.                                                  *)

Record == [reload : Nat, previousReload : Nat, salvoLeft : Nat, nextSalvo : Nat]

LEMMA CancelIfStep ==
    ASSUME NEW condition \in BOOLEAN, NEW m, NEW ws, NEW refund \in BOOLEAN,
           NEW fired \in BOOLEAN,
           MotionOK(m), WeaponsOK(ws), Agree(m, ws, fired),
           CancelIf(condition, m, ws, refund)
    PROVE  /\ MotionOK(motion') /\ WeaponsOK(weapon') /\ Agree(motion', weapon', fired)
           /\ condition => ~motion'.started
           /\ ~condition => motion' = m
           /\ fired => weapon'[0].reload = ws[0].reload
  <1>1. CASE condition
    <2>1. motion' = NoMotion /\ weapon' = WeaponsCancelled(m, ws, refund)
      BY <1>1 DEF CancelIf
    <2>2. /\ WeaponsOK(weapon') /\ weapon'[0].salvoLeft = 0
          /\ fired => weapon'[0].reload = ws[0].reload
      BY <2>1, CancelAgrees
    <2>3. MotionOK(motion') /\ Agree(motion', weapon', fired)
      BY <2>1, <2>2, NoMotionAgrees
    <2>4. ~motion'.started
      BY <2>1 DEF NoMotion
    <2> QED  BY <1>1, <2>2, <2>3, <2>4
  <1>2. CASE ~condition
    BY <1>2 DEF CancelIf
  <1> QED  BY <1>1, <1>2

LEMMA InvFacts ==
    ASSUME Inv
    PROVE  /\ MotionOK(motion) /\ WeaponsOK(weapon)
           /\ Agree(motion, weapon, attack.fired) /\ attack.fired \in BOOLEAN
           /\ weapon[0] \in Record /\ weapon[0].salvoLeft <= SalvoSize[0]
           /\ SalvoSize[0] \in Nat /\ SalvoSize[0] > 0
  BY ZeroIsWeapon, AttackMotionAssumption DEF Inv, TypeOK, MotionOK, WeaponsOK, Record

LEMMA AgedAgrees ==
    ASSUME Inv
    PROVE  /\ MotionOK(NextPhase(AgedMotion)) /\ WeaponsOK(AgedWeapons)
           /\ Agree(NextPhase(AgedMotion), AgedWeapons, attack.fired)
           /\ NextPhase(AgedMotion).started => motion.started
           /\ AgedWeapons[0].reload >= weapon[0].reload - 1
  <1> DEFINE aged == AgedMotion
             m == NextPhase(aged)
             ws == AgedWeapons
  <1>1. /\ MotionOK(aged)
        /\ \A f \in {"phase", "weaponNum", "started", "hasReleased", "finalRelease"} :
              aged[f] = motion[f]
    <2>1. /\ OneLess(motion.sinceRelease) \in 0 .. AttackRecoveryTime
          /\ OneLess(motion.endFrame) \in -1 .. AttackRecoveryTime
      BY InvFacts, AttackMotionAssumption DEF MotionOK, OneLess
    <2> HIDE DEF aged
    <2> QED  BY <2>1, InvFacts DEF MotionOK, AgedMotion, aged
  <1>2. aged.phase = motion.phase /\ aged.started = motion.started
        /\ aged.finalRelease = motion.finalRelease
        /\ aged.hasReleased = motion.hasReleased /\ aged.weaponNum = motion.weaponNum
    BY <1>1, InvFacts DEF MotionOK, AgedMotion
  <1>3. /\ WeaponsOK(ws)
        /\ ws[0].salvoLeft = weapon[0].salvoLeft
        /\ weapon[0].previousReload = 0 => ws[0].previousReload = 0
        /\ ws[0].reload >= weapon[0].reload - 1
    <2>1. \A w \in Weapons :
             /\ ws[w] \in Record
             /\ ws[w].salvoLeft = weapon[w].salvoLeft
             /\ ws[w].previousReload = OneLess(weapon[w].previousReload)
             /\ ws[w].reload \in {weapon[w].reload, OneLess(weapon[w].reload)}
      <3> SUFFICES ASSUME NEW w \in Weapons
                   PROVE  /\ ws[w] \in Record
                          /\ ws[w].salvoLeft = weapon[w].salvoLeft
                          /\ ws[w].previousReload = OneLess(weapon[w].previousReload)
                          /\ ws[w].reload \in {weapon[w].reload, OneLess(weapon[w].reload)}
        OBVIOUS
      <3>1. weapon[w] \in Record
        BY InvFacts DEF WeaponsOK, Record
      <3>2. \A n \in Nat : OneLess(n) \in Nat
        BY DEF OneLess
      <3> DEFINE reload == IF stunned THEN weapon[w].reload ELSE OneLess(weapon[w].reload)
      <3>3. ws[w] = [weapon[w] EXCEPT !.reload = reload,
                                      !.previousReload = OneLess(@), !.nextSalvo = OneLess(@)]
        BY DEF AgedWeapons
      <3>4. reload \in {weapon[w].reload, OneLess(weapon[w].reload)} /\ reload \in Nat
        BY <3>1, <3>2 DEF Record
      <3> HIDE DEF reload, ws
      <3> QED  BY <3>1, <3>2, <3>3, <3>4 DEF Record
    <2>2. \A w \in Weapons : ws[w].reload <= ReloadTime[w] /\ ws[w].salvoLeft <= SalvoSize[w]
      BY <2>1, InvFacts, AttackMotionAssumption DEF WeaponsOK, OneLess
    <2>3. ws \in [Weapons -> Record]
      BY <2>1 DEF AgedWeapons
    <2>4. WeaponsOK(ws)
      BY <2>2, <2>3 DEF WeaponsOK, Record
    <2> QED  BY <2>1, <2>4, ZeroIsWeapon, InvFacts DEF OneLess, Record
  <1>4. Agree(aged, ws, attack.fired)
    BY <1>2, <1>3, InvFacts DEF Agree, PhaseAgrees, ShotsAgree, ReleaseNoted
  <1>5. /\ MotionOK(m) /\ Agree(m, ws, attack.fired) /\ (m.started => aged.started)
    <2>1. CASE m = NoMotion /\ aged.phase \in {"AttackRelease", "AttackRecovery"}
               /\ (aged.phase = "AttackRelease" => aged.finalRelease)
      <3>1. ws[0].salvoLeft = 0
        BY <2>1, <1>4, <1>3, InvFacts DEF Agree, ShotsAgree, Record, PhaseAgrees
      <3>2. ~NoMotion.started
        BY DEF NoMotion
      <3> QED  BY <2>1, <3>1, <3>2, <1>3, InvFacts, NoMotionAgrees
    <2>2. CASE m = [aged EXCEPT !.phase = "AttackWindup"] /\ aged.phase = "AttackRelease"
               /\ ~aged.finalRelease
      <3>1. /\ m.phase = "AttackWindup" /\ m.started = aged.started
            /\ m.finalRelease = aged.finalRelease
            /\ m.hasReleased = aged.hasReleased /\ m.weaponNum = aged.weaponNum
        BY <2>2, <1>1 DEF MotionOK
      <3>2. MotionOK(m)
        BY <2>2, <1>1 DEF MotionOK, Phases
      <3> HIDE DEF m
      <3> QED  BY <2>2, <3>1, <3>2, <1>4 DEF Agree, PhaseAgrees, ShotsAgree, ReleaseNoted
    <2>3. CASE m = [aged EXCEPT !.phase = "AttackRecovery"] /\ aged.phase = "AttackRelease"
               /\ aged.finalRelease
      <3>1. /\ m.phase = "AttackRecovery" /\ m.started = aged.started
            /\ m.finalRelease = aged.finalRelease
            /\ m.hasReleased = aged.hasReleased /\ m.weaponNum = aged.weaponNum
        BY <2>3, <1>1 DEF MotionOK
      <3>2. MotionOK(m)
        BY <2>3, <1>1 DEF MotionOK, Phases
      <3> HIDE DEF m
      <3> QED  BY <2>3, <3>1, <3>2, <1>4 DEF Agree, PhaseAgrees, ShotsAgree, ReleaseNoted
    <2>4. CASE m = aged
      BY <2>4, <1>1, <1>4
    <2> HIDE DEF aged
    <2> QED  BY <2>1, <2>2, <2>3, <2>4 DEF NextPhase
  <1> QED  BY <1>2, <1>3, <1>5

-----------------------------------------------------------------------------
(* What every step keeps.                                                    *)
Keeps(m, ws, fired) ==
    /\ MotionOK(m) /\ WeaponsOK(ws) /\ Agree(m, ws, fired)
    /\ fired => ws[0].reload >= weapon[0].reload - 1

LEMMA SameKeeps == Inv => Keeps(motion, weapon, attack.fired)
  <1> SUFFICES ASSUME Inv PROVE Keeps(motion, weapon, attack.fired)
    OBVIOUS
  <1>1. weapon[0].reload >= weapon[0].reload - 1
    BY InvFacts DEF Record
  <1> QED  BY <1>1, InvFacts DEF Keeps

LEMMA CancelKeeps ==
    ASSUME Inv, NEW condition \in BOOLEAN, NEW refund \in BOOLEAN,
           CancelIf(condition, motion, weapon, refund)
    PROVE  /\ Keeps(motion', weapon', attack.fired)
           /\ condition => ~motion'.started
           /\ ~condition => motion' = motion
  <1>1. /\ MotionOK(motion') /\ WeaponsOK(weapon') /\ Agree(motion', weapon', attack.fired)
        /\ condition => ~motion'.started
        /\ ~condition => motion' = motion
        /\ attack.fired => weapon'[0].reload = weapon[0].reload
    BY InvFacts, CancelIfStep
  <1>2. weapon[0].reload >= weapon[0].reload - 1
    BY InvFacts DEF Record
  <1> QED  BY <1>1, <1>2 DEF Keeps

LEMMA UpdateUnitKeeps ==
    ASSUME Inv, UpdateUnit
    PROVE  /\ Keeps(motion', weapon', attack.fired)
           /\ motion'.started => motion.started /\ ~(transported /\ MayLock)
  <1> DEFINE m == NextPhase(AgedMotion)
             c == transported /\ LockedIn(m)
  <1>1. /\ MotionOK(m) /\ WeaponsOK(AgedWeapons) /\ Agree(m, AgedWeapons, attack.fired)
        /\ m.started => motion.started
        /\ AgedWeapons[0].reload >= weapon[0].reload - 1
    BY AgedAgrees
  <1>2. CancelIf(c, m, AgedWeapons, FALSE) /\ c \in BOOLEAN /\ attack.fired \in BOOLEAN
    BY InvFacts DEF UpdateUnit
  <1>3. (transported /\ MayLock) /\ m.started => c
    BY <1>1 DEF LockedIn, Agree, PhaseAgrees
  <1> HIDE DEF m, c
  <1>4. /\ MotionOK(motion') /\ WeaponsOK(weapon') /\ Agree(motion', weapon', attack.fired)
        /\ c => ~motion'.started
        /\ ~c => motion' = m
        /\ attack.fired => weapon'[0].reload = AgedWeapons[0].reload
    BY <1>1, <1>2, CancelIfStep
  <1> QED  BY <1>1, <1>3, <1>4 DEF Keeps

LEMMA CommitKeeps ==
    ASSUME Inv, NEW w \in Weapons, Commit(w)
    PROVE  /\ Keeps(motion', weapon', attack'.fired)
           /\ w # 0 => motion' = motion
  <1> DEFINE wpn == [reload |-> ReloadTime[w], previousReload |-> weapon[w].reload,
                     salvoLeft |-> SalvoSize[w], nextSalvo |-> SalvoWindup[w]]
             s == StopRequested(motion, w)
  <1>1. weapon' = [weapon EXCEPT ![w] = wpn] /\ weapon[w].reload = 0
    BY DEF Commit, Ready
  <1>2. wpn \in Record /\ wpn.reload <= ReloadTime[w] /\ wpn.salvoLeft <= SalvoSize[w]
    BY <1>1, AttackMotionAssumption DEF Record
  <1>3. wpn.salvoLeft = SalvoSize[w] /\ wpn.previousReload = 0
    BY <1>1
  <1>4. motion' = BeginAttackMotion(s, w)
    BY DEF Commit
  <1> HIDE DEF wpn
  <1>5. WeaponsOK(weapon')
    BY <1>1, <1>2, InvFacts DEF WeaponsOK, Record
  <1>6. CASE w = 0
    <2> DEFINE m == [NoMotion EXCEPT !.phase = "AttackWindup", !.weaponNum = 0,
                                     !.started = TRUE]
    <2>1. motion' = m /\ attack'.fired = FALSE
      BY <1>4, <1>6 DEF BeginAttackMotion, Commit, NewAttack
    <2>2. /\ m.phase = "AttackWindup" /\ m.weaponNum = 0 /\ m.started
          /\ ~m.hasReleased /\ ~m.finalRelease
      BY DEF NoMotion
    <2>3. MotionOK(m)
      <3>1. MotionOK(NoMotion)
        BY AttackMotionAssumption DEF NoMotion, MotionOK, Phases
      <3>2. "AttackWindup" \in Phases
        BY DEF Phases
      <3> QED  BY <3>1, <3>2, AttackStartTyped
    <2>4. weapon'[0] = wpn
      BY <1>1, <1>6, InvFacts DEF WeaponsOK
    <2> HIDE DEF m
    <2>5. Agree(m, weapon', FALSE)
      BY <1>3, <1>6, <2>2, <2>4, InvFacts DEF Agree, PhaseAgrees, ShotsAgree, ReleaseNoted
    <2> QED  BY <1>5, <1>6, <2>1, <2>3, <2>5 DEF Keeps
  <1>7. CASE w # 0
    <2>1. motion' = motion /\ attack' = attack
      BY <1>4, <1>7 DEF BeginAttackMotion, StopRequested, Commit
    <2>2. weapon'[0] = weapon[0]
      BY <1>1, <1>7, ZeroIsWeapon, InvFacts DEF WeaponsOK
    <2>3. Agree(motion, weapon', attack.fired)
      BY <2>2, InvFacts DEF Agree
    <2> QED  BY <1>5, <2>1, <2>2, <2>3, SameKeeps DEF Keeps
  <1> QED  BY <1>6, <1>7

LEMMA BlockShotKeeps ==
    ASSUME Inv, NEW w \in Weapons, BlockShot(w)
    PROVE  Keeps(motion', weapon', attack.fired) /\ (motion'.started => motion.started)
  <1> DEFINE m == StopRequested(motion, w)
             c == IsStoppingForAttack(m, w)
  <1>1. MotionOK(m) /\ Agree(m, weapon, attack.fired) /\ m.started = motion.started
    BY InvFacts, StopAgrees
  <1>2. CancelIf(c, m, weapon, FALSE) /\ c \in BOOLEAN
    BY DEF BlockShot, IsStoppingForAttack
  <1> HIDE DEF m, c
  <1>3. /\ MotionOK(motion') /\ WeaponsOK(weapon') /\ Agree(motion', weapon', attack.fired)
        /\ c => ~motion'.started
        /\ ~c => motion' = m
        /\ attack.fired => weapon'[0].reload = weapon[0].reload
    BY <1>1, <1>2, CancelIfStep, InvFacts
  <1> QED  BY <1>1, <1>3, SameKeeps DEF Keeps

(* A due shot of the first weapon belongs to the motion.                     *)
LEMMA DueShot ==
    ASSUME Inv, weapon[0].salvoLeft > 0
    PROVE  motion.weaponNum = 0 /\ motion.started
  <1>1. motion.phase \in {"AttackWindup", "AttackRelease"}
    BY InvFacts DEF Agree, ShotsAgree
  <1> QED  BY <1>1, InvFacts DEF Agree, PhaseAgrees, MotionOK

LEMMA EndSalvoEarlyKeeps ==
    ASSUME Inv, NEW w \in Weapons, EndSalvoEarly(w)
    PROVE  Keeps(motion', weapon', attack.fired) /\ (motion'.started => motion.started)
  <1> DEFINE wpn == [weapon[w] EXCEPT !.salvoLeft = 0, !.nextSalvo = 0]
  <1>1. weapon' = [weapon EXCEPT ![w] = wpn] /\ motion' = FinishAttackMotion(motion, w)
    BY InvFacts DEF EndSalvoEarly, WeaponsOK
  <1>2. weapon[w] \in Record
    BY InvFacts DEF WeaponsOK, Record
  <1>3. /\ wpn \in Record /\ wpn.reload = weapon[w].reload /\ wpn.salvoLeft = 0
        /\ wpn.previousReload = weapon[w].previousReload
    BY <1>2 DEF Record
  <1> HIDE DEF wpn
  <1>4. WeaponsOK(weapon')
    BY <1>1, <1>3, InvFacts, AttackMotionAssumption DEF WeaponsOK, Record
  <1>5. CASE w = 0
    <2>1. weapon[0].salvoLeft > 0
      BY <1>5 DEF EndSalvoEarly, ShotDue
    <2>2. motion.weaponNum = 0 /\ motion.started
      BY <2>1, DueShot
    <2>3. MotionOK(motion) /\ PhaseAgrees(motion)
      BY InvFacts DEF Agree
    <2> DEFINE r == FinishAttackMotion(motion, 0)
    <2>4. /\ MotionOK(r) /\ PhaseAgrees(r)
          /\ r.phase \notin {"AttackWindup", "StoppingForAttack"}
          /\ r.phase = "AttackRelease" => r.finalRelease
          /\ r.phase # "Mobile" => motion.hasReleased /\ r.hasReleased
      BY <2>2, <2>3, ZeroIsWeapon, FinishAgrees
    <2>5. motion' = r
      BY <1>1, <1>5
    <2> HIDE DEF r
    <2>6. weapon'[0] = wpn
      BY <1>1, <1>5, InvFacts DEF WeaponsOK
    <2>7. ShotsAgree(r, wpn)
      BY <1>3, <2>4, InvFacts DEF ShotsAgree
    <2>8. ReleaseNoted(r, attack.fired)
      BY <2>2, <2>4, InvFacts DEF Agree, ReleaseNoted, PhaseAgrees
    <2>9. weapon'[0].reload >= weapon[0].reload - 1
      BY <1>3, <1>5, <2>6, InvFacts DEF Record
    <2> QED  BY <1>4, <2>2, <2>4, <2>5, <2>6, <2>7, <2>8, <2>9 DEF Keeps, Agree
  <1>6. CASE w # 0
    <2>1. motion' = motion
      BY <1>1, <1>6, ZeroIsWeapon, InvFacts DEF FinishAttackMotion, MotionOK
    <2>2. weapon'[0] = weapon[0]
      BY <1>1, <1>6, ZeroIsWeapon, InvFacts DEF WeaponsOK
    <2> QED  BY <1>4, <2>1, <2>2, SameKeeps DEF Keeps, Agree
  <1> QED  BY <1>5, <1>6

LEMMA ShotTakenFacts ==
    ASSUME Inv, NEW w \in Weapons, ShotDue(w)
    PROVE  /\ WeaponsOK(ShotTaken(w))
           /\ ShotTaken(w)[w].salvoLeft = weapon[w].salvoLeft - 1
           /\ ShotTaken(w)[w].reload = weapon[w].reload
           /\ ShotTaken(w)[w].previousReload = weapon[w].previousReload
           /\ w # 0 => ShotTaken(w)[0] = weapon[0]
  <1> DEFINE wpn == [weapon[w] EXCEPT !.salvoLeft = @ - 1, !.nextSalvo = SalvoDelay[w]]
  <1>1. ShotTaken(w) = [weapon EXCEPT ![w] = wpn]
    BY InvFacts DEF ShotTaken, WeaponsOK
  <1>2. weapon[w] \in Record /\ weapon[w].salvoLeft > 0 /\ SalvoDelay[w] \in Nat
    BY InvFacts, AttackMotionAssumption DEF WeaponsOK, Record, ShotDue
  <1>3. /\ wpn \in Record /\ wpn.reload = weapon[w].reload
        /\ wpn.salvoLeft = weapon[w].salvoLeft - 1
        /\ wpn.previousReload = weapon[w].previousReload
    <2> DEFINE left == weapon[w].salvoLeft - 1
               next == SalvoDelay[w]
    <2>1. wpn = [weapon[w] EXCEPT !.salvoLeft = left, !.nextSalvo = next]
      OBVIOUS
    <2>2. left \in Nat /\ next \in Nat /\ left = weapon[w].salvoLeft - 1
      BY <1>2 DEF Record
    <2> HIDE DEF wpn, left, next
    <2>3. wpn \in Record
      BY <1>2, <2>1, <2>2 DEF Record
    <2>4. /\ wpn.reload = weapon[w].reload /\ wpn.salvoLeft = left
          /\ wpn.previousReload = weapon[w].previousReload
      BY <1>2, <2>1 DEF Record
    <2> QED  BY <2>2, <2>3, <2>4
  <1>4. wpn.salvoLeft <= SalvoSize[w] /\ wpn.reload <= ReloadTime[w]
    <2>1. /\ weapon[w].salvoLeft <= SalvoSize[w] /\ weapon[w].reload <= ReloadTime[w]
          /\ SalvoSize[w] \in Nat
      BY InvFacts, AttackMotionAssumption DEF WeaponsOK
    <2>2. weapon[w].salvoLeft \in Nat
      BY <1>2 DEF Record
    <2> HIDE DEF wpn
    <2> QED  BY <1>3, <2>1, <2>2
  <1> HIDE DEF wpn
  <1>5. WeaponsOK([weapon EXCEPT ![w] = wpn])
    BY <1>3, <1>4, InvFacts DEF WeaponsOK, Record
  <1>6. /\ [weapon EXCEPT ![w] = wpn][w] = wpn
        /\ w # 0 => [weapon EXCEPT ![w] = wpn][0] = weapon[0]
    BY ZeroIsWeapon, InvFacts DEF WeaponsOK
  <1> QED  BY <1>1, <1>3, <1>5, <1>6

LEMMA HoldShotKeeps ==
    ASSUME Inv, NEW w \in Weapons, HoldShot(w)
    PROVE  Keeps(motion', weapon', attack.fired) /\ (motion'.started => motion.started)
  <1>1. /\ ShotDue(w) /\ weapon' = ShotTaken(w)
        /\ motion' = IF weapon'[w].salvoLeft = 0 THEN FinishAttackMotion(motion, w) ELSE motion
    BY DEF HoldShot
  <1>2. /\ WeaponsOK(weapon')
        /\ weapon'[w].salvoLeft = weapon[w].salvoLeft - 1
        /\ weapon'[w].reload = weapon[w].reload
        /\ weapon'[w].previousReload = weapon[w].previousReload
        /\ w # 0 => weapon'[0] = weapon[0]
    BY <1>1, ShotTakenFacts
  <1>3. CASE w = 0
    <2>1. weapon[0].salvoLeft > 0
      BY <1>1, <1>3 DEF ShotDue
    <2>2. motion.weaponNum = 0 /\ motion.started
      BY <2>1, DueShot
    <2>3. MotionOK(motion) /\ PhaseAgrees(motion)
      BY InvFacts DEF Agree
    <2>4. weapon'[0].reload >= weapon[0].reload - 1
      BY <1>2, <1>3, InvFacts DEF Record
    <2>5. CASE weapon'[0].salvoLeft = 0
      <3> DEFINE r == FinishAttackMotion(motion, 0)
      <3>1. /\ MotionOK(r) /\ PhaseAgrees(r)
            /\ r.phase \notin {"AttackWindup", "StoppingForAttack"}
            /\ r.phase = "AttackRelease" => r.finalRelease
            /\ r.phase # "Mobile" => motion.hasReleased /\ r.hasReleased
        BY <2>2, <2>3, ZeroIsWeapon, FinishAgrees
      <3>2. motion' = r
        BY <1>1, <1>3, <2>5
      <3> HIDE DEF r
      <3>3. ShotsAgree(r, weapon'[0])
        BY <2>5, <3>1, InvFacts DEF ShotsAgree
      <3>4. ReleaseNoted(r, attack.fired)
        BY <2>2, <3>1, InvFacts DEF Agree, ReleaseNoted, PhaseAgrees
      <3> QED  BY <1>2, <2>2, <2>4, <3>1, <3>2, <3>3, <3>4 DEF Keeps, Agree
    <2>6. CASE weapon'[0].salvoLeft # 0
      <3>1. motion' = motion
        BY <1>1, <1>3, <2>6
      <3>2. /\ weapon'[0].salvoLeft > 0
            /\ weapon'[0].salvoLeft < SalvoSize[0]
        BY <1>2, <1>3, <2>1, <2>6, InvFacts DEF Record
      <3>3. ShotsAgree(motion, weapon'[0])
        BY <1>2, <1>3, <2>1, <3>2, InvFacts DEF Agree, ShotsAgree
      <3> QED  BY <1>2, <2>4, <3>1, <3>3, InvFacts DEF Keeps, Agree
    <2> QED  BY <2>5, <2>6
  <1>4. CASE w # 0
    <2>1. motion.weaponNum # w
      BY <1>4, ZeroIsWeapon, InvFacts DEF MotionOK
    <2>2. motion' = motion
      BY <1>1, <2>1 DEF FinishAttackMotion
    <2>3. weapon'[0] = weapon[0]
      BY <1>2, <1>4
    <2> QED  BY <1>2, <2>2, <2>3, SameKeeps DEF Keeps, Agree
  <1> QED  BY <1>3, <1>4

(* A shot that comes back to the shooter may refund the attack it belongs to *)
(* and still leaves shots and motion in agreement.                           *)
LEMMA ReleaseKeeps ==
    ASSUME Inv, NEW w \in Weapons, Release(w)
    PROVE  /\ MotionOK(motion') /\ WeaponsOK(weapon')
           /\ Agree(motion', weapon', attack'.fired)
           /\ motion'.started => motion.started
           /\ HitsItself \subseteq {FALSE} => Keeps(motion', weapon', attack'.fired)
  <1> DEFINE st == ShotTaken(w)
             final == weapon'[w].salvoLeft = 0
  <1>1. PICK interrupted \in HitsItself :
          /\ weapon' = IF interrupted /\ IsAttackMovementLocked
                       THEN WeaponsCancelled(motion, st, TRUE) ELSE st
          /\ motion' = NotifyAttackReleased(
                         IF interrupted /\ IsAttackMovementLocked THEN NoMotion ELSE motion,
                         w, final)
    BY DEF Release
  <1>2. ShotDue(w) /\ attack'.fired = (IF w = 0 THEN TRUE ELSE attack.fired)
    BY InvFacts DEF Release, Inv, TypeOK
  <1>3. /\ WeaponsOK(st)
        /\ st[w].salvoLeft = weapon[w].salvoLeft - 1
        /\ st[w].reload = weapon[w].reload
        /\ st[w].previousReload = weapon[w].previousReload
        /\ w # 0 => st[0] = weapon[0]
    BY <1>2, ShotTakenFacts
  <1>4. w = 0 => /\ motion.weaponNum = 0 /\ motion.started
                 /\ weapon[0].salvoLeft > 0 /\ weapon[0].previousReload = 0
    BY <1>2, DueShot, InvFacts DEF ShotDue, Agree, ShotsAgree
  <1>5. MotionOK(motion) /\ PhaseAgrees(motion) /\ final \in BOOLEAN
        /\ attack.fired \in BOOLEAN /\ attack'.fired \in BOOLEAN
    BY <1>2, InvFacts DEF Agree
  <1> HIDE DEF st
  <1>6. CASE ~(interrupted /\ IsAttackMovementLocked)
    <2> DEFINE r == NotifyAttackReleased(motion, w, final)
    <2>1. weapon' = st /\ motion' = r
      BY <1>1, <1>6
    <2>2. /\ MotionOK(r) /\ PhaseAgrees(r)
          /\ r.started = motion.started
          /\ ~(motion.weaponNum = w /\ motion.started) => r = motion
          /\ motion.weaponNum = w /\ motion.started =>
                /\ r.phase = "AttackRelease" /\ r.hasReleased
                /\ r.finalRelease = final
      BY <1>5, NotifyAgrees
    <2> HIDE DEF r
    <2>3. CASE w = 0
      <3>1. weapon'[0].salvoLeft \in Nat /\ weapon'[0].salvoLeft < SalvoSize[0]
        BY <1>3, <1>4, <2>1, <2>3, InvFacts DEF Record, WeaponsOK
      <3>2. r.finalRelease <=> weapon'[0].salvoLeft = 0
        BY <1>4, <2>2, <2>3
      <3>3. ShotsAgree(r, weapon'[0])
        BY <1>3, <1>4, <2>1, <2>2, <2>3, <3>1, <3>2 DEF ShotsAgree
      <3>4. ReleaseNoted(r, attack'.fired)
        BY <1>2, <1>4, <2>2, <2>3 DEF ReleaseNoted
      <3>5. weapon'[0].reload >= weapon[0].reload - 1
        BY <1>3, <2>1, <2>3, InvFacts DEF Record
      <3> QED  BY <1>3, <1>4, <2>1, <2>2, <2>3, <3>3, <3>4, <3>5 DEF Keeps, Agree
    <2>4. CASE w # 0
      <3>1. motion.weaponNum # w
        BY <2>4, ZeroIsWeapon, <1>5 DEF MotionOK
      <3>2. motion' = motion /\ weapon'[0] = weapon[0] /\ attack'.fired = attack.fired
        BY <1>2, <1>3, <2>1, <2>2, <2>4, <3>1
      <3> QED  BY <1>3, <2>1, <3>2, SameKeeps DEF Keeps, Agree
    <2> QED  BY <2>3, <2>4
  <1>7. CASE interrupted /\ IsAttackMovementLocked
    <2>1. /\ weapon' = WeaponsCancelled(motion, st, TRUE)
          /\ motion' = NotifyAttackReleased(NoMotion, w, final)
      BY <1>1, <1>7
    <2>2. motion' = NoMotion /\ ~motion'.started
      <3>1. NoMotion.weaponNum # w /\ ~NoMotion.started
        BY ZeroIsWeapon DEF NoMotion
      <3> QED  BY <2>1, <3>1 DEF NotifyAttackReleased
    <2>3. ~(HitsItself \subseteq {FALSE})
      BY <1>7
    <2>4. WeaponsOK(weapon') /\ weapon'[0].salvoLeft = 0
      <3>1. CASE w = 0
        <4> DEFINE wpn == WeaponCancelled(st[0], TRUE /\ ~motion.hasReleased /\ motion.started)
        <4>1. weapon' = [st EXCEPT ![0] = wpn]
          BY <1>3, <1>4, <2>1, <3>1, ZeroIsWeapon DEF WeaponsCancelled, WeaponsOK
        <4>2. st[0] \in Record /\ st[0].reload <= ReloadTime[0] /\ st[0].previousReload = 0
          BY <1>3, <1>4, <3>1, ZeroIsWeapon DEF WeaponsOK, Record
        <4>3. wpn \in Record /\ wpn.reload \in {0, st[0].reload} /\ wpn.salvoLeft = 0
          BY <4>2 DEF WeaponCancelled, Record
        <4> HIDE DEF wpn
        <4>4. wpn.reload <= ReloadTime[0] /\ wpn.salvoLeft <= SalvoSize[0]
          BY <4>2, <4>3, ZeroIsWeapon, AttackMotionAssumption
        <4> QED  BY <1>3, <4>1, <4>3, <4>4, ZeroIsWeapon DEF WeaponsOK, Record
      <3>2. CASE w # 0
        <4>1. Agree(motion, st, attack.fired)
          BY <1>3, <3>2, InvFacts DEF Agree
        <4> QED  BY <1>3, <1>5, <2>1, <4>1, CancelAgrees
      <3> QED  BY <3>1, <3>2
    <2>5. MotionOK(motion') /\ Agree(motion', weapon', attack'.fired)
      BY <1>5, <2>2, <2>4, NoMotionAgrees
    <2> QED  BY <2>2, <2>3, <2>4, <2>5
  <1> QED  BY <1>6, <1>7

-----------------------------------------------------------------------------
(* What a push or a frame of braking does to the history.                    *)
Attacks == [fired : BOOLEAN, mayLock : BOOLEAN, pushed : 0 .. MaxSpeed]

LEMMA PushHistory ==
    ASSUME Inv, NEW n \in 0 .. MaxSpeed
    PROVE  LET h == [attack EXCEPT !.pushed = n]
           IN  /\ h \in Attacks /\ h.fired = attack.fired
               /\ h.mayLock = attack.mayLock /\ h.pushed = n
  <1>1. attack \in Attacks
    BY DEF Inv, TypeOK, Attacks
  <1> QED  BY <1>1 DEF Attacks

LEMMA BrakeHistory ==
    ASSUME Inv
    PROVE  /\ attack \in Attacks /\ speed \in 0 .. MaxSpeed
           /\ OneLess(attack.pushed) \in 0 .. MaxSpeed
           /\ speed <= attack.pushed => OneLess(speed) <= OneLess(attack.pushed)
  <1>1. attack.pushed \in 0 .. MaxSpeed /\ speed \in 0 .. MaxSpeed /\ attack \in Attacks
    BY DEF Inv, TypeOK, Attacks
  <1> QED  BY <1>1, AttackMotionAssumption DEF OneLess

LEMMA PushedHistory ==
    ASSUME Inv, speed' \in 0 .. MaxSpeed, attack' = Pushed
    PROVE  /\ attack' \in Attacks /\ attack'.fired = attack.fired
           /\ attack'.mayLock = attack.mayLock
           /\ motion.started => attack'.pushed = speed'
  <1> DEFINE n == IF motion.started THEN speed' ELSE 0
  <1>1. n \in 0 .. MaxSpeed
    BY AttackMotionAssumption
  <1>2. attack' = [attack EXCEPT !.pushed = n]
    BY DEF Pushed
  <1>3. motion.started => n = speed'
    OBVIOUS
  <1> HIDE DEF n
  <1> QED  BY <1>1, <1>2, <1>3, PushHistory

(* Shots and motion, over all the actions.                                   *)
StepKeeps ==
    /\ MotionOK(motion') /\ WeaponsOK(weapon')
    /\ Agree(motion', weapon', attack'.fired)
    /\ HitsItself \subseteq {FALSE} => Keeps(motion', weapon', attack'.fired)

LEMMA NextKeeps == Inv /\ Next => StepKeeps
  <1> SUFFICES ASSUME Inv, Next PROVE StepKeeps
    OBVIOUS
  <1> USE DEF StepKeeps, Keeps
  <1>1. CASE UpdateUnit
    <2>1. attack'.fired = attack.fired
      BY <1>1, BrakeHistory, PushHistory DEF UpdateUnit
    <2> QED  BY <1>1, <2>1, UpdateUnitKeeps
  <1>2. CASE UpdateWeapons
    BY <1>2, SameKeeps DEF UpdateWeapons
  <1>3. ASSUME NEW w \in Weapons, CannotFire(w) PROVE StepKeeps
    BY <1>3, CancelKeeps DEF CannotFire, IsStoppingForAttack
  <1>4. ASSUME NEW w \in Weapons, Brake(w) PROVE StepKeeps
    BY <1>4, StopAgrees, InvFacts, SameKeeps DEF Brake
  <1>5. ASSUME NEW w \in Weapons, BlockShot(w) PROVE StepKeeps
    BY <1>5, BlockShotKeeps DEF BlockShot
  <1>6. ASSUME NEW w \in Weapons, Commit(w) PROVE StepKeeps
    BY <1>6, CommitKeeps
  <1>7. ASSUME NEW w \in Weapons, NoShotDue(w) PROVE StepKeeps
    BY <1>7, SameKeeps DEF NoShotDue
  <1>8. ASSUME NEW w \in Weapons, FailFirstRelease(w) PROVE StepKeeps
    BY <1>8, CancelKeeps DEF FailFirstRelease
  <1>9. ASSUME NEW w \in Weapons, EndSalvoEarly(w) PROVE StepKeeps
    BY <1>9, EndSalvoEarlyKeeps DEF EndSalvoEarly
  <1>10. ASSUME NEW w \in Weapons, HoldShot(w) PROVE StepKeeps
    BY <1>10, HoldShotKeeps DEF HoldShot
  <1>11. ASSUME NEW w \in Weapons, Release(w) PROVE StepKeeps
    BY <1>11, ReleaseKeeps
  <1>12. CASE GiveMove
    BY <1>12, CancelKeeps DEF GiveMove
  <1>13. CASE ApplyImpulse
    BY <1>13, CancelKeeps DEF ApplyImpulse, IsAttackMovementLocked, LockedIn
  <1>14. ASSUME NEW stun \in BOOLEAN, SetStunned(stun), attack' = attack PROVE StepKeeps
    BY <1>14, CancelKeeps DEF SetStunned, IsAttackMovementLocked, LockedIn
  <1>15. CASE Paralyze \/ AttachUnit \/ DetachUnit
    BY <1>14, <1>15 DEF Paralyze, AttachUnit, DetachUnit
  <1>16. CASE EnableScriptMoveType
    BY <1>16, CancelKeeps DEF EnableScriptMoveType, IsAttackMovementLocked, LockedIn
  <1>17. CASE DisableScriptMoveType \/ SetHoldFire \/ (\E w \in Weapons : ChangeTarget(w))
    BY <1>17, SameKeeps DEF DisableScriptMoveType, SetHoldFire, ChangeTarget
  <1>18. CASE PushUnit
    <2>1. motion' = motion /\ weapon' = weapon /\ attack'.fired = attack.fired
      BY <1>18, PushedHistory DEF PushUnit
    <2> QED  BY <2>1, SameKeeps
  <1>19. CASE ReleaseTransportees
    <2>1. PICK ordered \in BOOLEAN, paralyzed \in BOOLEAN :
             CancelIf((ordered \/ paralyzed) /\ IsAttackMovementLocked,
                      motion, weapon, ordered)
      BY <1>19 DEF ReleaseTransportees
    <2>2. attack'.fired = attack.fired
      BY <1>19, PushedHistory DEF ReleaseTransportees
    <2> QED  BY <2>1, <2>2, CancelKeeps
  <1> QED
    BY <1>1, <1>2, <1>3, <1>4, <1>5, <1>6, <1>7, <1>8, <1>9, <1>10, <1>11, <1>12,
       <1>13, <1>15, <1>16, <1>17, <1>18, <1>19 DEF Next, FrameStep, Event

(* The variables beside the motion and the weapons.                          *)
RestOK ==
    /\ attackCannotMove \in CannotMove /\ revalidate \in Revalidate
    /\ holdOutOfArc \in HoldOutOfArc
    /\ step \in {"unit", "weapons", "fire", "salvo"} /\ current \in Weapons
    /\ speed \in 0 .. MaxSpeed /\ target \subseteq Weapons
    /\ scripted \in BOOLEAN /\ stunned \in BOOLEAN
    /\ transported \in BOOLEAN /\ holdsFire \in BOOLEAN
    /\ attack \in Attacks

LEMMA TypeParts == TypeOK <=> RestOK /\ MotionOK(motion) /\ WeaponsOK(weapon)
  BY DEF TypeOK, RestOK, MotionOK, WeaponsOK, Attacks

LEMMA NextRest == Inv /\ Next => RestOK'
  <1> SUFFICES ASSUME Inv, Next PROVE RestOK'
    OBVIOUS
  <1>1. RestOK
    BY TypeParts DEF Inv
  <1>2. MayLock \in BOOLEAN /\ OneLess(speed) \in 0 .. MaxSpeed /\ 0 \in Weapons
    <2>1. attackCannotMove \in BOOLEAN
      BY <1>1, AttackMotionAssumption DEF RestOK
    <2>2. OneLess(speed) \in 0 .. MaxSpeed
      BY <1>1, AttackMotionAssumption DEF RestOK, OneLess
    <2> QED  BY <2>1, <2>2, ZeroIsWeapon DEF MayLock, SupportsAttackMoveLock
  <1> USE <1>1, <1>2 DEF RestOK
  <1>3. CASE UpdateUnit
    <2>1. attack' \in Attacks
      BY <1>3, BrakeHistory, PushHistory DEF UpdateUnit
    <2> QED  BY <1>3, <2>1 DEF UpdateUnit, SpeedsOfTheFrame, definitions, circumstances
  <1>4. CASE UpdateWeapons
    BY <1>4 DEF UpdateWeapons, definitions, circumstances
  <1>5. ASSUME NEW w \in Weapons, CannotFire(w) \/ Brake(w) \/ BlockShot(w) PROVE RestOK'
    BY <1>5 DEF CannotFire, Brake, BlockShot, ToSalvo, definitions, circumstances
  <1>6. ASSUME NEW w \in Weapons, Commit(w) PROVE RestOK'
    <2>1. NewAttack \in Attacks
      BY AttackMotionAssumption DEF NewAttack, Attacks
    <2> QED  BY <1>6, <2>1 DEF Commit, ToSalvo, definitions, circumstances
  <1>7. ASSUME NEW w \in Weapons, NextWeapon(w)
        PROVE  step' \in {"unit", "fire"} /\ current' \in Weapons
    BY <1>7 DEF NextWeapon
  <1>8. ASSUME NEW w \in Weapons,
               \/ NoShotDue(w) \/ FailFirstRelease(w)
               \/ EndSalvoEarly(w) \/ HoldShot(w)
        PROVE  RestOK'
    BY <1>7, <1>8 DEF NoShotDue, FailFirstRelease, EndSalvoEarly, HoldShot, definitions,
       circumstances
  <1>9. ASSUME NEW w \in Weapons, Release(w) PROVE RestOK'
    <2>1. attack' \in Attacks
      BY <1>9 DEF Release, Attacks
    <2> QED  BY <1>7, <1>9, <2>1 DEF Release, definitions, circumstances
  <1>10. CASE GiveMove \/ ApplyImpulse
    BY <1>10 DEF GiveMove, ApplyImpulse, definitions, circumstances, frame
  <1>11. CASE Paralyze \/ AttachUnit \/ DetachUnit
    <2>1. speed' \in {speed, 0} /\ stunned' \in BOOLEAN /\ transported' \in BOOLEAN
      BY <1>11 DEF Paralyze, AttachUnit, DetachUnit, SetStunned
    <2>2. speed' \in 0 .. MaxSpeed
      BY <2>1, AttackMotionAssumption
    <2>3. UNCHANGED <<definitions, frame, target, scripted, holdsFire, attack>>
      BY <1>11 DEF Paralyze, AttachUnit, DetachUnit
    <2> QED  BY <2>1, <2>2, <2>3 DEF definitions, frame
  <1>12. CASE EnableScriptMoveType \/ DisableScriptMoveType \/ SetHoldFire
    BY <1>12 DEF EnableScriptMoveType, DisableScriptMoveType, SetHoldFire, definitions, frame
  <1>13. ASSUME NEW w \in Weapons, ChangeTarget(w) PROVE RestOK'
    BY <1>13 DEF ChangeTarget, definitions, frame
  <1>14. CASE PushUnit
    <2>1. attack' \in Attacks
      BY <1>14, PushedHistory DEF PushUnit
    <2> QED  BY <1>14, <2>1 DEF PushUnit, definitions, frame, circumstances
  <1>15. CASE ReleaseTransportees
    <2>1. attack' \in Attacks
      BY <1>15, PushedHistory DEF ReleaseTransportees
    <2> QED  BY <1>15, <2>1 DEF ReleaseTransportees, definitions, frame
  <1> QED
    BY <1>3, <1>4, <1>5, <1>6, <1>8, <1>9, <1>10, <1>11, <1>12, <1>13, <1>14, <1>15
    DEF Next, FrameStep, Event

(* Who stands for an attack keeps standing: a script's move type, an impulse *)
(* or a transporter ends the attack before the unit can move, and what moves *)
(* it without ending the attack is in the history.                           *)
LEMMA NextStands == Inv /\ Next => Stands'
  <1> SUFFICES ASSUME Inv, Next PROVE Stands'
    OBVIOUS
  <1>1. /\ Stands /\ RestOK /\ PhaseAgrees(motion) /\ MotionOK(motion)
    BY TypeParts, InvFacts DEF Inv, Agree
  <1>2. motion.started => motion.phase # "Mobile"
    BY <1>1 DEF PhaseAgrees
  <1>3. ASSUME motion'.started => motion.started, attack'.mayLock = attack.mayLock,
               attack'.pushed = attack.pushed,
               attackCannotMove' = attackCannotMove, scripted' = scripted, speed' = speed
        PROVE  Stands'
    BY <1>1, <1>3 DEF Stands
  <1>4. CASE UpdateUnit
    <2>1. /\ motion'.started => motion.started /\ ~(transported /\ MayLock)
          /\ attackCannotMove' = attackCannotMove /\ scripted' = scripted
      BY <1>4, UpdateUnitKeeps DEF UpdateUnit, definitions, circumstances
    <2>0. /\ attack'.mayLock = attack.mayLock
          /\ attack'.pushed = OneLess(attack.pushed)
      BY <1>4, BrakeHistory, PushHistory DEF UpdateUnit
    <2> SUFFICES ASSUME attack'.mayLock, motion'.started
                 PROVE  attackCannotMove /\ ~scripted /\ speed' <= attack'.pushed
      BY <2>1 DEF Stands
    <2>2. attackCannotMove /\ ~scripted /\ speed <= attack.pushed /\ motion.started
      BY <1>1, <2>0, <2>1 DEF Stands
    <2>3. ~transported /\ IsAttackMovementLocked
      BY <1>2, <2>1, <2>2
      DEF IsAttackMovementLocked, LockedIn, MayLock, SupportsAttackMoveLock
    <2>4. speed' = OneLess(speed)
      BY <1>4, <2>2, <2>3 DEF UpdateUnit, SpeedsOfTheFrame
    <2> QED  BY <2>0, <2>2, <2>4, BrakeHistory
  <1>5. CASE UpdateWeapons
    BY <1>3, <1>5 DEF UpdateWeapons, definitions, circumstances
  <1>6. ASSUME NEW w \in Weapons, CannotFire(w) PROVE Stands'
    <2>1. motion'.started => motion.started
      BY <1>6, CancelKeeps DEF CannotFire, IsStoppingForAttack
    <2> QED  BY <1>3, <1>6, <2>1 DEF CannotFire, definitions, circumstances
  <1>7. ASSUME NEW w \in Weapons, Brake(w) PROVE Stands'
    <2>1. motion'.started => motion.started
      BY <1>7, StopAgrees, InvFacts DEF Brake
    <2> QED  BY <1>3, <1>7, <2>1 DEF Brake, definitions, circumstances
  <1>8. ASSUME NEW w \in Weapons, BlockShot(w) PROVE Stands'
    BY <1>3, <1>8, BlockShotKeeps DEF BlockShot, definitions, circumstances
  <1>9. ASSUME NEW w \in Weapons, Commit(w) PROVE Stands'
    <2>1. CASE w = 0
      <3>1. attack'.mayLock = MayLock /\ attack'.pushed = 0
        BY <1>9, <2>1 DEF Commit, NewAttack
      <3>2. MayLock => speed = 0
        BY <1>9, <2>1 DEF Commit, AnswersStop, IsAttackStartSpeedSatisfied
      <3>3. UNCHANGED <<attackCannotMove, scripted, speed>>
        BY <1>9 DEF Commit, definitions, circumstances
      <3> SUFFICES ASSUME attack'.mayLock
                   PROVE  (attackCannotMove /\ ~scripted /\ speed <= attack.pushed)'
        BY DEF Stands
      <3>4. attackCannotMove /\ ~scripted /\ MayLock
        BY <3>1 DEF MayLock, SupportsAttackMoveLock
      <3>5. attackCannotMove' /\ ~scripted' /\ speed' = 0
        BY <3>2, <3>3, <3>4
      <3> QED  BY <3>1, <3>5
    <2>2. CASE w # 0
      <3>1. motion' = motion /\ attack' = attack
        BY <1>9, <2>2, CommitKeeps DEF Commit
      <3> QED  BY <1>3, <1>9, <3>1 DEF Commit, definitions, circumstances
    <2> QED  BY <2>1, <2>2
  <1>10. ASSUME NEW w \in Weapons, NoShotDue(w) PROVE Stands'
    BY <1>3, <1>10 DEF NoShotDue, definitions, circumstances
  <1>11. ASSUME NEW w \in Weapons, FailFirstRelease(w) PROVE Stands'
    <2>1. motion'.started => motion.started
      BY <1>11, CancelKeeps DEF FailFirstRelease
    <2> QED  BY <1>3, <1>11, <2>1 DEF FailFirstRelease, definitions, circumstances
  <1>12. ASSUME NEW w \in Weapons, EndSalvoEarly(w) PROVE Stands'
    BY <1>3, <1>12, EndSalvoEarlyKeeps DEF EndSalvoEarly, definitions, circumstances
  <1>13. ASSUME NEW w \in Weapons, HoldShot(w) PROVE Stands'
    BY <1>3, <1>13, HoldShotKeeps DEF HoldShot, definitions, circumstances
  <1>14. ASSUME NEW w \in Weapons, Release(w) PROVE Stands'
    <2>1. attack'.mayLock = attack.mayLock /\ attack'.pushed = attack.pushed
      BY <1>1, <1>14 DEF Release, RestOK, Attacks
    <2> QED  BY <1>3, <1>14, <2>1, ReleaseKeeps DEF Release, definitions, circumstances
  <1>15. CASE GiveMove
    <2>1. motion'.started => motion.started
      BY <1>15, CancelKeeps DEF GiveMove
    <2> QED  BY <1>3, <1>15, <2>1 DEF GiveMove, definitions, circumstances
  <1>16. ASSUME NEW refund \in BOOLEAN,
                CancelIf(IsAttackMovementLocked, motion, weapon, refund),
                attack' = attack, attackCannotMove' = attackCannotMove
         PROVE  Stands'
    <2>1. /\ IsAttackMovementLocked => ~motion'.started
          /\ ~IsAttackMovementLocked => motion' = motion
      BY <1>16, CancelKeeps DEF IsAttackMovementLocked, LockedIn
    <2>2. attack.mayLock /\ motion.started => IsAttackMovementLocked
      BY <1>1, <1>2 DEF Stands, IsAttackMovementLocked, LockedIn, MayLock,
         SupportsAttackMoveLock
    <2> QED  BY <1>16, <2>1, <2>2 DEF Stands
  <1>17. CASE ApplyImpulse
    BY <1>16, <1>17 DEF ApplyImpulse, definitions
  <1>18. CASE EnableScriptMoveType
    BY <1>16, <1>18 DEF EnableScriptMoveType, definitions
  <1>19. CASE AttachUnit
    <2>1. PICK stun \in BOOLEAN : SetStunned(stun)
      BY <1>19 DEF AttachUnit
    <2>2. motion'.started => motion.started
      BY <2>1, CancelKeeps DEF SetStunned, IsAttackMovementLocked, LockedIn
    <2>3. attack' = attack /\ scripted' = scripted /\ attackCannotMove' = attackCannotMove
          /\ speed' \in {speed, 0}
      BY <1>19 DEF AttachUnit, definitions
    <2>4. attack.pushed >= 0
      BY <1>1 DEF RestOK, Attacks
    <2> QED  BY <1>1, <2>2, <2>3, <2>4 DEF Stands
  <1>22. CASE Paralyze \/ DetachUnit
    <2>1. PICK stun \in BOOLEAN : SetStunned(stun)
      BY <1>22 DEF Paralyze, DetachUnit
    <2>2. motion'.started => motion.started
      BY <2>1, CancelKeeps DEF SetStunned, IsAttackMovementLocked, LockedIn
    <2> QED  BY <1>3, <1>22, <2>2 DEF Paralyze, DetachUnit, definitions
  <1>20. CASE DisableScriptMoveType
    <2>1. UNCHANGED <<motion, attack, attackCannotMove, speed>> /\ scripted' = FALSE
      BY <1>20 DEF DisableScriptMoveType, definitions
    <2> QED  BY <1>1, <2>1 DEF Stands
  <1>21. CASE SetHoldFire \/ (\E w \in Weapons : ChangeTarget(w))
    BY <1>3, <1>21 DEF SetHoldFire, ChangeTarget, definitions
  <1>23. CASE PushUnit \/ ReleaseTransportees
    <2>1. motion'.started => motion.started
      <3>1. CASE PushUnit
        BY <3>1 DEF PushUnit
      <3>2. CASE ReleaseTransportees
        <4>1. PICK ordered \in BOOLEAN, paralyzed \in BOOLEAN :
                 CancelIf((ordered \/ paralyzed) /\ IsAttackMovementLocked,
                          motion, weapon, ordered)
          BY <3>2 DEF ReleaseTransportees
        <4> QED  BY <4>1, CancelKeeps
      <3> QED  BY <1>23, <3>1, <3>2
    <2>2. /\ speed' \in 0 .. MaxSpeed /\ attack' = Pushed
          /\ scripted' = scripted /\ attackCannotMove' = attackCannotMove
      BY <1>23 DEF PushUnit, ReleaseTransportees, definitions, circumstances
    <2>3. /\ attack'.mayLock = attack.mayLock
          /\ motion.started => attack'.pushed = speed'
      BY <2>2, PushedHistory
    <2> QED  BY <1>1, <2>1, <2>2, <2>3 DEF Stands
  <1> QED
    BY <1>4, <1>5, <1>6, <1>7, <1>8, <1>9, <1>10, <1>11, <1>12, <1>13, <1>14, <1>15,
       <1>17, <1>18, <1>19, <1>20, <1>21, <1>22, <1>23 DEF Next, FrameStep, Event

-----------------------------------------------------------------------------
LEMMA InitInv == Init => Inv
  <1> SUFFICES ASSUME Init PROVE Inv
    OBVIOUS
  <1>1. WeaponsOK(weapon) /\ weapon[0].salvoLeft = 0
    BY ZeroIsWeapon, AttackMotionAssumption DEF Init, WeaponsOK, FreshWeapon
  <1>2. attack.fired = FALSE /\ attack.mayLock = FALSE
    BY DEF Init
  <1>3. MotionOK(motion) /\ Agree(motion, weapon, attack.fired)
    BY <1>1, <1>2, NoMotionAgrees DEF Init
  <1>4. RestOK
    <2>1. attack \in Attacks
      BY AttackMotionAssumption DEF Init, Attacks
    <2>2. speed \in 0 .. MaxSpeed /\ current \in Weapons
      BY ZeroIsWeapon, AttackMotionAssumption DEF Init
    <2> QED  BY <2>1, <2>2 DEF Init, RestOK
  <1> QED  BY <1>1, <1>2, <1>3, <1>4, TypeParts DEF Inv, Stands

LEMMA InvInductive == Inv /\ [Next]_vars => Inv'
  <1>1. Inv /\ Next => Inv'
    <2> SUFFICES ASSUME Inv, Next PROVE Inv'
      OBVIOUS
    <2>1. StepKeeps /\ RestOK' /\ Stands'
      BY NextKeeps, NextRest, NextStands
    <2>2. TypeOK'
      BY <2>1 DEF StepKeeps, TypeOK, RestOK, MotionOK, WeaponsOK, Attacks
    <2>3. Agree(motion, weapon, attack.fired)'
      BY <2>1 DEF StepKeeps, Agree, PhaseAgrees, ShotsAgree, ReleaseNoted
    <2> QED  BY <2>1, <2>2, <2>3 DEF Inv
  <1>2. Inv /\ UNCHANGED vars => Inv'
    BY DEF vars, definitions, frame, circumstances, Inv, TypeOK, Agree, PhaseAgrees,
       ShotsAgree, ReleaseNoted, Stands
  <1> QED  BY <1>1, <1>2

LEMMA InvAlways == Spec => []Inv
  BY InitInv, InvInductive, PTL DEF Spec

(* The fields keep the values the program can give them.                     *)
THEOREM TypeCorrect == Spec => []TypeOK
  <1>1. Inv => TypeOK
    BY DEF Inv
  <1> QED  BY <1>1, InvAlways, PTL

(* Shots are owed exactly while the unit is in a windup or between releases. *)
THEOREM ShotsAndLockGoTogether == Spec => []LockedWhileShotsPend
  <1>1. Inv => LockedWhileShotsPend
    BY DEF Inv, Agree, ShotsAgree, LockedWhileShotsPend
  <1> QED  BY <1>1, InvAlways, PTL

(* A unit that could be locked moves between the first windup and the end of *)
(* the recovery only by a push that did not go through the attack, and then  *)
(* no longer than it takes to brake.                                         *)
THEOREM AttackersStand == Spec => []StandsWhileAttacking
  <1>1. Inv => StandsWhileAttacking
    BY DEF Inv, Agree, PhaseAgrees, Stands, StandsWhileAttacking, IsAttackMovementLocked,
       LockedIn
  <1> QED  BY <1>1, InvAlways, PTL

(* If no shot comes back to the shooter before it is noted, a released shot  *)
(* keeps its price and a failed first release gets it back.                  *)
THEOREM ReloadIsThePrice ==
    HitsItself \subseteq {FALSE} => (Spec => ReloadPaysForShots)
  <1> SUFFICES ASSUME HitsItself \subseteq {FALSE} PROVE Spec => ReloadPaysForShots
    OBVIOUS
  <1>1. ASSUME Inv, Next
        PROVE  /\ attack'.fired => weapon'[0].reload >= weapon[0].reload - 1
               /\ FailFirstRelease(0) => weapon'[0].reload = 0
    <2>1. attack'.fired => weapon'[0].reload >= weapon[0].reload - 1
      BY <1>1, NextKeeps DEF StepKeeps, Keeps
    <2>2. ASSUME FailFirstRelease(0) PROVE weapon'[0].reload = 0
      <3>1. /\ weapon[0].salvoLeft > 0 /\ weapon[0].salvoLeft = SalvoSize[0]
            /\ CancelIf(motion.phase # "Mobile", motion, weapon, TRUE)
        BY <2>2 DEF FailFirstRelease, ShotDue
      <3>2. motion.weaponNum = 0 /\ motion.started /\ motion.phase # "Mobile"
        BY <1>1, <3>1, DueShot, InvFacts DEF Agree, PhaseAgrees
      <3>3. ~motion.hasReleased /\ weapon[0].previousReload = 0
        BY <1>1, <3>1, InvFacts DEF Agree, ShotsAgree
      <3>4. weapon' = [weapon EXCEPT ![0] = WeaponCancelled(@, TRUE)]
        BY <3>1, <3>2, <3>3, ZeroIsWeapon DEF CancelIf, WeaponsCancelled
      <3>5. weapon'[0] = WeaponCancelled(weapon[0], TRUE)
        BY <1>1, <3>4, ZeroIsWeapon, InvFacts DEF WeaponsOK
      <3> QED  BY <3>3, <3>5 DEF WeaponCancelled
    <2> QED  BY <2>1, <2>2
  <1>2. Inv /\ [Next]_vars =>
          [/\ attack'.fired => weapon'[0].reload >= weapon[0].reload - 1
           /\ FailFirstRelease(0) => weapon'[0].reload = 0]_vars
    BY <1>1
  <1> QED  BY <1>2, InvAlways, PTL DEF Spec, ReloadPaysForShots
=============================================================================
