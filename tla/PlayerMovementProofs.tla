------------------------- MODULE PlayerMovementProofs -------------------------
(***************************************************************************)
(* Proofs about PlayerMovement.tla, for every screen, band, walk, jump and *)
(* fall, every table of sprites and every set of levels.                   *)
(***************************************************************************)
EXTENDS PlayerMovement, WellFoundedInduction, TLAPS

\* The player walks out of the band by so many pixels at most.
OutBy(d) ==
  /\ XMotion < 0 => X >= XMin + 1 - d
  /\ XMotion > 0 => X <= ScrollMax + d

\* The platform that he is on has been reached by the feet as they were before
\* the last jump frame, after a fall of any speed.
JustTookOff ==
  \E g \in 0..GravityTop + GravityStep :
    (platform.y - Y - Jump - g) % Mod \in Height[Air] - Below..Height[Air] + Above

\* Only two frames of a jump keep the motion: after the first the platform is
\* at most one window away from where a fall would meet it, after the second
\* it is out of it.  While the level scrolls, and the platform may change under
\* his feet, he does not walk.
BandOK ==
  /\ X \in XMin + 1 - 3 * Step..ScrollMax + 3 * Step
  /\ scrollBuff => XMotion = 0
  /\ YMotion # -Jump => OutBy(Step)
  /\ YMotion = -Jump /\ onPlatform => OutBy(2 * Step) /\ (XMotion # 0 => JustTookOff)

\* A platform that is not stale is one of the level's, as it was at the left
\* edge of the screen of this picture, or of the one before the last step of
\* the scroll.
PlatformOK ==
  ~stale /\ ~missed =>
    \E p \in level :
      /\ p.y = platform.y
      /\ platform.x1 + FramePtr >= p.x1 + 1
      /\ platform.x2 + FramePtr <=
           p.x2 + 1 + (IF scrollBuff /\ ~VS THEN 0 ELSE ScrollStep)

\* The inductive invariant.
IInv == TypeOK /\ BandOK /\ PlatformOK

-----------------------------------------------------------------------------
(* Lemmas on the wrapping of positions. *)

LEMMA Sizes ==
  /\ Mod \in Nat \ {0} /\ Step \in Nat \ {0} /\ ScrollStep \in Nat \ {0}
  /\ Jump \in Nat \ {0} /\ GravityStep \in Nat \ {0} /\ GravityBit \in Nat \ {0}
  /\ XMin \in Nat /\ ScrollMax \in Nat /\ XMax \in Nat /\ YMax \in Nat
  /\ GravityTop \in Nat /\ LastPtr \in Nat /\ HVisible \in Nat
  /\ Above \in Nat /\ Below \in Nat /\ Gap \in Nat /\ Lift \in Nat /\ Drop \in Nat
  /\ CountMod \in Nat /\ CountMod >= 2
  /\ XStart \in XMin..ScrollMax /\ XRestart \in XMin..ScrollMax
  /\ YStart \in 0..YMax /\ YRestart \in 0..YMax
  /\ XMax < Mod /\ YMax < Mod /\ HVisible < Mod /\ TestColumn \in 1..Mod
  /\ 3 * Step <= XMin + 1 /\ ScrollMax + 3 * Step < Mod
  /\ Above + Below < 2 * Jump
  /\ 2 * Jump + GravityTop + GravityStep + Above + Below < Mod
BY PlayerAssumption

\* A number is known from its quotient and its remainder.
LEMMA Remainder ==
  ASSUME NEW n \in Nat \ {0}, NEW i \in Int, NEW q \in Int, NEW r \in 0..n - 1,
         i = q * n + r
  PROVE  i % n = r
OBVIOUS

\* A sum wraps once at most if what is added is less than the modulus.
LEMMA SumWraps ==
  ASSUME NEW n \in Nat \ {0}, NEW i \in Int, NEW d \in 0..n - 1
  PROVE  (i + d) % n = (i % n) + d \/ (i + d) % n = (i % n) + d - n
<1>. DEFINE q == i \div n
            r == i % n
<1>1. q \in Int /\ r \in 0..n - 1 /\ i = q * n + r
  OBVIOUS
<1>. HIDE DEF q, r
<1>2. CASE r + d < n
  <2>1. r + d \in 0..n - 1 /\ i + d \in Int /\ i + d = q * n + (r + d)
    BY <1>1, <1>2
  <2>2. (i + d) % n = r + d
    BY <1>1, <2>1, Remainder
  <2>. QED BY <2>2 DEF r
<1>3. CASE r + d >= n
  <2>1. /\ r + d - n \in 0..n - 1 /\ i + d \in Int /\ q + 1 \in Int
        /\ i + d = (q + 1) * n + (r + d - n)
    BY <1>1, <1>3
  <2>2. (i + d) % n = r + d - n
    BY <1>1, <2>1, Remainder
  <2>. QED BY <2>2 DEF r
<1>. QED BY <1>1, <1>2, <1>3

\* A distance does not see whether a position has wrapped.
LEMMA DistanceWraps ==
  ASSUME NEW n \in Nat \ {0}, NEW a \in Int, NEW b \in Int
  PROVE  (a - (b % n)) % n = (a - b) % n
<1>. DEFINE q == b \div n
            r == b % n
            p == (a - b) \div n
            s == (a - b) % n
<1>1. /\ q \in Int /\ r \in 0..n - 1 /\ b = q * n + r
      /\ p \in Int /\ s \in 0..n - 1 /\ a - b = p * n + s
  OBVIOUS
<1>. HIDE DEF q, r, p, s
<1>2. /\ a - r \in Int /\ p + q \in Int
      /\ a - r = (p + q) * n + s
  BY <1>1
<1>3. (a - r) % n = s
  BY <1>1, <1>2, Remainder
<1>. QED BY <1>3 DEF r, s

LEMMA Wrapped ==
  ASSUME NEW i \in Int
  PROVE  i % Mod \in 0..Mod - 1
BY Sizes

LEMMA NotWrapped ==
  ASSUME NEW i \in 0..Mod - 1
  PROVE  i % Mod = i
BY Sizes

\* A platform that the feet met before a jump frame is out of the test's reach
\* after the second one.
LEMMA JumpLeaves ==
  ASSUME NEW a \in Int, NEW g \in 0..GravityTop + GravityStep, NEW h \in Int,
         (a - Jump - g) % Mod \in h - Below..h + Above
  PROVE  (a + Jump) % Mod \notin h - Below..h + Above
<1>1. 2 * Jump + g \in 0..Mod - 1 /\ a - Jump - g \in Int
  BY Sizes
<1>2. \/ (a - Jump - g + (2 * Jump + g)) % Mod = ((a - Jump - g) % Mod) + (2 * Jump + g)
      \/ (a - Jump - g + (2 * Jump + g)) % Mod = ((a - Jump - g) % Mod) + (2 * Jump + g) - Mod
  BY <1>1, SumWraps, Sizes
<1>3. a - Jump - g + (2 * Jump + g) = a + Jump
  BY Sizes
<1>4. (a - Jump - g) % Mod \in Int
  BY <1>1, Sizes
<1>. QED BY <1>2, <1>3, <1>4, Sizes

-----------------------------------------------------------------------------
(* Lemmas on what is shown and found. *)

LEMMA SpriteSizes ==
  ASSUME TypeOK
  PROVE  /\ PlayerHeight \in 0..Mod - 1 /\ PlayerWidth \in 0..Mod - 1
         /\ Height[Air] \in 0..Mod - 1
<1>1. /\ Height \in [0..Air -> 0..Mod - 1] /\ Width \in [0..Air -> 0..Mod - 1]
      /\ Codes \subseteq 0..8
  BY PlayerAssumption
<1>2. Sprite \in 0..Air /\ Air \in 0..Air
  BY <1>1 DEF TypeOK, Sprite, Air
<1>. QED BY <1>1, <1>2 DEF PlayerHeight, PlayerWidth

LEMMA Platforms ==
  ASSUME TypeOK, NEW p \in level
  PROVE  p.x1 \in Nat /\ p.x2 \in Nat /\ p.y \in 0..YMax
BY PlayerAssumption DEF TypeOK

\* A set of lines or columns has a first one.
LEMMA LeastOf ==
  ASSUME NEW S, S \subseteq Nat, S # {}
  PROVE  \E x \in S : \A y \in S : x <= y
<1>. DEFINE Less == {ss \in Nat \X Nat : ss[1] < ss[2]}
<1>1. IsWellFoundedOn(Less, Nat)
  BY NatLessThanWellFounded DEF OpToRel
<1>2. \E x \in S : \A y \in S : <<y, x>> \notin Less
  <2>. HIDE DEF Less
  <2>. QED BY <1>1, WFMin, Zenon
<1>3. \A x, y \in Nat : <<y, x>> \notin Less => x <= y
  OBVIOUS
<1>. HIDE DEF Less
<1>. QED BY <1>2, <1>3

LEMMA LargerOf ==
  ASSUME NEW a \in Int, NEW b \in Int
  PROVE  Max({a, b}) = IF a >= b THEN a ELSE b
<1>1. \E x \in {a, b} : \A y \in {a, b} : x >= y
  OBVIOUS
<1>2. Max({a, b}) \in {a, b} /\ \A y \in {a, b} : Max({a, b}) >= y
  BY <1>1 DEF Max
<1>. QED BY <1>2

LEMMA SmallerOf ==
  ASSUME NEW a \in Int, NEW b \in Int
  PROVE  Min({a, b}) = IF a <= b THEN a ELSE b
<1>1. \E x \in {a, b} : \A y \in {a, b} : x <= y
  OBVIOUS
<1>2. Min({a, b}) \in {a, b} /\ \A y \in {a, b} : Min({a, b}) <= y
  BY <1>1 DEF Min
<1>. QED BY <1>2

\* The platform found is one of those shown, with its columns on the screen.
LEMMA FoundIsShown ==
  ASSUME TypeOK, Shown # {}
  PROVE  /\ {Found.x1, Found.x2, Found.y} \subseteq 0..Mod - 1
         /\ \E p \in level : /\ p.y = Found.y
                             /\ Found.x1 + FramePtr >= p.x1 + 1
                             /\ Found.x2 + FramePtr <= p.x2 + 1
<1>. DEFINE First(p) == \A q \in Shown : p.y < q.y \/ (p.y = q.y /\ p.x1 <= q.x1)
            first == CHOOSE p \in Shown : First(p)
            Lines == {p.y : p \in Shown}
<1>1. \A p \in Shown : p \in level /\ p.x1 \in Nat /\ p.x2 \in Nat /\ p.y \in Nat
  BY Platforms DEF Shown
<1>2. PICK y \in Lines : \A z \in Lines : y <= z
  <2>1. Lines \subseteq Nat /\ Lines # {}
    BY <1>1
  <2>. HIDE DEF Lines
  <2>. QED BY <2>1, LeastOf
<1>3. PICK x \in {p.x1 : p \in {r \in Shown : r.y = y}} :
        \A z \in {p.x1 : p \in {r \in Shown : r.y = y}} : x <= z
  <2>. DEFINE Lefts == {p.x1 : p \in {r \in Shown : r.y = y}}
  <2>1. Lefts \subseteq Nat /\ Lefts # {}
    BY <1>1, <1>2
  <2>. HIDE DEF Lefts
  <2>2. \E x \in Lefts : \A z \in Lefts : x <= z
    BY <2>1, LeastOf
  <2>. QED BY <2>2 DEF Lefts
<1>4. PICK p \in Shown : p.y = y /\ p.x1 = x
  BY <1>3
<1>5. First(p)
  <2>1. ASSUME NEW q \in Shown
        PROVE  p.y < q.y \/ (p.y = q.y /\ p.x1 <= q.x1)
    <3>1. p.y <= q.y
      BY <1>2, <1>4
    <3>2. q.y = p.y => p.x1 <= q.x1
      BY <1>3, <1>4
    <3>. QED BY <1>1, <3>1, <3>2
  <2>. QED BY <2>1
<1>6. first \in Shown
  <2>. HIDE DEF First
  <2>. QED BY <1>5
<1>7. Found = [x1 |-> Max({first.x1 - FramePtr, 0}) + 1,
               x2 |-> Min({first.x2 - FramePtr + 1, TestColumn - 1}),
               y |-> first.y]
  BY DEF Found
<1>. HIDE DEF first
<1>8. /\ first \in level /\ first.y \in 0..YMax
      /\ first.x1 \in Nat /\ first.x2 \in Nat /\ FramePtr \in Nat
      /\ first.x2 >= FramePtr /\ first.x1 < FramePtr + HVisible
  BY <1>6, Platforms, Sizes DEF Shown, TypeOK
<1>9. /\ Found.x1 = (IF first.x1 >= FramePtr THEN first.x1 - FramePtr ELSE 0) + 1
      /\ Found.x2 = (IF first.x2 - FramePtr + 1 <= TestColumn - 1
                     THEN first.x2 - FramePtr + 1 ELSE TestColumn - 1)
      /\ Found.y = first.y
  BY <1>7, <1>8, LargerOf, SmallerOf, Sizes
<1>10. {Found.x1, Found.x2, Found.y} \subseteq 0..Mod - 1
  BY <1>8, <1>9, Sizes
<1>11. /\ first.y = Found.y
       /\ Found.x1 + FramePtr >= first.x1 + 1
       /\ Found.x2 + FramePtr <= first.x2 + 1
  BY <1>8, <1>9, Sizes
<1>. QED BY <1>8, <1>10, <1>11

-----------------------------------------------------------------------------
(* Every register keeps its type. *)

\* The gravity and the counter of the frames.
LEMMA CountTypes ==
  ASSUME gravityTime \in 0..GravityTop + GravityStep,
         FrameCount \in 0..CountMod - 1, NEW grounded, Count(grounded)
  PROVE  /\ gravityTime' \in 0..GravityTop + GravityStep
         /\ FrameCount' \in 0..CountMod - 1
         /\ counted' \in BOOLEAN
<1>1. Gravity(grounded) \in 0..GravityTop + GravityStep
  BY Sizes DEF Gravity
<1>2. gravityTime' \in 0..GravityTop + GravityStep
  BY <1>1 DEF Count
<1>3. CountNext \in 0..CountMod - 1
  BY Sizes DEF CountNext
<1>. QED BY <1>2, <1>3 DEF Count

LEMMA MotionTypes ==
  ASSUME TypeOK, NEW keyPress \in BOOLEAN
  PROVE  /\ XMotionNext(keyPress) \in {-Step, 0, Step}
         /\ YMotionNext(keyPress) \in {-Jump, 0} \cup 0..GravityTop + GravityStep
BY DEF TypeOK, XMotionNext, YMotionNext

LEMMA FallTypes ==
  ASSUME TypeOK, VSFall
  PROVE  TypeOK'
<1>. USE DEF TypeOK, VSFall
<1>1. /\ X' = X /\ Y' = Y /\ XMotion' = XMotion /\ YMotion' = YMotion
      /\ Direction' = Direction /\ onPlatform' = onPlatform
      /\ keycode' = keycode /\ Jumping' = Jumping
      /\ scrollBuff' = scrollBuff /\ FramePtr' = FramePtr /\ level' = level
  BY DEF position, frameVars
<1>2. {platform'.x1, platform'.x2, platform'.y} \subseteq 0..Mod - 1
  BY FoundIsShown DEF Searching
<1>3. {VS', stale', missed'} \subseteq BOOLEAN
  OBVIOUS
<1>. QED BY <1>1, <1>2, <1>3, CountTypes

LEMMA RiseTypes ==
  ASSUME TypeOK, VSRise
  PROVE  TypeOK'
<1>. USE DEF TypeOK
<1>1. /\ platform' = platform /\ level' = level
      /\ stale' = stale /\ missed' = missed /\ VS' = TRUE
      /\ keycode' \in Codes /\ Jumping' \in BOOLEAN
  BY DEF VSRise
<1>2. FramePtr' \in 0..LastPtr + ScrollStep
  BY Sizes DEF VSRise
<1>3. /\ gravityTime' \in 0..GravityTop + GravityStep
      /\ FrameCount' \in 0..CountMod - 1
      /\ counted' \in BOOLEAN
  BY CountTypes DEF VSRise, counter
<1>4. PICK keyPress \in BOOLEAN :
        /\ IF OffScreen THEN Restart ELSE Move(keyPress)
        /\ scrollBuff' = ScrollEnable(keyPress)
  BY DEF VSRise
<1>5. scrollBuff' \in BOOLEAN
  BY <1>4, Zenon DEF ScrollEnable
<1>6. /\ X' \in 0..Mod - 1 /\ Y' \in 0..Mod - 1
      /\ XMotion' \in {-Step, 0, Step}
      /\ YMotion' \in {-Jump, 0} \cup 0..GravityTop + GravityStep
      /\ Direction' \in {"Right", "Left"} /\ onPlatform' \in BOOLEAN
  <2>1. CASE OffScreen
    <3>1. Restart
      BY <1>4, <2>1
    <3>2. /\ X' \in 0..Mod - 1 /\ Y' \in 0..Mod - 1 /\ XMotion' = 0 /\ YMotion' = 0
          /\ Direction' = "Right"
      BY <3>1, Sizes DEF Restart
    <3>3. onPlatform' \in BOOLEAN
      BY <3>1, Zenon DEF Restart
    <3>. QED BY <3>2, <3>3
  <2>2. CASE ~OffScreen
    <3>1. Move(keyPress)
      BY <1>4, <2>2
    <3>2. /\ XMotion' \in {-Step, 0, Step}
          /\ YMotion' \in {-Jump, 0} \cup 0..GravityTop + GravityStep
      BY <3>1, MotionTypes DEF Move
    <3>3. X + XMotion' \in Int /\ Y + YMotion' \in Int
      BY <3>2, Sizes
    <3>4. X' \in 0..Mod - 1 /\ Y' \in 0..Mod - 1
      BY <3>1, <3>3, Wrapped DEF Move
    <3>5. Direction' \in {"Right", "Left"}
      BY <3>1 DEF Move, DirectionNext
    <3>6. onPlatform' \in BOOLEAN
      BY <3>1, Zenon DEF Move, OnPlatformNext
    <3>. QED BY <3>2, <3>4, <3>5, <3>6
  <2>. QED BY <2>1, <2>2
<1>. QED BY <1>1, <1>2, <1>3, <1>5, <1>6

LEMMA ResetTypes ==
  ASSUME TypeOK, ResetSwitch
  PROVE  TypeOK'
<1>. USE DEF TypeOK, ResetSwitch
<1>1. /\ X' \in 0..Mod - 1 /\ Y' \in 0..Mod - 1 /\ XMotion' = 0 /\ YMotion' = 0
      /\ Direction' = "Right" /\ onPlatform' = TRUE
  BY Sizes DEF AtStart
<1>2. {platform'.x1, platform'.x2, platform'.y} \subseteq 0..Mod - 1
  BY FoundIsShown DEF Searching, Found
<1>3. {VS', stale', missed', counted'} \subseteq BOOLEAN
  OBVIOUS
<1>. QED BY <1>1, <1>2, <1>3, Sizes

LEMMA TypesStep ==
  ASSUME TypeOK, [Next]_vars
  PROVE  TypeOK'
<1>1. CASE UNCHANGED vars
  BY <1>1 DEF vars, position, counter, frameVars, TypeOK
<1>. QED BY <1>1, FallTypes, RiseTypes, ResetTypes DEF Next

-----------------------------------------------------------------------------
(* The band. *)

\* A walk starts in the band only, and a position in it does not wrap.
LEMMA WalkStaysNear ==
  ASSUME TypeOK, BandOK, NEW keyPress \in BOOLEAN, ~TakesOff(keyPress),
         XMotion' = XMotionNext(keyPress), X' = (X + XMotion') % Mod
  PROVE  /\ X' \in XMin + 1 - 3 * Step..ScrollMax + 3 * Step
         /\ OutBy(Step)'
<1>. USE DEF TypeOK, BandOK
<1>1. \/ XMotion' = 0
      \/ XMotion' = -Step /\ X > XMin
      \/ XMotion' = Step /\ X <= ScrollMax
  BY DEF XMotionNext
<1>2. X + XMotion' \in XMin + 1 - 3 * Step..ScrollMax + 3 * Step
  BY <1>1, Sizes
<1>3. X' = X + XMotion'
  BY <1>2, NotWrapped, Sizes
<1>. QED BY <1>1, <1>2, <1>3, Sizes DEF OutBy

LEMMA BandStep ==
  ASSUME TypeOK, BandOK, [Next]_vars
  PROVE  BandOK'
<1>1. CASE UNCHANGED vars
  BY <1>1 DEF vars, position, frameVars, BandOK, OutBy, JustTookOff
<1>2. CASE VSFall
  <2>1. /\ X' = X /\ Y' = Y /\ XMotion' = XMotion /\ YMotion' = YMotion
        /\ onPlatform' = onPlatform /\ scrollBuff' = scrollBuff
    BY <1>2 DEF VSFall, position, frameVars
  <2>2. XMotion # 0 /\ onPlatform => platform' = platform
    BY <1>2 DEF VSFall, Searching, BandOK
  <2>. QED BY <2>1, <2>2 DEF BandOK, OutBy, JustTookOff
<1>3. CASE VSRise
  <2>1. PICK keyPress \in BOOLEAN :
          /\ IF OffScreen THEN Restart ELSE Move(keyPress)
          /\ scrollBuff' = ScrollEnable(keyPress)
    BY <1>3 DEF VSRise
  <2>2. CASE OffScreen
    <3>1. X' = XRestart /\ XMotion' = 0 /\ YMotion' = 0 /\ ~onPlatform'
      BY <2>1, <2>2 DEF Restart
    <3>. QED BY <3>1, Sizes DEF BandOK, OutBy
  <2>3. CASE ~OffScreen
    <3>1. Move(keyPress)
      BY <2>1, <2>3
    <3>2. scrollBuff' => XMotion' = 0
      <4>1. scrollBuff' => X > ScrollMax /\ ~TakesOff(keyPress) /\ GoesRight
        BY <2>1, Zenon DEF ScrollEnable, Walks
      <4>2. GoesRight => ~GoesLeft
        BY DEF GoesRight, GoesLeft
      <4>. QED BY <3>1, <4>1, <4>2, Sizes DEF Move, XMotionNext, TypeOK
    <3>3. CASE ~TakesOff(keyPress)
      <4>1. YMotion' # -Jump
        BY <3>1, <3>3, Sizes DEF Move, YMotionNext, TypeOK
      <4>. QED BY <3>1, <3>2, <3>3, <4>1, WalkStaysNear DEF Move, BandOK
    <3>4. CASE TakesOff(keyPress)
      <4>1. /\ XMotion' = XMotion /\ YMotion' = -Jump
            /\ X' = (X + XMotion) % Mod /\ Y' = (Y - Jump) % Mod
            /\ onPlatform /\ Jumping
        <5>1. XMotionNext(keyPress) = XMotion /\ YMotionNext(keyPress) = -Jump
          <6>1. ~Walks(keyPress)
            BY <3>4 DEF Walks
          <6>. QED BY <3>4, <6>1 DEF XMotionNext, YMotionNext
        <5>2. Y + (-Jump) = Y - Jump
          BY Sizes DEF TypeOK
        <5>. QED BY <3>1, <3>4, <5>1, <5>2 DEF Move, TakesOff
      <4>2. /\ PlayerHeight = Height[Air] /\ PlayerY = (Y + YMotion) % Mod
        BY <4>1 DEF PlayerHeight, Sprite, PlayerY
      <4>3. /\ platform' = platform /\ platform.y \in 0..Mod - 1
        BY <1>3 DEF VSRise, TypeOK
      <4>4. onPlatform' =>
              (platform.y - Y - YMotion) % Mod \in Height[Air] - Below..Height[Air] + Above
        <5>1. Y + YMotion \in Int
          BY Sizes DEF TypeOK
        <5>2. (platform.y - PlayerY) % Mod = (platform.y - (Y + YMotion)) % Mod
          BY <4>2, <4>3, <5>1, DistanceWraps, Sizes
        <5>3. platform.y - (Y + YMotion) = platform.y - Y - YMotion
          BY <4>3, Sizes DEF TypeOK
        <5>4. (platform.y - Y - YMotion) % Mod \in Int
          BY <5>2, <5>3, <4>3, <5>1, Wrapped
        <5>5. onPlatform' => OnPlatformNext
          BY <3>1 DEF Move
        <5>. QED BY <4>2, <5>2, <5>3, <5>4, <5>5, SpriteSizes, Sizes DEF OnPlatformNext
      <4>5. CASE YMotion # -Jump
        <5>1. OutBy(Step)
          BY <4>5 DEF BandOK
        <5>2. X + XMotion \in XMin + 1 - 3 * Step..ScrollMax + 3 * Step
          BY <5>1, Sizes DEF OutBy, BandOK, TypeOK
        <5>3. X' = X + XMotion
          BY <4>1, <5>2, NotWrapped, Sizes DEF BandOK, TypeOK
        <5>4. OutBy(2 * Step)'
          BY <4>1, <5>1, <5>3, Sizes DEF OutBy, TypeOK
        <5>5. onPlatform' => JustTookOff'
          <6>. SUFFICES ASSUME onPlatform' PROVE JustTookOff'
            OBVIOUS
          <6>1. YMotion \in 0..GravityTop + GravityStep
            BY <4>5, Sizes DEF TypeOK
          <6>2. (platform.y - Jump - YMotion - Y') % Mod
                  = (platform.y - Jump - YMotion - (Y - Jump)) % Mod
            <7>1. /\ platform.y - Jump - YMotion \in Int /\ Y - Jump \in Int
                  /\ Y' = (Y - Jump) % Mod
              BY <4>1, <4>3, <6>1, Sizes DEF TypeOK
            <7>. QED BY <7>1, DistanceWraps, Sizes
          <6>3. Y - Jump \in Int /\ Y' \in Int
            BY <4>1, Wrapped, Sizes DEF TypeOK
          <6>4. /\ platform.y - Jump - YMotion - (Y - Jump) = platform.y - Y - YMotion
                /\ platform.y - Jump - YMotion - Y' = platform.y - Y' - Jump - YMotion
            BY <4>3, <6>1, <6>3, Sizes DEF TypeOK
          <6>. QED BY <4>3, <4>4, <6>1, <6>2, <6>4 DEF JustTookOff
        <5>6. X' \in XMin + 1 - 3 * Step..ScrollMax + 3 * Step
          BY <5>2, <5>3, Sizes DEF BandOK, TypeOK
        <5>. QED BY <3>2, <4>1, <5>4, <5>5, <5>6 DEF BandOK
      <4>6. CASE YMotion = -Jump
        <5>1. OutBy(2 * Step) /\ (XMotion # 0 => JustTookOff)
          BY <4>1, <4>6 DEF BandOK
        <5>2. X + XMotion \in XMin + 1 - 3 * Step..ScrollMax + 3 * Step
          BY <5>1, Sizes DEF OutBy, BandOK, TypeOK
        <5>3. X' = X + XMotion
          BY <4>1, <5>2, NotWrapped, Sizes DEF BandOK, TypeOK
        <5>4. XMotion # 0 => ~onPlatform'
          <6>. SUFFICES ASSUME JustTookOff PROVE ~onPlatform'
            BY <5>1
          <6>1. PICK g \in 0..GravityTop + GravityStep :
                  (platform.y - Y - Jump - g) % Mod \in Height[Air] - Below..Height[Air] + Above
            BY DEF JustTookOff
          <6>2. (platform.y - Y + Jump) % Mod \notin Height[Air] - Below..Height[Air] + Above
            BY <4>3, <6>1, JumpLeaves, SpriteSizes DEF TypeOK
          <6>3. platform.y - Y - YMotion = platform.y - Y + Jump
            BY <4>3, <4>6, Sizes DEF TypeOK
          <6>. QED BY <4>4, <6>2, <6>3
        <5>5. XMotion = 0 => OutBy(2 * Step)'
          BY <4>1, Sizes DEF OutBy
        <5>. QED BY <3>2, <4>1, <5>2, <5>3, <5>4, <5>5 DEF BandOK
      <4>. QED BY <4>5, <4>6
    <3>. QED BY <3>3, <3>4
  <2>. QED BY <2>2, <2>3
<1>4. CASE ResetSwitch
  <2>1. X' = XStart /\ XMotion' = 0 /\ YMotion' = 0
    BY <1>4 DEF ResetSwitch, AtStart
  <2>. QED BY <2>1, Sizes DEF BandOK, OutBy
<1>. QED BY <1>1, <1>2, <1>3, <1>4 DEF Next

-----------------------------------------------------------------------------
(* The ground. *)

LEMMA PlatformStep ==
  ASSUME TypeOK, PlatformOK, [Next]_vars
  PROVE  PlatformOK'
<1>1. CASE UNCHANGED vars
  BY <1>1 DEF vars, frameVars, PlatformOK
<1>2. CASE VSFall
  <2>1. /\ level' = level /\ FramePtr' = FramePtr /\ scrollBuff' = scrollBuff
        /\ ~VS' /\ VS
        /\ stale' = (stale /\ ~Searching)
        /\ missed' = (~Searching /\ (missed \/ (scrollBuff /\ Shown = {})))
    BY <1>2, Zenon DEF VSFall, frameVars
  <2>2. CASE Searching
    <3>1. platform' = Found /\ Shown # {}
      BY <1>2, <2>2 DEF VSFall, Searching
    <3>2. \E p \in level : /\ p.y = Found.y
                           /\ Found.x1 + FramePtr >= p.x1 + 1
                           /\ Found.x2 + FramePtr <= p.x2 + 1
      BY <3>1, FoundIsShown
    <3>3. Found.x2 \in Int /\ FramePtr \in Int /\ \A p \in level : p.x2 \in Int
      BY <3>1, FoundIsShown, Platforms, Sizes DEF TypeOK
    <3>. QED BY <2>1, <3>1, <3>2, <3>3, Sizes DEF PlatformOK
  <2>3. CASE ~Searching
    <3>1. platform' = platform
      BY <1>2, <2>3 DEF VSFall
    <3>2. CASE scrollBuff
      <4>1. missed'
        <5>1. Shown = {}
          BY <2>3, <3>2 DEF Searching
        <5>. QED BY <2>1, <2>3, <3>2, <5>1, Zenon
      <4>. QED BY <4>1 DEF PlatformOK
    <3>3. CASE ~scrollBuff
      BY <2>1, <2>3, <3>1, <3>3 DEF PlatformOK
    <3>. QED BY <3>2, <3>3
  <2>. QED BY <2>2, <2>3
<1>3. CASE VSRise
  <2>1. /\ level' = level /\ platform' = platform /\ stale' = stale
        /\ missed' = missed /\ VS' /\ ~VS
    BY <1>3, Zenon DEF VSRise
  <2>2. SUFFICES ASSUME ~stale, ~missed
                 PROVE  \E p \in level :
                          /\ p.y = platform.y
                          /\ platform.x1 + FramePtr' >= p.x1 + 1
                          /\ platform.x2 + FramePtr' <= p.x2 + 1 + ScrollStep
    BY <2>1 DEF PlatformOK
  <2>3. PICK p \in level :
          /\ p.y = platform.y
          /\ platform.x1 + FramePtr >= p.x1 + 1
          /\ platform.x2 + FramePtr <= p.x2 + 1 + (IF scrollBuff THEN 0 ELSE ScrollStep)
    BY <2>1, <2>2 DEF PlatformOK
  <2>4. \/ scrollBuff /\ FramePtr' = FramePtr + ScrollStep
        \/ FramePtr' = FramePtr
    BY <1>3 DEF VSRise
  <2>5. /\ platform.x1 \in Int /\ platform.x2 \in Int /\ FramePtr \in Int
        /\ p.x1 \in Int /\ p.x2 \in Int
    BY Platforms, Sizes DEF TypeOK
  <2>. QED BY <2>3, <2>4, <2>5, Sizes
<1>4. CASE ResetSwitch
  <2>1. stale'
    BY <1>4 DEF ResetSwitch
  <2>. QED BY <2>1 DEF PlatformOK
<1>. QED BY <1>1, <1>2, <1>3, <1>4 DEF Next

-----------------------------------------------------------------------------
(* The theorems. *)

\* The invariant holds in every state, whatever the keys do and whenever the
\* switch resets the player.
THEOREM Invariance == Spec => []IInv
<1>1. Init => IInv
  <2>. SUFFICES ASSUME Init PROVE IInv
    OBVIOUS
  <2>1. 0 \in Codes /\ CountMod >= 2
    BY PlayerAssumption
  <2>2. {platform.x1, platform.x2, platform.y} \subseteq 0..Mod - 1
    BY Sizes DEF Init
  <2>3. TypeOK
    <3>1. /\ onPlatform = TRUE /\ Jumping = FALSE /\ scrollBuff = FALSE
          /\ counted = FALSE /\ VS = FALSE /\ stale = TRUE /\ missed = FALSE
      BY DEF Init
    <3>2. /\ X \in 0..Mod - 1 /\ Y \in 0..Mod - 1 /\ XMotion = 0 /\ YMotion = 0
          /\ gravityTime \in 0..GravityTop + GravityStep /\ keycode \in Codes
          /\ FrameCount \in 0..CountMod - 1 /\ FramePtr \in 0..LastPtr + ScrollStep
          /\ level \in Levels /\ Direction = "Right"
      BY <2>1, Sizes DEF Init
    <3>. QED BY <2>2, <3>1, <3>2 DEF TypeOK
  <2>4. BandOK
    BY Sizes DEF Init, BandOK, OutBy
  <2>. QED BY <2>3, <2>4 DEF IInv, PlatformOK, Init
<1>2. IInv /\ [Next]_vars => IInv'
  BY TypesStep, BandStep, PlatformStep DEF IInv
<1>. QED BY <1>1, <1>2, PTL DEF Spec

\* playerMovement.sv keeps the player in the band of the screen in which the
\* level scrolls, with the overshoot of one step of his walk and two jump
\* frames, and its positions never wrap sideways.
THEOREM StaysInBand == Spec => []InBand
<1>1. IInv => InBand
  BY DEF IInv, BandOK, InBand
<1>. QED BY <1>1, Invariance, PTL

\* The test of the platform puts the player on ground that the level has under
\* his middle, to a scrolled frame, although the detector rests while he stands.
THEOREM GroundUnderFeet == Spec => StandsOnGround
<1>. DEFINE Stands == ~VS /\ VS' /\ onPlatform' /\ ~stale /\ ~missed =>
              \E p \in level :
                /\ p.y = platform.y
                /\ Centre + FramePtr \in p.x1 + 1..p.x2 + 1 + ScrollStep
<1>1. IInv /\ [Next]_vars => [Stands]_vars
  <2>. SUFFICES ASSUME IInv, [Next]_vars, ~VS, VS', onPlatform', ~stale, ~missed
                PROVE  \E p \in level :
                         /\ p.y = platform.y
                         /\ Centre + FramePtr \in p.x1 + 1..p.x2 + 1 + ScrollStep
    OBVIOUS
  <2>0. VSRise
    BY DEF Next, vars, VSFall, ResetSwitch
  <2>1. TypeOK /\ PlatformOK
    BY DEF IInv
  <2>2. platform.x1 <= Centre /\ Centre <= platform.x2
    <3>1. PICK keyPress \in BOOLEAN : IF OffScreen THEN Restart ELSE Move(keyPress)
      BY <2>0 DEF VSRise
    <3>2. Move(keyPress)
      BY <3>1 DEF Restart
    <3>. QED BY <3>2 DEF Move, OnPlatformNext
  <2>3. PICK p \in level :
          /\ p.y = platform.y
          /\ platform.x1 + FramePtr >= p.x1 + 1
          /\ platform.x2 + FramePtr <= p.x2 + 1 + ScrollStep
    <3>1. PICK p \in level :
            /\ p.y = platform.y
            /\ platform.x1 + FramePtr >= p.x1 + 1
            /\ platform.x2 + FramePtr <=
                 p.x2 + 1 + (IF scrollBuff /\ ~VS THEN 0 ELSE ScrollStep)
      BY <2>1 DEF PlatformOK
    <3>2. platform.x2 \in Int /\ FramePtr \in Int /\ p.x2 \in Int
      BY <2>1, Platforms, Sizes DEF TypeOK
    <3>. QED BY <3>1, <3>2, Sizes
  <2>4. /\ platform.x1 \in Int /\ platform.x2 \in Int /\ FramePtr \in Int
        /\ p.x1 \in Int /\ p.x2 \in Int
    BY <2>1, Platforms, Sizes DEF TypeOK
  <2>5. Centre \in Int
    <3>1. X + PlayerWidth \div 2 \in Int
      BY <2>1, SpriteSizes, Sizes DEF TypeOK
    <3>. QED BY <3>1, Wrapped DEF Centre
  <2>. QED BY <2>2, <2>3, <2>4, <2>5, Sizes
<1>. QED BY <1>1, Invariance, PTL DEF Spec, StandsOnGround
=============================================================================
