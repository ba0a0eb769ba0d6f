------------------------ MODULE PlatformDetectorProofs ------------------------
(***************************************************************************)
(* Proofs about PlatformDetector.tla under the timing of VgaTiming.tla,    *)
(* for every size of the picture and of its blanking, every test column    *)
(* and every level whose yellow comes in pairs of columns.                 *)
(***************************************************************************)
EXTENDS PlatformDetector, WellFoundedInduction, TLAPS

(* What the detector's registers mean between two pixels.  A reset cuts a  *)
(* picture: the next one begins after the next sync.                       *)

Whole == found # "cut"
InPicture == Whole /\ VS # 0 /\ DrawY < VSyncLine

\* The sync is low from the first pixel of the line before VSyncLine for two
\* lines, and after a reset for a pixel.
SyncOK ==
  /\ VS = 0 => \/ DrawY \in VSyncLine - 1..VSyncLine
               \/ DrawY = VSyncLine + 1 /\ DrawX = 0
               \/ DrawY = 0 /\ DrawX = 0 /\ ~Whole
  /\ VS # 0 /\ DrawY = VSyncLine - 1 => DrawX = 0

\* The level scrolls by two columns.
ScrollOK == FramePtr % 2 = 0

\* The register of the pixel is a column behind.
PixelOK ==
  Whole => backgroundPixel =
             IF DrawX > 0 THEN Yellow(DrawX - 1, DrawY) ELSE Yellow(HTotal - 1, DrawY - 1)

\* Between the first clock of the sync and the next picture nothing is noted.
Idle == found = "nothing" /\ PlatformState = "NotSeen" /\ ~platformFlag
IdleOK ==
  /\ Whole /\ DrawY >= VSyncLine => Idle
  /\ Whole /\ DrawY = VSyncLine - 1 /\ VS = 0 =>
       found # "start" /\ PlatformState \in {"NotSeen", "Seen"}

Looking == DrawY >= feet /\ Searching

\* There is ground from the noted left end to the column x2 of the screen.
GroundUpTo(x2) ==
  \A x \in 1..HVisible - 1 : PlatformX1 <= x + 1 /\ x + 1 <= x2 => Yellow(x, PlatformY)

\* Before a platform: no visible column but the last has been yellow in this line.
NotSeenOK ==
  InPicture /\ PlatformState = "NotSeen" =>
    /\ Idle
    /\ Looking => \A x \in 0..HVisible - 2 : x + 1 < DrawX => ~Yellow(x, DrawY)

\* It starts: the two columns before are yellow, unless the line begins here.
StartOK ==
  InPicture /\ PlatformState = "Start" =>
    /\ found = "nothing" /\ ~platformFlag /\ Looking
    /\ DrawX \in 1..HVisible /\ DrawY < VVisible
    /\ DrawX > 1 => Yellow(DrawX - 2, DrawY) /\ Yellow(DrawX - 1, DrawY)

\* It goes on in its line, over the right edge too, or in the line after it.
WaitOK ==
  InPicture /\ PlatformState = "Wait" =>
    /\ found = "start" /\ ~platformFlag /\ Searching
    /\ PlatformY >= feet /\ PlatformY \in 0..VVisible - 1
    /\ PlatformX1 \in 0..HVisible - 1
    /\ \/ /\ DrawY = PlatformY
          /\ PlatformX1 + 2 <= DrawX
          /\ GroundUpTo(DrawX - 1)
       \/ /\ DrawY = PlatformY + 1
          /\ DrawX <= TestColumn
          /\ GroundUpTo(HVisible)

\* It ends: the column before the one before is its last.
EndOK ==
  InPicture /\ PlatformState = "End" =>
    /\ found = "start" /\ ~platformFlag /\ Looking
    /\ DrawX \in 1..HVisible /\ DrawY <= VVisible
    /\ PlatformY >= feet
    /\ GroundUpTo((DrawX - 2) % Mod)

\* It has been noted, until the sync.
SeenOK ==
  InPicture /\ PlatformState = "Seen" =>
    /\ found = "platform" /\ platformFlag
    /\ PlatformY >= feet
    /\ GroundUpTo(PlatformX2)

\* The first line below the feet with yellow is y, and its first run goes from
\* first to last, ends before the test column and is not hidden by the blanking.
FirstAt(y, first, last) ==
  /\ y >= feet /\ first < last /\ last + 2 <= TestColumn
  /\ ~Yellow(HTotal - 1, feet - 1)
  /\ \A l \in 0..y - 1, x \in 0..HTotal - 1 : l >= feet => ~Yellow(x, l)
  /\ \A x \in 0..first - 1 : ~Yellow(x, y)
  /\ \A x \in first..last : Yellow(x, y)
  /\ ~Yellow(last + 1, y)

\* Where the search is, pixel by pixel, when that is so.
SearchAt(y, first, last) ==
  /\ DrawY < y \/ (DrawY = y /\ DrawX <= first + 1) => PlatformState = "NotSeen"
  /\ DrawY = y /\ DrawX = first + 2 => PlatformState = "Start"
  /\ DrawY = y /\ DrawX \in first + 3..last + 2 => PlatformState = "Wait"
  /\ DrawY = y /\ DrawX = last + 3 => PlatformState = "End"
  /\ DrawY > y \/ (DrawY = y /\ DrawX > last + 3) =>
       PlatformState = "Seen" /\ PlatformX2 = last + 1
  /\ DrawY > y \/ (DrawY = y /\ DrawX >= first + 3) =>
       PlatformY = y /\ PlatformX1 = first + 1

FirstOK ==
  InPicture /\ Searching =>
    \A y \in 0..VVisible - 1, first, last \in 0..HTotal - 1 :
      FirstAt(y, first, last) => SearchAt(y, first, last)

\* The inductive invariant.
StateOK == NotSeenOK /\ StartOK /\ WaitOK /\ EndOK /\ SeenOK
IInv == TypeOK /\ SyncOK /\ ScrollOK /\ PixelOK /\ IdleOK /\ StateOK /\ FirstOK

-----------------------------------------------------------------------------
(* Lemmas on the counters and on the pixels. *)

LEMMA Sizes ==
  /\ HVisible \in Nat /\ HVisible > 2 /\ HVisible % 2 = 0
  /\ HTotal \in Nat /\ HVisible < HTotal /\ VTotal \in Nat
  /\ VVisible \in Nat /\ VVisible > 0 /\ VSyncLine \in Nat
  /\ VVisible + 1 < VSyncLine /\ VSyncLine + 1 < VTotal
  /\ TestColumn \in Nat /\ TestColumn < HVisible
  /\ Mod \in Nat /\ HTotal <= Mod /\ VTotal <= Mod /\ LastPtr \in Nat
BY GeometryAssumption, DetectorAssumption

\* A counter that starts again.
LEMMA StepsRound ==
  ASSUME NEW n \in Nat \ {0}, NEW i \in 0..n - 1
  PROVE  (i + 1) % n = IF i + 1 = n THEN 0 ELSE i + 1
OBVIOUS

\* A rising edge of the pixel clock moves the counters a pixel on.
LEMMA EdgeMoves ==
  ASSUME VgaTypeOK, PixelEdge
  PROVE  /\ DrawX' = IF DrawX + 1 = HTotal THEN 0 ELSE DrawX + 1
         /\ DrawY' = IF DrawX + 1 # HTotal THEN DrawY
                     ELSE IF DrawY + 1 = VTotal THEN 0 ELSE DrawY + 1
         /\ VS' = IF DrawY \in VSyncLine - 1..VSyncLine THEN 0 ELSE 1
<1>. USE Sizes DEF VgaTypeOK
<1>1. /\ (DrawX + 1) % HTotal = IF DrawX + 1 = HTotal THEN 0 ELSE DrawX + 1
      /\ (DrawY + 1) % VTotal = IF DrawY + 1 = VTotal THEN 0 ELSE DrawY + 1
  BY StepsRound
<1>. QED BY <1>1 DEF PixelEdge

LEMMA YellowInPicture ==
  ASSUME NEW x, NEW y, Yellow(x, y)
  PROVE  y \in 0..VVisible - 1
BY DEF Yellow

\* Yellow comes in pairs on the screen too, because the level scrolls by two.
LEMMA YellowPairs ==
  ASSUME TypeOK, ScrollOK, NEW x \in Nat, NEW y, Yellow(x, y)
  PROVE  /\ x % 2 = 0 => Yellow(x + 1, y)
         /\ x % 2 # 0 => x > 0 /\ Yellow(x - 1, y)
<1>1. /\ y \in 0..VVisible - 1 /\ x + FramePtr \in level[y]
      /\ level[y] \in Rows /\ FramePtr \in Nat
  BY Sizes DEF Yellow, TypeOK
<1>2. IF (x + FramePtr) % 2 = 0 THEN x + FramePtr + 1 \in level[y]
                                ELSE x + FramePtr - 1 \in level[y]
  BY <1>1, DetectorAssumption
<1>3. (x + FramePtr) % 2 = x % 2
  BY <1>1 DEF ScrollOK
<1>4. /\ x + FramePtr + 1 = x + 1 + FramePtr
      /\ x + FramePtr - 1 = x - 1 + FramePtr
      /\ x % 2 # 0 => x > 0
  BY <1>1
<1>. QED BY <1>1, <1>2, <1>3, <1>4 DEF Yellow

\* A set of lines or columns has a first one.
LEMMA LeastOf ==
  ASSUME NEW S, S \subseteq Nat, S # {}
  PROVE  Min(S) \in S /\ \A y \in S : Min(S) <= y
<1>. DEFINE Less == {ss \in Nat \X Nat : ss[1] < ss[2]}
<1>1. IsWellFoundedOn(Less, Nat)
  BY NatLessThanWellFounded DEF OpToRel
<1>2. \E x \in S : \A y \in S : <<y, x>> \notin Less
  <2>. HIDE DEF Less
  <2>. QED BY <1>1, WFMin, Zenon
<1>3. \A x, y \in Nat : <<y, x>> \notin Less => x <= y
  OBVIOUS
<1>. HIDE DEF Less
<1>4. \E x \in S : \A y \in S : x <= y
  BY <1>2, <1>3
<1>. QED BY <1>4 DEF Min

\* The first line that has yellow, and the first run of it.
LEMMA FirstRun ==
  ASSUME TypeOK, ScrollOK, YellowLines # {}, NEW y, y = Min(YellowLines),
         LastColumn(y) + 2 <= TestColumn
  PROVE  /\ y \in 0..VVisible - 1 /\ y >= feet
         /\ \A l \in 0..VVisible - 1, x \in 0..HTotal - 1 :
              l >= feet /\ l < y => ~Yellow(x, l)
         /\ FirstColumn(y) \in Nat /\ LastColumn(y) \in Nat
         /\ FirstColumn(y) < LastColumn(y) /\ LastColumn(y) + 3 <= HVisible
         /\ \A x \in 0..FirstColumn(y) - 1 : ~Yellow(x, y)
         /\ \A x \in FirstColumn(y)..LastColumn(y) : Yellow(x, y)
         /\ ~Yellow(LastColumn(y) + 1, y)
<1>. DEFINE Ends == {x \in Columns(y) : x + 1 \notin Columns(y)}
            first == FirstColumn(y)
            last == LastColumn(y)
<1>1. y \in YellowLines /\ \A l \in YellowLines : y <= l
  <2>1. YellowLines \subseteq Nat
    BY DEF YellowLines
  <2>. QED BY <2>1, LeastOf
<1>2. y \in 0..VVisible - 1 /\ y >= feet /\ Columns(y) # {}
  BY <1>1 DEF YellowLines
<1>3. \A l \in 0..VVisible - 1, x \in 0..HTotal - 1 : l >= feet /\ l < y => ~Yellow(x, l)
  BY <1>1, <1>2 DEF YellowLines, Columns
<1>4. first \in Columns(y) /\ \A x \in Columns(y) : first <= x
  <2>1. Columns(y) \subseteq Nat
    BY Sizes DEF Columns
  <2>. QED BY <1>2, <2>1, LeastOf DEF FirstColumn
<1>5. Columns(y) \subseteq 0..HTotal - 1
  BY DEF Columns
<1>. HIDE DEF Ends, first, last
<1>6. Ends # {}
  <2>. SUFFICES ASSUME Ends = {} PROVE FALSE
    OBVIOUS
  <2>1. \A x \in Columns(y) : x + 1 \in Columns(y)
    BY DEF Ends
  <2>. DEFINE Gaps == {x \in Nat : x > first /\ x \notin Columns(y)}
  <2>2. HTotal \in Gaps
    BY <1>4, <1>5, Sizes
  <2>3. Min(Gaps) \in Gaps /\ \A x \in Gaps : Min(Gaps) <= x
    <3>1. Gaps \subseteq Nat /\ Gaps # {}
      BY <2>2
    <3>. HIDE DEF Gaps
    <3>. QED BY <3>1, LeastOf
  <2>. DEFINE gap == Min(Gaps)
  <2>4. gap \in Nat /\ gap > first /\ gap \notin Columns(y) /\ first \in Nat
    BY <2>3, <1>4, <1>5, Sizes
  <2>. HIDE DEF gap
  <2>5. gap - 1 \in Columns(y)
    <3>1. CASE gap - 1 = first
      BY <3>1, <1>4
    <3>2. CASE gap - 1 > first
      <4>1. gap - 1 \notin Gaps
        BY <2>3, <2>4 DEF gap
      <4>. QED BY <2>4, <3>2, <4>1
    <3>. QED BY <2>4, <3>1, <3>2
  <2>. QED BY <2>1, <2>4, <2>5
<1>7. last \in Ends /\ \A x \in Ends : last <= x
  <2>1. Ends \subseteq Nat
    BY <1>5, Sizes DEF Ends
  <2>. QED BY <1>6, <2>1, LeastOf DEF LastColumn, last, Ends
<1>8. first \in Nat /\ last \in Nat /\ first <= last /\ last + 3 <= HVisible
  BY <1>4, <1>5, <1>7, Sizes DEF Ends, last
<1>9. \A x \in 0..first - 1 : x \notin Columns(y)
  BY <1>4, <1>8
<1>10. \A x \in first..last : x \in Columns(y)
  <2>. SUFFICES ASSUME NEW c \in first..last, c \notin Columns(y)
                PROVE  FALSE
    OBVIOUS
  <2>. DEFINE Gaps == {x \in Nat : x >= first /\ x \notin Columns(y)}
              gap == Min(Gaps)
  <2>1. c \in Gaps
    BY <1>8
  <2>2. gap \in Gaps /\ \A x \in Gaps : gap <= x
    <3>1. Gaps \subseteq Nat /\ Gaps # {}
      BY <2>1
    <3>. HIDE DEF Gaps
    <3>. QED BY <3>1, LeastOf
  <2>. HIDE DEF gap
  <2>3. gap \in Nat /\ gap > first /\ gap <= last /\ gap \notin Columns(y)
    BY <1>4, <1>8, <2>1, <2>2
  <2>4. gap - 1 \in Columns(y)
    <3>1. gap - 1 \notin Gaps
      BY <2>2, <2>3
    <3>. QED BY <1>8, <2>3, <3>1
  <2>5. gap - 1 \in Ends
    BY <2>3, <2>4 DEF Ends
  <2>. QED BY <1>7, <1>8, <2>3, <2>5
<1>11. \A x \in 0..HTotal - 1 : x \in Columns(y) <=> Yellow(x, y)
  BY DEF Columns
<1>12. /\ \A x \in 0..first - 1 : ~Yellow(x, y)
       /\ \A x \in first..last : Yellow(x, y)
       /\ ~Yellow(last + 1, y)
  <2>1. last + 1 \notin Columns(y)
    BY <1>7 DEF Ends
  <2>. QED BY <1>8, <1>9, <1>10, <1>11, <2>1, Sizes
<1>13. first # last
  <2>. SUFFICES ASSUME first = last PROVE FALSE
    OBVIOUS
  <2>1. Yellow(first, y) /\ ~Yellow(first + 1, y)
    BY <1>8, <1>12
  <2>2. first > 0 /\ Yellow(first - 1, y)
    BY <1>8, <2>1, YellowPairs
  <2>. QED BY <1>8, <1>12, <2>2
<1>. QED BY <1>2, <1>3, <1>8, <1>12, <1>13 DEF first, last

-----------------------------------------------------------------------------
(* The steps of the registers and of the counters. *)

LEMMA ClkTypes ==
  ASSUME TypeOK, PixelClk
  PROVE  TypeOK'
<1>. USE Sizes DEF TypeOK, VgaTypeOK, PixelClk
<1>1. /\ DrawX' \in 0..HTotal - 1 /\ DrawY' \in 0..VTotal - 1 /\ VS' \in {0, 1}
      /\ pixel_clk' = pixel_clk
  BY EdgeMoves
<1>2. FramePtr' \in 0..LastPtr + 1 /\ feet' \in FeetLines
  BY DEF NewFrame, inputVars
<1>3. onPlatform' \in BOOLEAN /\ ScrollEnable' \in BOOLEAN
  BY DEF NewFrame, inputVars
<1>4. PlatformState' \in {"NotSeen", "Start", "Wait", "End", "Seen"}
  BY DEF NextState
<1>5. {PlatformX1', PlatformX2', PlatformY'} \subseteq 0..Mod - 1
  <2>1. (DrawX - 1) % Mod \in 0..Mod - 1 /\ (DrawX - 2) % Mod \in 0..Mod - 1
    OBVIOUS
  <2>2. DrawY \in 0..Mod - 1
    OBVIOUS
  <2>. QED BY <2>1, <2>2 DEF Note
<1>6. backgroundPixel' \in BOOLEAN
  BY Zenon DEF Yellow
<1>7. platformFlag' \in BOOLEAN
  BY Zenon DEF Note
<1>8. found' \in {"nothing", "start", "platform", "cut"}
  BY DEF Note
<1>9. level' = level /\ Reset' = Reset
  OBVIOUS
<1>. QED BY <1>1, <1>2, <1>3, <1>4, <1>5, <1>6, <1>7, <1>8, <1>9

\* The flag, what has been found and the search, clock by clock.
LEMMA Notes ==
  ASSUME TypeOK, PixelClk
  PROVE  /\ VS = 0 /\ DrawY >= VVisible => Idle'
         /\ VS = 0 /\ DrawY < VVisible /\ ~Whole => ~Whole'
         /\ VS # 0 /\ ~Whole => ~Whole'
         /\ VS # 0 /\ Whole =>
              /\ PlatformState' = NextState
              /\ ~(Enabled /\ PlatformState = "Start") => PlatformY' = PlatformY
                                                          /\ PlatformX1' = PlatformX1
              /\ ~(Enabled /\ PlatformState = "End") => PlatformX2' = PlatformX2
                                                        /\ platformFlag' = platformFlag
              /\ PlatformState \notin {"Start", "End"} \/ ~Enabled => found' = found
<1>. USE DEF PixelClk, Note, Whole
<1>1. VS = 0 /\ DrawY >= VVisible => Idle'
  BY DEF Idle
<1>2. ~Whole /\ ~(VS = 0 /\ DrawY >= VVisible) => ~Whole'
  OBVIOUS
<1>3. VS = 0 /\ DrawY < VVisible /\ ~Whole => ~Whole'
  BY <1>2, Sizes DEF TypeOK, VgaTypeOK
<1>4. ASSUME VS # 0, Whole
      PROVE  /\ PlatformState' = NextState
             /\ ~(Enabled /\ PlatformState = "Start") => PlatformY' = PlatformY
                                                         /\ PlatformX1' = PlatformX1
             /\ ~(Enabled /\ PlatformState = "End") => PlatformX2' = PlatformX2
  BY <1>4
<1>5. ASSUME VS # 0, ~(Enabled /\ PlatformState = "End")
      PROVE  platformFlag' = platformFlag
  BY <1>5, Zenon DEF TypeOK
<1>6. ASSUME VS # 0, PlatformState \notin {"Start", "End"} \/ ~Enabled
      PROVE  found' = found
  BY <1>6
<1>. QED BY <1>1, <1>2, <1>3, <1>4, <1>5, <1>6

\* The next state, one state at a time.
LEMMA NextStates ==
  /\ ~Enabled => NextState = PlatformState
  /\ Enabled /\ PlatformState = "NotSeen" =>
       NextState = IF backgroundPixel /\ Visible THEN "Start" ELSE "NotSeen"
  /\ Enabled /\ PlatformState = "Start" => NextState = "Wait"
  /\ Enabled /\ PlatformState = "Wait" =>
       NextState = IF (~backgroundPixel /\ Visible) \/ DrawX = TestColumn
                   THEN "End" ELSE "Wait"
  /\ Enabled /\ PlatformState = "End" => NextState = "Seen"
<1>. DEFINE sees == IF backgroundPixel /\ Visible THEN "Start" ELSE "NotSeen"
            ends == IF (~backgroundPixel /\ Visible) \/ DrawX = TestColumn
                    THEN "End" ELSE "Wait"
<1>1. NextState = IF ~Enabled THEN PlatformState
                  ELSE CASE PlatformState = "NotSeen" -> sees
                         [] PlatformState = "Start" -> "Wait"
                         [] PlatformState = "Wait" -> ends
                         [] OTHER -> "Seen"
  BY DEF NextState
<1>. HIDE DEF sees, ends
<1>2. ASSUME ~Enabled PROVE NextState = PlatformState
  BY <1>1, <1>2
<1>3. ASSUME Enabled
      PROVE  /\ PlatformState = "NotSeen" => NextState = sees
             /\ PlatformState = "Start" => NextState = "Wait"
             /\ PlatformState = "Wait" => NextState = ends
             /\ PlatformState = "End" => NextState = "Seen"
  BY <1>1, <1>3
<1>. QED BY <1>2, <1>3, Zenon DEF sees, ends

LEMMA SyncStep ==
  ASSUME TypeOK, SyncOK, PixelClk
  PROVE  SyncOK'
<1>1. VgaTypeOK /\ PixelEdge
  BY DEF TypeOK, PixelClk
<1>. QED BY <1>1, EdgeMoves, Sizes DEF SyncOK, VgaTypeOK

\* The inputs change in the blanking only, or in a picture that is cut.
LEMMA InputsHold ==
  ASSUME TypeOK, SyncOK, PixelClk, Whole'
  PROVE  DrawY < VVisible => /\ Whole /\ VS # 0
                             /\ UNCHANGED inputVars
<1>. SUFFICES ASSUME DrawY < VVisible
              PROVE  Whole /\ VS # 0 /\ UNCHANGED inputVars
  OBVIOUS
<1>1. Whole
  BY Notes
<1>2. VS # 0
  BY <1>1, Sizes DEF SyncOK
<1>. QED BY <1>1, <1>2 DEF PixelClk, VSRises

LEMMA PixelStep ==
  ASSUME TypeOK, SyncOK, PixelClk
  PROVE  PixelOK'
<1>. SUFFICES ASSUME Whole'
              PROVE  backgroundPixel' = IF DrawX' > 0 THEN Yellow(DrawX - 1, DrawY)'
                                        ELSE Yellow(HTotal - 1, DrawY - 1)'
  BY DEF PixelOK
<1>1. /\ VgaTypeOK /\ PixelEdge /\ backgroundPixel' = Yellow(DrawX, DrawY)
      /\ level' = level
  BY DEF TypeOK, PixelClk
<1>2. CASE DrawY < VVisible
  <2>1. FramePtr' = FramePtr
    BY <1>2, InputsHold DEF inputVars
  <2>2. CASE DrawX + 1 # HTotal
    <3>1. DrawX' > 0 /\ DrawX' - 1 = DrawX /\ DrawY' = DrawY
      BY <1>1, <2>2, EdgeMoves DEF VgaTypeOK
    <3>. QED BY <1>1, <2>1, <3>1 DEF Yellow
  <2>3. CASE DrawX + 1 = HTotal
    <3>1. /\ ~(DrawX' > 0) /\ DrawX = HTotal - 1
          /\ DrawY' - 1 = DrawY
      BY <1>1, <1>2, <2>3, EdgeMoves, Sizes DEF VgaTypeOK
    <3>. QED BY <1>1, <2>1, <3>1 DEF Yellow
  <2>. QED BY <2>2, <2>3
<1>3. CASE DrawY >= VVisible
  <2>1. ~backgroundPixel' /\ backgroundPixel' \in BOOLEAN
    <3>1. ~Yellow(DrawX, DrawY)
      BY <1>3, Sizes DEF Yellow, TypeOK, VgaTypeOK
    <3>. QED BY <1>1, <3>1, Zenon DEF Yellow
  <2>2. CASE DrawX' > 0
    <3>1. DrawY' \notin 0..VVisible - 1
      BY <1>1, <1>3, <2>2, EdgeMoves, Sizes DEF VgaTypeOK
    <3>2. ~Yellow(DrawX - 1, DrawY)'
      BY <3>1 DEF Yellow
    <3>. QED BY <2>1, <2>2, <3>2, Zenon DEF Yellow
  <2>3. CASE ~(DrawX' > 0)
    <3>1. DrawY' - 1 \notin 0..VVisible - 1
      BY <1>1, <1>3, <2>3, EdgeMoves, Sizes DEF VgaTypeOK
    <3>2. ~Yellow(HTotal - 1, DrawY - 1)'
      BY <3>1 DEF Yellow
    <3>. QED BY <2>1, <2>3, <3>2, Zenon DEF Yellow
  <2>. QED BY <2>2, <2>3
<1>. QED BY <1>2, <1>3, Sizes DEF TypeOK, VgaTypeOK

LEMMA ScrollStep ==
  ASSUME TypeOK, ScrollOK, PixelClk
  PROVE  ScrollOK'
<1>1. FramePtr' = FramePtr \/ FramePtr' = FramePtr + 2
  BY DEF PixelClk, NewFrame, inputVars
<1>. QED BY <1>1, Sizes DEF ScrollOK, TypeOK

\* A picture is entered from the blanking before it, or from its last pixel.
LEMMA InPictureBefore ==
  ASSUME TypeOK, SyncOK, IdleOK, PixelClk, InPicture'
  PROVE  /\ Whole /\ VS # 0 /\ UNCHANGED inputVars
         /\ \/ InPicture /\ DrawY < VSyncLine - 1
            \/ Idle' /\ DrawX' = 0 /\ DrawY' = 0
<1>. USE Sizes DEF TypeOK, VgaTypeOK
<1>1. /\ DrawX' = IF DrawX + 1 = HTotal THEN 0 ELSE DrawX + 1
      /\ DrawY' = IF DrawX + 1 # HTotal THEN DrawY
                  ELSE IF DrawY + 1 = VTotal THEN 0 ELSE DrawY + 1
      /\ DrawY \notin VSyncLine - 1..VSyncLine /\ DrawY' < VSyncLine
  <2>1. PixelEdge
    BY DEF PixelClk
  <2>. QED BY <2>1, EdgeMoves DEF InPicture
<1>2. CASE DrawY < VSyncLine - 1
  <2>1. VS # 0
    <3>. SUFFICES ASSUME VS = 0 PROVE FALSE
      OBVIOUS
    <3>1. DrawY = 0 /\ ~Whole
      BY <1>2 DEF SyncOK
    <3>. QED BY <3>1, Notes DEF InPicture
  <2>2. Whole
    BY <2>1, Notes DEF InPicture
  <2>3. UNCHANGED inputVars
    BY <2>1 DEF PixelClk, VSRises
  <2>. QED BY <1>2, <2>1, <2>2, <2>3 DEF InPicture
<1>3. CASE DrawY > VSyncLine
  <2>1. DrawX + 1 = HTotal /\ DrawY + 1 = VTotal /\ DrawX' = 0 /\ DrawY' = 0
    BY <1>1, <1>3
  <2>2. VS # 0
    BY <1>3, <2>1 DEF SyncOK
  <2>3. Whole
    BY <2>2, Notes DEF InPicture
  <2>4. UNCHANGED inputVars
    BY <2>2 DEF PixelClk, VSRises
  <2>5. Idle
    BY <1>3, <2>3 DEF IdleOK
  <2>6. PlatformState' = "NotSeen" /\ found' = found /\ platformFlag' = platformFlag
    <3>1. NextState = "NotSeen"
      <4>1. ~Visible /\ PlatformState = "NotSeen"
        BY <1>3, <2>5 DEF Visible, Idle
      <4>. QED BY <4>1, NextStates, Zenon
    <3>. QED BY <2>2, <2>3, <2>5, <3>1, Notes DEF Idle
  <2>7. Idle'
    BY <2>5, <2>6 DEF Idle
  <2>. QED BY <2>1, <2>2, <2>3, <2>4, <2>7
<1>. QED BY <1>1, <1>2, <1>3

LEMMA IdleStep ==
  ASSUME TypeOK, SyncOK, IdleOK, StateOK, PixelClk
  PROVE  IdleOK'
<1>. USE Sizes DEF TypeOK, VgaTypeOK
<1>1. /\ DrawX' = IF DrawX + 1 = HTotal THEN 0 ELSE DrawX + 1
      /\ DrawY' = IF DrawX + 1 # HTotal THEN DrawY
                  ELSE IF DrawY + 1 = VTotal THEN 0 ELSE DrawY + 1
      /\ VS' = IF DrawY \in VSyncLine - 1..VSyncLine THEN 0 ELSE 1
  <2>1. PixelEdge
    BY DEF PixelClk
  <2>. QED BY <2>1, EdgeMoves
<1>2. CASE VS = 0 /\ DrawY >= VVisible
  BY <1>2, Notes DEF IdleOK, Idle
<1>3. CASE VS = 0 /\ DrawY < VVisible
  BY <1>1, <1>3 DEF IdleOK
<1>4. CASE VS # 0 /\ ~Whole
  BY <1>4, Notes DEF IdleOK
<1>5. CASE VS # 0 /\ Whole
  <2>1. CASE DrawY >= VSyncLine
    <3>1. Idle
      BY <1>5, <2>1 DEF IdleOK
    <3>2. PlatformState' = "NotSeen" /\ found' = found /\ platformFlag' = platformFlag
      <4>1. NextState = "NotSeen"
        <5>1. ~Visible /\ PlatformState = "NotSeen"
          BY <2>1, <3>1 DEF Visible, Idle
        <5>. QED BY <5>1, NextStates, Zenon
      <4>. QED BY <1>5, <3>1, <4>1, Notes DEF Idle
    <3>. QED BY <3>1, <3>2 DEF IdleOK, Idle
  <2>2. CASE DrawY = VSyncLine - 1
    <3>1. DrawX = 0 /\ DrawY' = VSyncLine - 1
      BY <1>1, <1>5, <2>2 DEF SyncOK
    <3>2. InPicture /\ ~Visible /\ PlatformState \in {"NotSeen", "Seen"}
      <4>1. InPicture /\ ~Visible
        BY <1>5, <2>2 DEF InPicture, Visible
      <4>2. PlatformState \notin {"Start", "Wait", "End"}
        BY <2>2, <4>1 DEF StateOK, StartOK, WaitOK, EndOK
      <4>. QED BY <4>1, <4>2
    <3>3. PlatformState' = PlatformState
      <4>1. PlatformState = "Seen" => ~Enabled
        BY <3>2 DEF StateOK, SeenOK, Enabled
      <4>. QED BY <1>5, <3>2, <4>1, Notes DEF NextState
    <3>4. found' = found /\ found # "start"
      BY <1>5, <3>2, Notes DEF StateOK, NotSeenOK, SeenOK, Idle
    <3>. QED BY <3>1, <3>2, <3>3, <3>4 DEF IdleOK
  <2>3. CASE DrawY < VSyncLine - 1
    BY <1>1, <2>3 DEF IdleOK
  <2>. QED BY <2>1, <2>2, <2>3
<1>. QED BY <1>2, <1>3, <1>4, <1>5

-----------------------------------------------------------------------------
(* The search, state by state, from one pixel of a picture to the next. *)

\* What a step in a picture leaves as it is.
LEMMA SamePicture ==
  ASSUME PixelClk, UNCHANGED inputVars
  PROVE  /\ \A x, y : Yellow(x, y)' <=> Yellow(x, y)
         /\ Searching' <=> Searching
         /\ feet' = feet /\ level' = level /\ FramePtr' = FramePtr
<1>1. /\ feet' = feet /\ level' = level /\ FramePtr' = FramePtr
      /\ onPlatform' = onPlatform /\ ScrollEnable' = ScrollEnable
  BY DEF PixelClk, inputVars
<1>. QED BY <1>1 DEF Yellow, Searching

LEMMA NextPixel ==
  ASSUME TypeOK, PixelClk
  PROVE  /\ DrawX \in 0..HTotal - 1 /\ DrawY \in 0..VTotal - 1
         /\ DrawX' = IF DrawX + 1 = HTotal THEN 0 ELSE DrawX + 1
         /\ DrawY' = IF DrawX + 1 # HTotal THEN DrawY
                     ELSE IF DrawY + 1 = VTotal THEN 0 ELSE DrawY + 1
BY EdgeMoves DEF TypeOK, VgaTypeOK, PixelClk

\* A pixel of the picture is seen by the search one column later.
LEMMA SeesPixel ==
  ASSUME TypeOK, PixelOK, Whole, DrawX > 0
  PROVE  backgroundPixel <=> Yellow(DrawX - 1, DrawY)
BY Zenon DEF PixelOK

LEMMA FromNotSeen ==
  ASSUME TypeOK, ScrollOK, PixelOK, StateOK, PixelClk, InPicture, InPicture',
         DrawY < VSyncLine - 1, UNCHANGED inputVars, PlatformState = "NotSeen"
  PROVE  StateOK'
<1>. USE Sizes
<1>1. /\ feet' = feet /\ level' = level /\ FramePtr' = FramePtr
      /\ (Searching' <=> Searching)
  BY SamePicture
<1>2. /\ Idle /\ (Enabled <=> Looking)
      /\ Looking => \A x \in 0..HVisible - 2 : x + 1 < DrawX => ~Yellow(x, DrawY)
  BY DEF StateOK, NotSeenOK, Idle, Enabled, Looking
<1>3. VS # 0 /\ Whole
  BY DEF InPicture
<1>4. PlatformState' = NextState /\ found' = found /\ platformFlag' = platformFlag
  BY <1>3, Notes
<1>5. feet \in Int
  BY DetectorAssumption DEF TypeOK
<1>6. CASE Enabled /\ backgroundPixel /\ Visible
  <2>1. PlatformState' = "Start"
    BY <1>4, <1>6, NextStates, Zenon
  <2>2. /\ DrawX' = DrawX + 1 /\ DrawY' = DrawY /\ DrawX' \in 1..HVisible
        /\ DrawY' < VVisible
    BY <1>6, NextPixel DEF Visible
  <2>3. Looking'
    BY <1>1, <1>2, <1>6, <2>2 DEF Looking
  <2>4. ASSUME DrawX > 0
        PROVE  Yellow(DrawX - 1, DrawY) /\ Yellow(DrawX, DrawY)
    <3>1. Yellow(DrawX - 1, DrawY) /\ DrawX - 1 \in Nat
      BY <1>3, <1>6, <2>4, NextPixel, SeesPixel
    <3>2. (DrawX - 1) % 2 = 0
      <4>. SUFFICES ASSUME (DrawX - 1) % 2 # 0 PROVE FALSE
        OBVIOUS
      <4>1. DrawX - 1 > 0 /\ Yellow(DrawX - 1 - 1, DrawY)
        BY <3>1, YellowPairs
      <4>2. /\ DrawX - 1 - 1 \in 0..HVisible - 2
            /\ DrawX - 1 - 1 + 1 < DrawX
        BY <1>6, <4>1, NextPixel DEF Visible
      <4>. QED BY <1>2, <1>6, <4>1, <4>2
    <3>3. Yellow(DrawX - 1 + 1, DrawY)
      BY <3>1, <3>2, YellowPairs
    <3>4. DrawX - 1 + 1 = DrawX
      BY NextPixel
    <3>. QED BY <3>1, <3>3, <3>4
  <2>5. DrawX' > 1 => Yellow(DrawX - 2, DrawY)' /\ Yellow(DrawX - 1, DrawY)'
    <3>. SUFFICES ASSUME DrawX' > 1
                  PROVE  Yellow(DrawX - 2, DrawY)' /\ Yellow(DrawX - 1, DrawY)'
      OBVIOUS
    <3>1. DrawX > 0 /\ DrawX' - 2 = DrawX - 1 /\ DrawX' - 1 = DrawX
      BY <2>2, NextPixel
    <3>. QED BY <1>1, <2>2, <2>4, <3>1 DEF Yellow
  <2>6. StartOK'
    BY <1>2, <1>4, <2>2, <2>3, <2>5 DEF StartOK, Idle
  <2>. QED BY <2>1, <2>6 DEF StateOK, NotSeenOK, WaitOK, EndOK, SeenOK
<1>7. CASE ~(Enabled /\ backgroundPixel /\ Visible)
  <2>1. PlatformState' = "NotSeen"
    BY <1>4, <1>7, NextStates, Zenon
  <2>2. Idle'
    BY <1>2, <1>4, <2>1 DEF Idle
  <2>3. ASSUME Looking', NEW x \in 0..HVisible - 2, x + 1 < DrawX', Yellow(x, DrawY)'
        PROVE  FALSE
    <3>1. DrawX' = DrawX + 1 /\ DrawY' = DrawY
      BY <2>3, NextPixel
    <3>2. Looking
      BY <1>1, <2>3, <3>1 DEF Looking
    <3>3. Yellow(x, DrawY)
      BY <1>1, <2>3, <3>1 DEF Yellow
    <3>4. x + 1 = DrawX
      BY <1>2, <2>3, <3>1, <3>2, <3>3, NextPixel
    <3>5. Visible
      BY <3>3, <3>4, YellowInPicture, NextPixel DEF Visible
    <3>6. backgroundPixel
      <4>1. DrawX > 0 /\ DrawX - 1 = x
        BY <3>4, NextPixel
      <4>. QED BY <1>3, <3>3, <4>1, SeesPixel
    <3>. QED BY <1>2, <1>7, <3>2, <3>5, <3>6
  <2>4. NotSeenOK'
    BY <2>2, <2>3 DEF NotSeenOK
  <2>. QED BY <2>1, <2>4 DEF StateOK, StartOK, WaitOK, EndOK, SeenOK
<1>. QED BY <1>6, <1>7

LEMMA FromStart ==
  ASSUME TypeOK, StateOK, PixelClk, InPicture, InPicture',
         UNCHANGED inputVars, PlatformState = "Start"
  PROVE  StateOK'
<1>. USE Sizes
<1>1. /\ feet' = feet /\ level' = level /\ FramePtr' = FramePtr
      /\ (Searching' <=> Searching)
  BY SamePicture
<1>2. /\ found = "nothing" /\ ~platformFlag /\ Looking /\ Enabled
      /\ DrawX \in 1..HVisible /\ DrawY < VVisible
      /\ DrawX > 1 => Yellow(DrawX - 2, DrawY) /\ Yellow(DrawX - 1, DrawY)
  BY DEF StateOK, StartOK, Enabled, Looking
<1>3. VS # 0 /\ Whole
  BY DEF InPicture
<1>4. PlatformState' = "Wait"
  BY <1>2, <1>3, Notes, NextStates
<1>5. ~platformFlag'
  BY <1>2, <1>3, Notes
<1>6. /\ found' = "start" /\ PlatformY' = DrawY /\ PlatformX1' = DrawX - 1
  <2>1. (DrawX - 1) % Mod = DrawX - 1
    BY <1>2
  <2>. QED BY <1>2, <1>3, <2>1, NextPixel DEF PixelClk, Note, Whole
<1>7. /\ PlatformY' >= feet' /\ PlatformY' \in 0..VVisible - 1
      /\ PlatformX1' \in 0..HVisible - 1 /\ Searching'
  BY <1>1, <1>2, <1>6, NextPixel DEF Looking
<1>8. ASSUME NEW x \in 1..HVisible - 1, DrawX - 1 <= x + 1, x + 1 <= DrawX
      PROVE  Yellow(x, DrawY)
  <2>1. DrawX > 1 /\ (x = DrawX - 2 \/ x = DrawX - 1)
    BY <1>2, <1>8
  <2>. QED BY <1>2, <2>1
<1>9. CASE DrawX + 1 # HTotal
  <2>1. DrawX' = DrawX + 1 /\ DrawY' = DrawY /\ PlatformX1' + 2 <= DrawX'
    BY <1>2, <1>6, <1>9, NextPixel
  <2>2. GroundUpTo(DrawX - 1)'
    <3>1. DrawX' - 1 = DrawX
      BY <2>1, <1>2
    <3>. QED BY <1>1, <1>6, <1>8, <3>1 DEF GroundUpTo, Yellow
  <2>3. WaitOK'
    BY <1>5, <1>6, <1>7, <2>1, <2>2 DEF WaitOK
  <2>. QED BY <1>4, <2>3 DEF StateOK, NotSeenOK, StartOK, EndOK, SeenOK
<1>10. CASE DrawX + 1 = HTotal
  <2>1. DrawX' = 0 /\ DrawY' = PlatformY' + 1 /\ DrawX = HVisible
    BY <1>2, <1>6, <1>10, NextPixel
  <2>2. GroundUpTo(HVisible)'
    BY <1>1, <1>6, <1>8, <2>1 DEF GroundUpTo, Yellow
  <2>3. WaitOK'
    BY <1>5, <1>6, <1>7, <2>1, <2>2 DEF WaitOK
  <2>. QED BY <1>4, <2>3 DEF StateOK, NotSeenOK, StartOK, EndOK, SeenOK
<1>. QED BY <1>9, <1>10

LEMMA FromWait ==
  ASSUME TypeOK, ScrollOK, PixelOK, StateOK, PixelClk, InPicture, InPicture',
         UNCHANGED inputVars, PlatformState = "Wait"
  PROVE  StateOK'
<1>. USE Sizes
<1>1. /\ feet' = feet /\ level' = level /\ FramePtr' = FramePtr
      /\ (Searching' <=> Searching)
  BY SamePicture
<1>2. /\ found = "start" /\ ~platformFlag /\ Searching
      /\ PlatformY >= feet /\ PlatformY \in 0..VVisible - 1
      /\ PlatformX1 \in 0..HVisible - 1
      /\ \/ DrawY = PlatformY /\ PlatformX1 + 2 <= DrawX /\ GroundUpTo(DrawX - 1)
         \/ DrawY = PlatformY + 1 /\ DrawX <= TestColumn /\ GroundUpTo(HVisible)
  BY DEF StateOK, WaitOK
<1>3. VS # 0 /\ Whole
  BY DEF InPicture
<1>4. feet \in Int /\ DrawX \in 0..HTotal - 1
  BY DetectorAssumption, NextPixel DEF TypeOK
<1>5. Enabled /\ Looking
  BY <1>2, <1>4 DEF Enabled, Looking
<1>6. /\ PlatformState' = NextState /\ found' = found /\ platformFlag' = platformFlag
      /\ PlatformY' = PlatformY /\ PlatformX1' = PlatformX1
  BY <1>3, Notes
<1>7. ASSUME NEW m \in Int, NEW n \in Int, GroundUpTo(m), n <= m \/ HVisible <= m
      PROVE  GroundUpTo(n)
  BY <1>7 DEF GroundUpTo
<1>8. ASSUME NEW m \in Int, GroundUpTo(m)
      PROVE  \A x \in 1..HVisible - 1 : PlatformX1' <= x + 1 /\ x + 1 <= m =>
               PlatformY' \in 0..VVisible - 1 /\ x + FramePtr' \in level'[PlatformY']
  BY <1>1, <1>6, <1>8 DEF GroundUpTo, Yellow
<1>9. CASE (~backgroundPixel /\ Visible) \/ DrawX = TestColumn
  <2>1. PlatformState' = "End"
    BY <1>5, <1>6, <1>9, NextStates, Zenon
  <2>2. DrawX' = DrawX + 1 /\ DrawY' = DrawY /\ DrawX' \in 1..HVisible
    BY <1>9, <1>4, NextPixel DEF Visible
  <2>3. GroundUpTo((DrawX - 1) % Mod)
    <3>1. CASE DrawY = PlatformY /\ PlatformX1 + 2 <= DrawX /\ GroundUpTo(DrawX - 1)
      <4>1. (DrawX - 1) % Mod = DrawX - 1
        BY <1>2, <1>4, <3>1
      <4>. QED BY <3>1, <4>1
    <3>2. CASE GroundUpTo(HVisible)
      <4>1. \A x \in 1..HVisible - 1 : x + 1 <= HVisible
        OBVIOUS
      <4>. QED BY <3>2, <4>1 DEF GroundUpTo
    <3>. QED BY <1>2, <3>1, <3>2
  <2>4. GroundUpTo((DrawX - 2) % Mod)'
    <3>1. DrawX' - 2 = DrawX - 1 /\ (DrawX - 1) % Mod \in Int
      BY <1>4, <2>2
    <3>. QED BY <1>8, <2>3, <3>1 DEF GroundUpTo, Yellow
  <2>5. EndOK'
    <3>1. DrawY <= VVisible /\ Looking'
      BY <1>1, <1>2, <1>5, <2>2 DEF Looking
    <3>. QED BY <1>1, <1>2, <1>6, <2>2, <2>4, <3>1 DEF EndOK
  <2>. QED BY <2>1, <2>5 DEF StateOK, NotSeenOK, StartOK, WaitOK, SeenOK
<1>10. CASE ~((~backgroundPixel /\ Visible) \/ DrawX = TestColumn)
  <2>1. PlatformState' = "Wait"
    BY <1>5, <1>6, <1>10, NextStates, Zenon
  <2>2. DrawY = PlatformY /\ PlatformX1 + 2 <= DrawX /\ GroundUpTo(DrawX - 1)
          => GroundUpTo(DrawX)
    <3>. SUFFICES ASSUME DrawY = PlatformY, PlatformX1 + 2 <= DrawX, GroundUpTo(DrawX - 1),
                         NEW x \in 1..HVisible - 1, PlatformX1 <= x + 1, x + 1 <= DrawX
                  PROVE  Yellow(x, PlatformY)
      BY DEF GroundUpTo
    <3>1. CASE x + 1 <= DrawX - 1
      BY <3>1 DEF GroundUpTo
    <3>2. CASE x = DrawX - 1 /\ DrawX < HVisible
      <4>1. Visible /\ DrawX > 0
        BY <1>2, <1>4, <3>2 DEF Visible
      <4>. QED BY <1>3, <1>10, <3>2, <4>1, SeesPixel
    <3>3. CASE x = DrawX - 1 /\ DrawX = HVisible
      <4>1. /\ x - 1 \in 1..HVisible - 1 /\ PlatformX1 <= x - 1 + 1 /\ x - 1 + 1 <= DrawX - 1
            /\ (x - 1) % 2 = 0 /\ x - 1 \in Nat /\ x - 1 + 1 = x
        BY <1>2, <3>3
      <4>2. Yellow(x - 1, PlatformY)
        BY <4>1 DEF GroundUpTo
      <4>3. Yellow(x - 1 + 1, PlatformY)
        BY <4>1, <4>2, YellowPairs
      <4>. QED BY <4>1, <4>3
    <3>. QED BY <1>4, <3>1, <3>2, <3>3
  <2>3. CASE DrawY = PlatformY /\ PlatformX1 + 2 <= DrawX /\ GroundUpTo(DrawX - 1)
    <3>1. CASE DrawX + 1 # HTotal
      <4>1. DrawX' = DrawX + 1 /\ DrawY' = DrawY
        BY <3>1, NextPixel
      <4>2. GroundUpTo(DrawX - 1)'
        <5>1. DrawX' - 1 = DrawX
          BY <1>4, <4>1
        <5>. QED BY <1>4, <1>8, <2>2, <2>3, <5>1 DEF GroundUpTo, Yellow
      <4>3. PlatformX1' + 2 <= DrawX'
        BY <1>2, <1>4, <1>6, <2>3, <4>1
      <4>4. WaitOK'
        BY <1>1, <1>2, <1>6, <2>3, <4>1, <4>2, <4>3 DEF WaitOK
      <4>. QED BY <2>1, <4>4 DEF StateOK, NotSeenOK, StartOK, EndOK, SeenOK
    <3>2. CASE DrawX + 1 = HTotal
      <4>1. DrawX' = 0 /\ DrawY' = PlatformY' + 1 /\ DrawX >= HVisible
        BY <1>2, <1>4, <1>6, <2>3, <3>2, NextPixel
      <4>2. GroundUpTo(HVisible)'
        <5>1. GroundUpTo(HVisible)
          BY <1>4, <1>7, <2>2, <2>3, <4>1
        <5>. QED BY <1>8, <5>1 DEF GroundUpTo, Yellow
      <4>3. WaitOK'
        BY <1>1, <1>2, <1>6, <4>1, <4>2 DEF WaitOK
      <4>. QED BY <2>1, <4>3 DEF StateOK, NotSeenOK, StartOK, EndOK, SeenOK
    <3>. QED BY <3>1, <3>2
  <2>4. CASE DrawY = PlatformY + 1 /\ DrawX <= TestColumn /\ GroundUpTo(HVisible)
    <3>1. DrawX' = DrawX + 1 /\ DrawY' = PlatformY' + 1 /\ DrawX' <= TestColumn
      BY <1>4, <1>6, <1>10, <2>4, NextPixel
    <3>2. GroundUpTo(HVisible)'
      BY <1>8, <2>4 DEF GroundUpTo, Yellow
    <3>3. WaitOK'
      BY <1>1, <1>2, <1>6, <3>1, <3>2 DEF WaitOK
    <3>. QED BY <2>1, <3>3 DEF StateOK, NotSeenOK, StartOK, EndOK, SeenOK
  <2>. QED BY <1>2, <2>3, <2>4
<1>. QED BY <1>9, <1>10

LEMMA FromEnd ==
  ASSUME TypeOK, StateOK, PixelClk, InPicture, InPicture',
         UNCHANGED inputVars, PlatformState = "End"
  PROVE  StateOK'
<1>1. /\ feet' = feet /\ level' = level /\ FramePtr' = FramePtr
  BY SamePicture
<1>2. /\ ~platformFlag /\ Looking /\ Enabled /\ PlatformY >= feet
      /\ GroundUpTo((DrawX - 2) % Mod)
  BY DEF StateOK, EndOK, Enabled, Looking
<1>3. VS # 0 /\ Whole
  BY DEF InPicture
<1>4. PlatformState' = "Seen" /\ PlatformY' = PlatformY /\ PlatformX1' = PlatformX1
  BY <1>2, <1>3, Notes, NextStates
<1>5. PlatformX2' = (DrawX - 2) % Mod /\ found' = "platform"
  BY <1>2, <1>3 DEF PixelClk, Note, Whole
<1>6. platformFlag'
  BY <1>2, <1>3, Zenon DEF PixelClk, Note
<1>7. GroundUpTo(PlatformX2)'
  BY <1>1, <1>2, <1>4, <1>5 DEF GroundUpTo, Yellow
<1>8. SeenOK'
  BY <1>1, <1>2, <1>4, <1>5, <1>6, <1>7 DEF SeenOK
<1>. QED BY <1>4, <1>8 DEF StateOK, NotSeenOK, StartOK, WaitOK, EndOK

LEMMA FromSeen ==
  ASSUME TypeOK, StateOK, PixelClk, InPicture, InPicture',
         UNCHANGED inputVars, PlatformState = "Seen"
  PROVE  StateOK'
<1>1. /\ feet' = feet /\ level' = level /\ FramePtr' = FramePtr
  BY SamePicture
<1>2. /\ found = "platform" /\ platformFlag /\ ~Enabled /\ PlatformY >= feet
      /\ GroundUpTo(PlatformX2)
  BY DEF StateOK, SeenOK, Enabled
<1>3. VS # 0 /\ Whole
  BY DEF InPicture
<1>4. /\ PlatformState' = "Seen" /\ found' = found /\ platformFlag' = platformFlag
      /\ PlatformY' = PlatformY /\ PlatformX1' = PlatformX1 /\ PlatformX2' = PlatformX2
  BY <1>2, <1>3, Notes, NextStates
<1>5. GroundUpTo(PlatformX2)'
  BY <1>1, <1>2, <1>4 DEF GroundUpTo, Yellow
<1>6. SeenOK'
  BY <1>1, <1>2, <1>4, <1>5 DEF SeenOK
<1>. QED BY <1>4, <1>6 DEF StateOK, NotSeenOK, StartOK, WaitOK, EndOK

LEMMA StateStep ==
  ASSUME TypeOK, SyncOK, ScrollOK, PixelOK, IdleOK, StateOK, PixelClk
  PROVE  StateOK'
<1>1. CASE ~InPicture'
  BY <1>1 DEF StateOK, NotSeenOK, StartOK, WaitOK, EndOK, SeenOK
<1>2. CASE InPicture' /\ InPicture /\ DrawY < VSyncLine - 1
  <2>1. UNCHANGED inputVars
    BY <1>2, InPictureBefore
  <2>2. PlatformState \in {"NotSeen", "Start", "Wait", "End", "Seen"}
    BY DEF TypeOK
  <2>. QED BY <1>2, <2>1, <2>2, FromNotSeen, FromStart, FromWait, FromEnd, FromSeen
<1>3. CASE InPicture' /\ Idle' /\ DrawX' = 0 /\ DrawY' = 0
  BY <1>3 DEF StateOK, NotSeenOK, StartOK, WaitOK, EndOK, SeenOK, Idle
<1>. QED BY <1>1, <1>2, <1>3, InPictureBefore

-----------------------------------------------------------------------------
(* The search finds the first platform. *)

LEMMA FirstFrom ==
  ASSUME TypeOK, PixelOK, StateOK, PixelClk, InPicture, DrawY < VSyncLine - 1,
         UNCHANGED inputVars, Searching,
         NEW y \in 0..VVisible - 1, NEW first \in 0..HTotal - 1, NEW last \in 0..HTotal - 1,
         FirstAt(y, first, last), SearchAt(y, first, last)
  PROVE  SearchAt(y, first, last)'
<1>. USE Sizes
<1>1. /\ DrawX \in 0..HTotal - 1 /\ DrawY \in 0..VTotal - 1 /\ feet \in Int
      /\ DrawX' = IF DrawX + 1 = HTotal THEN 0 ELSE DrawX + 1
      /\ DrawY' = IF DrawX + 1 # HTotal THEN DrawY ELSE DrawY + 1
  <2>1. feet \in Int
    BY DetectorAssumption DEF TypeOK
  <2>2. DrawY \in 0..VTotal - 1 /\ DrawY + 1 # VTotal
    BY NextPixel
  <2>. QED BY <2>1, <2>2, NextPixel, Zenon
<1>2. /\ y >= feet /\ first < last /\ last + 2 <= TestColumn
      /\ ~Yellow(HTotal - 1, feet - 1)
      /\ \A l \in 0..y - 1, x \in 0..HTotal - 1 : l >= feet => ~Yellow(x, l)
      /\ \A x \in 0..first - 1 : ~Yellow(x, y)
      /\ \A x \in first..last : Yellow(x, y)
      /\ ~Yellow(last + 1, y)
  BY DEF FirstAt
<1>3. VS # 0 /\ Whole
  BY DEF InPicture
<1>4. /\ PlatformState' = NextState
      /\ ~(Enabled /\ PlatformState = "Start") => PlatformY' = PlatformY
                                                  /\ PlatformX1' = PlatformX1
      /\ ~(Enabled /\ PlatformState = "End") => PlatformX2' = PlatformX2
  BY <1>3, Notes
<1>5. CASE DrawY < y \/ (DrawY = y /\ DrawX <= first)
  <2>1. PlatformState = "NotSeen"
    BY <1>1, <1>5 DEF SearchAt
  <2>2. ~(Enabled /\ backgroundPixel)
    <3>. SUFFICES ASSUME Enabled, backgroundPixel PROVE FALSE
      OBVIOUS
    <3>1. DrawY >= feet
      BY DEF Enabled
    <3>2. CASE DrawX > 0
      <4>1. Yellow(DrawX - 1, DrawY)
        BY <1>3, <3>2, SeesPixel
      <4>2. CASE DrawY < y
        BY <1>1, <1>2, <3>1, <3>2, <4>1, <4>2
      <4>3. CASE DrawY = y /\ DrawX <= first
        BY <1>1, <1>2, <3>2, <4>1, <4>3
      <4>. QED BY <1>5, <4>2, <4>3
    <3>3. CASE ~(DrawX > 0)
      <4>1. Yellow(HTotal - 1, DrawY - 1)
        BY <1>3, <3>3, Zenon DEF PixelOK
      <4>2. DrawY - 1 \in 0..y - 1
        BY <1>1, <1>5, <4>1, YellowInPicture
      <4>3. CASE DrawY = feet
        BY <1>2, <4>1, <4>3
      <4>4. CASE DrawY - 1 >= feet
        BY <1>2, <4>1, <4>2, <4>4
      <4>. QED BY <1>1, <3>1, <4>3, <4>4
    <3>. QED BY <3>2, <3>3
  <2>3. PlatformState' = "NotSeen"
    BY <1>4, <2>1, <2>2, NextStates, Zenon
  <2>4. DrawY' < y \/ (DrawY' = y /\ DrawX' <= first + 1)
    BY <1>1, <1>2, <1>5
  <2>. QED BY <1>1, <1>2, <2>3, <2>4 DEF SearchAt
<1>6. CASE DrawY = y /\ DrawX = first + 1
  <2>1. PlatformState = "NotSeen"
    BY <1>1, <1>6 DEF SearchAt
  <2>2. Enabled
    <3>1. Idle
      BY <2>1 DEF StateOK, NotSeenOK
    <3>. QED BY <1>2, <1>6, <3>1 DEF Idle, Enabled
  <2>3. backgroundPixel
    <3>1. DrawX > 0 /\ DrawX - 1 \in first..last /\ DrawX - 1 = first
      BY <1>2, <1>6
    <3>. QED BY <1>2, <1>3, <1>6, <3>1, SeesPixel
  <2>4. Visible
    BY <1>2, <1>6 DEF Visible
  <2>5. PlatformState' = "Start"
    BY <1>4, <2>1, <2>2, <2>3, <2>4, NextStates, Zenon
  <2>6. DrawY' = y /\ DrawX' = first + 2
    BY <1>1, <1>2, <1>6
  <2>. QED BY <1>2, <2>5, <2>6 DEF SearchAt
<1>7. CASE DrawY = y /\ DrawX = first + 2
  <2>1. PlatformState = "Start"
    BY <1>7 DEF SearchAt
  <2>2. Enabled
    BY <1>2, <1>7, <2>1 DEF StateOK, StartOK, Enabled
  <2>3. PlatformState' = "Wait"
    BY <1>4, <2>1, <2>2, NextStates
  <2>4. PlatformY' = y /\ PlatformX1' = first + 1
    <3>1. (DrawX - 1) % Mod = first + 1
      BY <1>1, <1>2, <1>7
    <3>. QED BY <1>7, <2>1, <2>2, <3>1 DEF PixelClk, Note
  <2>5. DrawY' = y /\ DrawX' = first + 3 /\ first + 3 <= last + 2
    BY <1>1, <1>2, <1>7
  <2>. QED BY <1>2, <2>3, <2>4, <2>5 DEF SearchAt
<1>8. CASE DrawY = y /\ DrawX \in first + 3..last + 2
  <2>1. PlatformState = "Wait" /\ PlatformY = y /\ PlatformX1 = first + 1
    BY <1>8 DEF SearchAt
  <2>2. Enabled
    BY <1>2, <1>8, <2>1 DEF StateOK, WaitOK, Enabled
  <2>3. PlatformY' = y /\ PlatformX1' = first + 1
    BY <1>4, <2>1
  <2>4. DrawY' = y /\ DrawX' = DrawX + 1 /\ Visible /\ DrawX > 0
    BY <1>1, <1>2, <1>8 DEF Visible
  <2>5. backgroundPixel <=> Yellow(DrawX - 1, DrawY)
    BY <1>3, <2>4, SeesPixel
  <2>6. CASE DrawX = last + 2
    <3>1. DrawX - 1 = last + 1
      BY <2>6
    <3>2. PlatformState' = "End"
      BY <1>2, <1>4, <1>8, <2>1, <2>2, <2>4, <2>5, <3>1, NextStates, Zenon
    <3>. QED BY <1>2, <2>3, <2>4, <2>6, <3>2 DEF SearchAt
  <2>7. CASE DrawX <= last + 1
    <3>1. DrawX - 1 \in first..last /\ DrawX # TestColumn
      BY <1>2, <1>8, <2>7
    <3>2. backgroundPixel
      BY <1>2, <1>8, <2>5, <3>1
    <3>3. PlatformState' = "Wait"
      BY <1>4, <2>1, <2>2, <3>1, <3>2, NextStates, Zenon
    <3>. QED BY <1>2, <1>8, <2>3, <2>4, <2>7, <3>3 DEF SearchAt
  <2>. QED BY <1>8, <2>6, <2>7
<1>9. CASE DrawY = y /\ DrawX = last + 3
  <2>1. PlatformState = "End" /\ PlatformY = y /\ PlatformX1 = first + 1
    BY <1>2, <1>9 DEF SearchAt
  <2>2. Enabled
    BY <1>2, <1>9, <2>1 DEF StateOK, EndOK, Enabled
  <2>3. PlatformState' = "Seen" /\ PlatformY' = y /\ PlatformX1' = first + 1
    BY <1>4, <2>1, <2>2, NextStates
  <2>4. PlatformX2' = last + 1
    <3>1. (DrawX - 2) % Mod = last + 1
      BY <1>1, <1>9
    <3>. QED BY <2>1, <2>2, <3>1 DEF PixelClk, Note
  <2>5. DrawY' > y \/ (DrawY' = y /\ DrawX' > last + 3)
    BY <1>1, <1>9
  <2>. QED BY <1>1, <1>2, <2>3, <2>4, <2>5 DEF SearchAt
<1>10. CASE DrawY > y \/ (DrawY = y /\ DrawX > last + 3)
  <2>1. /\ PlatformState = "Seen" /\ PlatformX2 = last + 1
        /\ PlatformY = y /\ PlatformX1 = first + 1
    BY <1>1, <1>2, <1>10 DEF SearchAt
  <2>2. ~Enabled
    BY <2>1 DEF StateOK, SeenOK, Enabled
  <2>3. /\ PlatformState' = "Seen" /\ PlatformX2' = last + 1
        /\ PlatformY' = y /\ PlatformX1' = first + 1
    BY <1>4, <2>1, <2>2, NextStates
  <2>4. DrawY' > y \/ (DrawY' = y /\ DrawX' > last + 3)
    BY <1>1, <1>10
  <2>. QED BY <1>1, <1>2, <2>3, <2>4 DEF SearchAt
<1>. QED BY <1>1, <1>2, <1>5, <1>6, <1>7, <1>8, <1>9, <1>10

LEMMA FirstStep ==
  ASSUME TypeOK, SyncOK, PixelOK, IdleOK, StateOK, FirstOK, PixelClk
  PROVE  FirstOK'
<1>. SUFFICES ASSUME InPicture', Searching',
                     NEW y \in 0..VVisible - 1,
                     NEW first \in 0..HTotal - 1, NEW last \in 0..HTotal - 1,
                     FirstAt(y, first, last)'
              PROVE  SearchAt(y, first, last)'
  BY DEF FirstOK
<1>1. UNCHANGED inputVars
  BY InPictureBefore
<1>2. Searching /\ FirstAt(y, first, last)
  <2>1. feet' = feet /\ level' = level /\ FramePtr' = FramePtr /\ Searching
    BY <1>1, SamePicture
  <2>. QED BY <2>1 DEF FirstAt, Yellow
<1>3. CASE InPicture /\ DrawY < VSyncLine - 1
  <2>1. SearchAt(y, first, last)
    BY <1>2, <1>3 DEF FirstOK
  <2>. QED BY <1>1, <1>2, <1>3, <2>1, FirstFrom
<1>4. CASE Idle' /\ DrawX' = 0 /\ DrawY' = 0
  BY <1>4, Sizes DEF SearchAt, Idle
<1>. QED BY <1>3, <1>4, InPictureBefore

-----------------------------------------------------------------------------
(* The invariant. *)

LEMMA ClkStep ==
  ASSUME IInv, PixelClk
  PROVE  IInv'
BY ClkTypes, SyncStep, ScrollStep, PixelStep, IdleStep, StateStep, FirstStep DEF IInv

\* In a frame that a reset has cut nothing is claimed of the search.
LEMMA CutHolds ==
  ASSUME found = "cut"
  PROVE  PixelOK /\ IdleOK /\ StateOK /\ FirstOK
BY DEF PixelOK, IdleOK, StateOK, NotSeenOK, StartOK, WaitOK, EndOK, SeenOK, FirstOK,
       InPicture, Whole

LEMMA ResetStep ==
  ASSUME IInv, ResetOn
  PROVE  IInv'
<1>1. TypeOK'
  BY Sizes DEF IInv, TypeOK, VgaTypeOK, ResetOn, platformVars
<1>2. found' = "cut"
  BY DEF ResetOn
<1>3. SyncOK' /\ ScrollOK'
  BY <1>2, Sizes DEF ResetOn, SyncOK, ScrollOK, Whole
<1>4. PixelOK' /\ IdleOK' /\ StateOK' /\ FirstOK'
  BY <1>2 DEF PixelOK, IdleOK, StateOK, NotSeenOK, StartOK, WaitOK, EndOK, SeenOK, FirstOK,
              InPicture, Whole
<1>. QED BY <1>1, <1>3, <1>4 DEF IInv

\* The invariant does not read the reset switch, but for its type.
LEMMA StutterStep ==
  ASSUME IInv, Reset' \in BOOLEAN,
         UNCHANGED <<vgaVars, level, inputVars, backgroundPixel, PlatformState,
                     platformFlag, platformVars, found>>
  PROVE  IInv'
<1>. USE DEF vgaVars, inputVars, platformVars
<1>1. TypeOK' /\ SyncOK' /\ ScrollOK' /\ PixelOK' /\ IdleOK'
  BY DEF IInv, TypeOK, VgaTypeOK, SyncOK, ScrollOK, PixelOK, IdleOK, Idle, Whole, Yellow
<1>2. StateOK'
  BY DEF IInv, StateOK, NotSeenOK, StartOK, WaitOK, EndOK, SeenOK, InPicture, Whole, Idle,
         Looking, Searching, GroundUpTo, Yellow
<1>3. FirstOK'
  BY DEF IInv, FirstOK, FirstAt, SearchAt, InPicture, Whole, Searching, Yellow
<1>. QED BY <1>1, <1>2, <1>3 DEF IInv

\* The registers keep their types, the sync its place in the frame, and the
\* search its state from pixel to pixel (platformDetector.sv, VGA_controller.sv).
THEOREM Invariance == Spec => []IInv
<1>1. Init => IInv
  <2>. SUFFICES ASSUME Init PROVE IInv
    OBVIOUS
  <2>1. TypeOK
    <3>1. VgaTypeOK
      BY Sizes DEF Init, VgaTypeOK
    <3>2. {PlatformX1, PlatformX2, PlatformY} \subseteq 0..Mod - 1 /\ FramePtr \in 0..LastPtr + 1
      BY Sizes DEF Init
    <3>. QED BY <3>1, <3>2 DEF Init, TypeOK
  <2>2. SyncOK /\ ScrollOK
    BY Sizes DEF Init, SyncOK, ScrollOK, Whole
  <2>3. found = "cut"
    BY DEF Init
  <2>. QED BY <2>1, <2>2, <2>3, CutHolds DEF IInv
<1>2. IInv /\ [Next]_vars => IInv'
  <2>. SUFFICES ASSUME IInv, [Next]_vars PROVE IInv'
    OBVIOUS
  <2>1. CASE PixelClk
    BY <2>1, ClkStep
  <2>2. CASE ResetOn
    BY <2>2, ResetStep
  <2>3. CASE ResetOff
    BY <2>3, StutterStep DEF ResetOff
  <2>4. CASE UNCHANGED vars
    <3>1. Reset' \in BOOLEAN
      BY <2>4 DEF vars, IInv, TypeOK, VgaTypeOK
    <3>. QED BY <2>4, <3>1, StutterStep DEF vars
  <2>. QED BY <2>1, <2>2, <2>3, <2>4 DEF Next
<1>. QED BY <1>1, <1>2, PTL DEF Spec

-----------------------------------------------------------------------------
(* What follows. *)

\* Wherever the detector has noted ground when a picture is over there is
\* ground, in a line that is not above the feet: so for every level and every
\* size of picture, also at the edges of the screen and at the test column.
THEOREM GroundStaysThere == Spec => []GroundIsThere
<1>1. IInv => GroundIsThere
  <2>. SUFFICES ASSUME IInv, PictureOver, found = "platform"
                PROVE  /\ PlatformY >= feet
                       /\ \A x \in 1..HVisible - 1 :
                            PlatformX1 <= x + 1 /\ x + 1 <= PlatformX2 => Yellow(x, PlatformY)
    BY DEF GroundIsThere
  <2>1. InPicture
    BY Sizes DEF PictureOver, InPicture, Whole
  <2>2. PlatformState = "Seen"
    BY <2>1 DEF IInv, TypeOK, StateOK, NotSeenOK, StartOK, WaitOK, EndOK, Idle
  <2>. QED BY <2>1, <2>2 DEF IInv, StateOK, SeenOK, GroundUpTo
<1>. QED BY <1>1, Invariance, PTL

\* When the sync comes no platform has been noted by half, also when it is in
\* the last line of the picture and goes on beyond the right edge.
THEOREM PlatformsAreWhole == Spec => []NoHalfPlatform
<1>1. IInv => NoHalfPlatform
  <2>. SUFFICES ASSUME IInv, VS = 0 PROVE found # "start"
    BY DEF NoHalfPlatform, IInv
  <2>1. CASE Whole /\ DrawY >= VSyncLine
    BY <2>1 DEF IInv, IdleOK, Idle
  <2>2. CASE Whole /\ DrawY = VSyncLine - 1
    BY <2>2 DEF IInv, IdleOK
  <2>3. CASE ~Whole
    BY <2>3 DEF Whole
  <2>. QED BY <2>1, <2>2, <2>3, Sizes DEF IInv, SyncOK
<1>. QED BY <1>1, Invariance, PTL

\* The first platform below the feet that ends left of the test column is
\* noted with exactly its line and its columns, whatever else is in the level.
THEOREM FirstIsFound == Spec => []FindsFirst
<1>1. IInv => FindsFirst
  <2>. SUFFICES ASSUME IInv, PictureOver, found # "cut", Searching, YellowLines # {},
                       NEW y, y = Min(YellowLines),
                       LastColumn(y) + 2 <= TestColumn, ~Yellow(HTotal - 1, feet - 1)
                PROVE  /\ found = "platform"
                       /\ PlatformY = y
                       /\ PlatformX1 = FirstColumn(y) + 1
                       /\ PlatformX2 = LastColumn(y) + 1
    BY DEF FindsFirst
  <2>. DEFINE first == FirstColumn(y)
              last == LastColumn(y)
  <2>1. /\ y \in 0..VVisible - 1 /\ y >= feet
        /\ \A l \in 0..VVisible - 1, x \in 0..HTotal - 1 : l >= feet /\ l < y => ~Yellow(x, l)
        /\ first \in Nat /\ last \in Nat /\ first < last /\ last + 3 <= HVisible
        /\ \A x \in 0..first - 1 : ~Yellow(x, y)
        /\ \A x \in first..last : Yellow(x, y)
        /\ ~Yellow(last + 1, y)
    BY FirstRun DEF IInv
  <2>. HIDE DEF first, last
  <2>2. first \in 0..HTotal - 1 /\ last \in 0..HTotal - 1
    BY <2>1, Sizes
  <2>3. last + 2 <= TestColumn
    BY DEF last
  <2>4. FirstAt(y, first, last)
    BY <2>1, <2>3, Sizes DEF FirstAt
  <2>5. InPicture /\ DrawY > y
    BY <2>1, Sizes DEF PictureOver, InPicture, Whole
  <2>6. SearchAt(y, first, last)
    BY <2>1, <2>2, <2>4, <2>5 DEF IInv, FirstOK
  <2>7. /\ PlatformState = "Seen" /\ PlatformX2 = last + 1
        /\ PlatformY = y /\ PlatformX1 = first + 1
    BY <2>5, <2>6 DEF SearchAt
  <2>8. found = "platform"
    BY <2>5, <2>7 DEF IInv, StateOK, SeenOK
  <2>. QED BY <2>7, <2>8 DEF first, last
<1>. QED BY <1>1, Invariance, PTL
===============================================================================
