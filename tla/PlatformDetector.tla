--------------------------- MODULE PlatformDetector ---------------------------
(***************************************************************************)
(* platformDetector.sv: on each pixel clock it looks at the background for *)
(* the yellow line that marks the top of a platform, at or below the feet  *)
(* of the player, and notes the line and the columns of the first one it   *)
(* meets in a frame.  It looks while the player is off the ground or the   *)
(* level scrolls.  The pixel comes from the SRAM one clock after its       *)
(* column; the SRAM goes on giving pixels of the level in the blanking.    *)
(* The counters and the sync are those of VgaTiming; only the rising edges *)
(* of the pixel clock are steps.                                           *)
(***************************************************************************)
EXTENDS VgaTiming, FiniteSets, FiniteSetsExt

CONSTANTS
  TestColumn,   \* the column at which a platform is ended anyway: 500
  Mod,          \* 2 to the width of a coordinate: 1024
  LastPtr,      \* the frame pointer stops adding at this value: 3473
  Rows,         \* the sets of yellow columns that a line of the level may have
  FeetLines     \* the lines the player's feet may be at, modulo Mod

\* A word of the SRAM is two pixels wide: yellow comes in pairs of columns.
\* The sync comes in the second line after the picture or later, so that a
\* platform that is still open in the first is ended before.
ASSUME DetectorAssumption ==
  /\ HVisible % 2 = 0 /\ HVisible > 2 /\ VVisible + 1 < VSyncLine
  /\ TestColumn \in Nat /\ TestColumn < HVisible
  /\ Mod \in Nat /\ HTotal <= Mod /\ VTotal <= Mod
  /\ LastPtr \in Nat
  /\ Rows \subseteq SUBSET (0..HTotal + LastPtr)
  /\ \A row \in Rows : \A x \in row :
       IF x % 2 = 0 THEN x + 1 \in row ELSE x - 1 \in row
  /\ FeetLines \subseteq 0..Mod - 1

VARIABLES
  level,            \* the yellow columns of each line of the level
  FramePtr,         \* the column of the level at the left of the screen
  backgroundPixel,  \* the registered pixel is yellow
  feet,             \* PlayerY + PlayerHeight
  onPlatform,       \* the player is on the ground
  ScrollEnable,     \* the level scrolls
  PlatformState, platformFlag,
  PlatformX1, PlatformX2, PlatformY,
  found             \* in this picture: "nothing", "start" or "platform"; "cut"
                    \* if a reset has cut into it

inputVars == <<FramePtr, feet, onPlatform, ScrollEnable>>
platformVars == <<PlatformX1, PlatformX2, PlatformY>>
vars == <<vgaVars, Reset, level, inputVars, backgroundPixel, PlatformState,
          platformFlag, platformVars, found>>

TypeOK ==
  /\ VgaTypeOK
  /\ level \in [0..VVisible - 1 -> Rows]
  /\ backgroundPixel \in BOOLEAN
  /\ FramePtr \in 0..LastPtr + 1
  /\ feet \in FeetLines
  /\ onPlatform \in BOOLEAN /\ ScrollEnable \in BOOLEAN
  /\ PlatformState \in {"NotSeen", "Start", "Wait", "End", "Seen"}
  /\ platformFlag \in BOOLEAN
  /\ {PlatformX1, PlatformX2, PlatformY} \subseteq 0..Mod - 1
  /\ found \in {"nothing", "start", "platform", "cut"}

Init ==
  /\ pixel_clk = 1 /\ DrawX = 0 /\ DrawY = 0 /\ VS = 0 /\ Reset = TRUE
  /\ level \in [0..VVisible - 1 -> Rows]
  /\ backgroundPixel = FALSE
  /\ FramePtr = 0
  /\ feet \in FeetLines /\ onPlatform = TRUE /\ ScrollEnable = FALSE
  /\ PlatformState = "NotSeen" /\ platformFlag = FALSE
  /\ PlatformX1 = 0 /\ PlatformX2 = 0 /\ PlatformY = 0
  /\ found = "cut"

-----------------------------------------------------------------------------
\* The SRAM gives the pixel of the level at a column and line of the picture.
Yellow(x, y) == y \in 0..VVisible - 1 /\ x + FramePtr \in level[y]

Searching == ~onPlatform \/ ScrollEnable

\* Mutant of Enabled: the line at the feet is left out.
EnabledBelowFeet == DrawY > feet /\ ~platformFlag /\ Searching

Enabled == DrawY >= feet /\ ~platformFlag /\ Searching

\* Mutant of NextState: only another colour ends a platform.
NextStateByColour ==
  IF ~Enabled THEN PlatformState ELSE
  CASE PlatformState = "NotSeen" ->
         IF backgroundPixel /\ Visible THEN "Start" ELSE "NotSeen"
    [] PlatformState = "Start" -> "Wait"
    [] PlatformState = "Wait" ->
         IF ~backgroundPixel /\ Visible THEN "End" ELSE "Wait"
    [] OTHER -> "Seen"

NextState ==
  IF ~Enabled THEN PlatformState ELSE
  CASE PlatformState = "NotSeen" ->
         IF backgroundPixel /\ Visible THEN "Start" ELSE "NotSeen"
    [] PlatformState = "Start" -> "Wait"
    [] PlatformState = "Wait" ->
         IF (~backgroundPixel /\ Visible) \/ DrawX = TestColumn
         THEN "End" ELSE "Wait"
    [] OTHER -> "Seen"

\* Mutant of Note: the right end is as late as the left one.
NoteEndLate ==
  LET starts == Enabled /\ PlatformState = "Start"
      ends == Enabled /\ PlatformState = "End"
  IN /\ PlatformY' = IF starts THEN DrawY ELSE PlatformY
     /\ PlatformX1' = IF starts THEN (DrawX - 1) % Mod ELSE PlatformX1
     /\ PlatformX2' = IF ends THEN (DrawX - 1) % Mod ELSE PlatformX2
     /\ platformFlag' = (VS # 0 /\ (platformFlag \/ ends))
     /\ found' = IF VS = 0 /\ DrawY >= VVisible THEN "nothing"
                 ELSE IF found # "cut" /\ starts THEN "start"
                 ELSE IF found # "cut" /\ ends THEN "platform"
                 ELSE found

\* The column has moved on when the end of a platform is noted, by one for
\* the register of the pixel, one for the state, and one past the end.
Note ==
  LET starts == Enabled /\ PlatformState = "Start"
      ends == Enabled /\ PlatformState = "End"
  IN /\ PlatformY' = IF starts THEN DrawY ELSE PlatformY
     /\ PlatformX1' = IF starts THEN (DrawX - 1) % Mod ELSE PlatformX1
     /\ PlatformX2' = IF ends THEN (DrawX - 2) % Mod ELSE PlatformX2
     /\ platformFlag' = (VS # 0 /\ (platformFlag \/ ends))
     /\ found' = IF VS = 0 /\ DrawY >= VVisible THEN "nothing"
                 ELSE IF found # "cut" /\ starts THEN "start"
                 ELSE IF found # "cut" /\ ends THEN "platform"
                 ELSE found

\* The level scrolls and the player moves with the rising edge of the sync.
NewFrame ==
  /\ FramePtr' = IF ScrollEnable /\ FramePtr < LastPtr THEN FramePtr + 2 ELSE FramePtr
  /\ feet' \in FeetLines
  /\ onPlatform' \in BOOLEAN
  /\ ScrollEnable' \in BOOLEAN

PixelClk ==
  /\ ~Reset
  /\ PixelEdge
  /\ backgroundPixel' = Yellow(DrawX, DrawY)
  /\ PlatformState' = IF VS = 0 THEN "NotSeen" ELSE NextState
  /\ Note
  /\ IF VSRises THEN NewFrame ELSE UNCHANGED inputVars
  /\ UNCHANGED <<pixel_clk, Reset, level>>

\* The reset switch stops the pixel clock, so the detector keeps all it has;
\* the level and the player go back to the start, on the ground, but the
\* frame's register of the scroll request keeps its value.
ResetOn ==
  /\ ~Reset
  /\ Reset' = TRUE
  /\ DrawX' = 0 /\ DrawY' = 0 /\ VS' = 0
  /\ FramePtr' = 0
  /\ feet' \in FeetLines
  /\ onPlatform' = TRUE
  /\ found' = "cut"
  /\ UNCHANGED <<pixel_clk, level, ScrollEnable, backgroundPixel,
                 PlatformState, platformFlag, platformVars>>

ResetOff ==
  /\ Reset
  /\ Reset' = FALSE
  /\ UNCHANGED <<vgaVars, level, inputVars, backgroundPixel, PlatformState,
                 platformFlag, platformVars, found>>

Next == PixelClk \/ ResetOn \/ ResetOff

Spec == Init /\ [][Next]_vars

-----------------------------------------------------------------------------
(* What should hold. *)

\* The picture is over and the sync has not come.
PictureOver == VS # 0 /\ DrawY \in VVisible..VSyncLine - 1

\* There is ground wherever the detector says so: each visible column between
\* the noted ones is yellow in the noted line, which is not above the feet.
\* It covers platforms that meet the edges of the screen, the column 500 and
\* the next line's beginning.  The first column is excepted: its pixel may be
\* the last of the blanking of the line above; the player never stands there.
GroundIsThere ==
  PictureOver /\ found = "platform" =>
    /\ PlatformY >= feet
    /\ \A x \in 1..HVisible - 1 :
         PlatformX1 <= x + 1 /\ x + 1 <= PlatformX2 => Yellow(x, PlatformY)

\* No platform is noted by half: when the sync comes, the line and the left
\* end are not of one platform and the right end of another, also when a
\* platform is in the last line and goes on beyond the right edge.  Every
\* register keeps its type.
NoHalfPlatform == TypeOK /\ (VS = 0 => found # "start")

\* The columns of the picture in which a line is yellow, blanking included;
\* the lines in which the search meets yellow, and the first run in a line.
Columns(y) == {x \in 0..HTotal - 1 : Yellow(x, y)}
YellowLines == {y \in 0..VVisible - 1 : y >= feet /\ Columns(y) # {}}
FirstColumn(y) == Min(Columns(y))
LastColumn(y) == Min({x \in Columns(y) : x + 1 \notin Columns(y)})

\* A platform left of column 500 is found exactly, with all its columns, if
\* it is the first in the first line below the feet, whatever was found in
\* frames before and whatever else the picture shows.  The blanking of the line
\* above the feet is the exception: its last pixel is seen in the line of the feet.
FindsFirst ==
  PictureOver /\ found # "cut" /\ Searching /\ YellowLines # {} =>
    LET y == Min(YellowLines) IN
    LastColumn(y) + 2 <= TestColumn /\ ~Yellow(HTotal - 1, feet - 1) =>
      /\ found = "platform"
      /\ PlatformY = y
      /\ PlatformX1 = FirstColumn(y) + 1
      /\ PlatformX2 = LastColumn(y) + 1
=============================================================================
