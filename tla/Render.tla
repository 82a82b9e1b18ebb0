------------------------------- MODULE Render -------------------------------
(***************************************************************************)
(* The renderer: render.rs, framebuffer.rs and the clearing of the screen  *)
(* in kernel_main.                                                         *)
(*                                                                         *)
(* kernel_main echoes keys, draws into `canvas' and copies the rows of the *)
(* mark to `fb' while timer and keyboard interrupt it; the display scans   *)
(* fb at any time.  A buffer is a function from pixel offsets to pixels:   *)
(* the factor bytes_per_pixel, the same everywhere, is left out.  Which    *)
(* characters are typed is Input's concern: read_char finds one or none.   *)
(***************************************************************************)
EXTENDS Integers, Sequences, FiniteSetsExt

CONSTANTS Infos,       \* the modes the bootloader may have set
          FrameTicks,  \* ticks per step of the animation (12)
          PassTicks,   \* bound: ticks while the loop is busy in one pass
          TickCycle    \* TICKS is kept modulo this: the code compares frames
                       \* and takes them modulo 3, and 2^64 is never reached

\* A row holds the visible pixels and the buffer all rows.  A pass, its sleep
\* included, may take several steps of the animation, but not a whole cycle:
\* the cycle is no part of the code.
ASSUME RenderAssumption ==
  /\ \A i \in Infos : /\ i.width \in Nat \ {0} /\ i.height \in Nat \ {0}
                      /\ i.stride \in Nat /\ i.width <= i.stride
                      /\ i.pixels \in Nat /\ i.height * i.stride <= i.pixels
                      /\ i.format \in {"Rgb", "Bgr", "U8", "Unknown"}
  /\ FrameTicks \in Nat \ {0} /\ PassTicks \in Nat
  /\ TickCycle \in Nat /\ TickCycle % (3 * FrameTicks) = 0 /\ TickCycle > 3 * FrameTicks
  /\ PassTicks + 1 + FrameTicks <= TickCycle

HARDCORE_BLACK == <<14, 14, 16>>
BUILD_ACID     == <<214, 255, 63>>
STAGGER        == <<255, 153, 76>>

VARIABLES
  info,        \* the mode
  pc,          \* where kernel_main stands
  fb,          \* the framebuffer
  canvas,      \* the back buffer, empty until Canvas::new
  TICKS,       \* the tick counter
  last_frame,  \* the frame drawn last, -1 for u64::MAX
  lead,        \* the bubble that leads in the frame being made
  bubble,      \* the bubble drawn next
  offset,      \* the pixel copied next
  busy,        \* ticks since the counter was read, the one that ended hlt aside
  delay,       \* history: busy when the frame being made or shown was noticed
  shown        \* history: the leader of the last whole frame on the screen

history == <<busy, delay, shown>>
vars == <<info, pc, fb, canvas, TICKS, last_frame, lead, bubble, offset, history>>

-----------------------------------------------------------------------------
(* Colours.  u8 and u16 arithmetic wraps.                                  *)

Mix(a, b, opacity) == ((((a * opacity + b * (255 - opacity)) % 65536) \div 255) % 256)

blend(f, b, opacity) == [c \in 1 .. 3 |-> Mix(f[c], b[c], opacity)]

\* What write_pixel stores for a colour.
write_pixel(format, rgb) ==
  CASE format = "Rgb" -> rgb
    [] format = "U8"  -> <<((rgb[1] * 54 + rgb[2] * 183 + rgb[3] * 19) % 65536) \div 256>>
    [] OTHER          -> <<rgb[3], rgb[2], rgb[1]>>

Filled(m, rgb) == [o \in 0 .. m.pixels - 1 |-> write_pixel(m.format, rgb)]

-----------------------------------------------------------------------------
(* Geometry, for mode m: layout, fill_circle and the band of rows run      *)
(* copies.                                                                 *)

Radius(m)  == m.height \div 12
CenterY(m) == m.height \div 2
Gap(m)     == (Radius(m) * 13) \div 5
Center(m, i) == m.width \div 2 + (i - 1) * Gap(m)

\* The offsets fill_circle writes.
CircleOffsets(m, i) ==
  LET ys == Max({CenterY(m) - Radius(m), 0}) .. Min({CenterY(m) + Radius(m), m.height - 1})
      xs == Max({Center(m, i) - Radius(m), 0}) .. Min({Center(m, i) + Radius(m), m.width - 1})
      in(x, y) == (x - Center(m, i)) * (x - Center(m, i)) + (y - CenterY(m)) * (y - CenterY(m))
                    <= Radius(m) * Radius(m)
  IN  {p[2] * m.stride + p[1] : p \in {q \in xs \X ys : in(q[1], q[2])}}

Band0(m) == Max({CenterY(m) - Radius(m), 0})
Band1Short(m) == Min({CenterY(m) + Radius(m), m.height}) - 1     \* a mutant

Band1(m) == Min({CenterY(m) + Radius(m), m.height - 1})

\* The part of the buffer present_rows copies: from Start up to, not with, End.
Start(m) == Band0(m) * m.stride
End(m)   == (Band1(m) + 1) * m.stride

-----------------------------------------------------------------------------
(* kernel_main and run.                                                    *)

Init ==
  /\ info \in Infos
  /\ pc = "boot"
  /\ fb = [o \in 0 .. info.pixels - 1 |-> <<>>]     \* whatever the firmware left
  /\ canvas = <<>>
  /\ TICKS \in 0 .. TickCycle - 1
  /\ last_frame = -1 /\ lead = 0 /\ bubble = 0 /\ offset = 0
  /\ busy = 0 /\ delay = 0 /\ shown = -1

\* kernel_main: framebuffer::clear, long before the renderer runs.
ClearScreen ==
  /\ pc = "boot"
  /\ fb' = Filled(info, HARDCORE_BLACK)
  /\ pc' = "new"
  /\ UNCHANGED <<info, canvas, TICKS, last_frame, lead, bubble, offset, history>>

\* Canvas::new, which panics if the heap cannot hold the buffer, and clear.
NewCanvas ==
  /\ pc = "new"
  /\ \/ canvas' = Filled(info, HARDCORE_BLACK) /\ pc' = "loop"
     \/ canvas' = canvas /\ pc' = "out_of_memory"
  /\ UNCHANGED <<info, fb, TICKS, last_frame, lead, bubble, offset, history>>

\* while let Some(c) = read_char(): BUF.lock() is taken with interrupts on; the
\* character, if there is one, is printed and the next one asked for.
LockBuf ==
  /\ pc = "loop"
  /\ pc' = "locked"
  /\ UNCHANGED <<info, fb, canvas, TICKS, last_frame, lead, bubble, offset, history>>

ReadSome ==
  /\ pc = "locked"
  /\ pc' = "loop"
  /\ UNCHANGED <<info, fb, canvas, TICKS, last_frame, lead, bubble, offset, history>>

ReadNone ==
  /\ pc = "locked"
  /\ pc' = "test"
  /\ UNCHANGED <<info, fb, canvas, TICKS, last_frame, lead, bubble, offset, history>>

NextLeadStays(frame) == lead                                     \* a mutant

NextLeadBack(frame) == 2 - (frame % 3)                           \* a mutant

NextLeadUnreduced(frame) == frame                                \* a mutant

NextLead(frame) == frame % 3

\* The loop's test whether a step of the animation is due.
ReadFrame ==
  /\ pc = "test"
  /\ busy' = 0
  /\ LET frame == TICKS \div FrameTicks
     IN  \/ /\ frame # last_frame
            /\ last_frame' = frame
            /\ lead' = NextLead(frame)
            /\ bubble' = 0
            /\ delay' = busy
            /\ pc' = "draw"
         \/ /\ frame = last_frame
            /\ pc' = "hlt"
            /\ UNCHANGED <<last_frame, lead, bubble, delay>>
  /\ UNCHANGED <<info, fb, canvas, TICKS, offset, shown>>

\* A bubble of draw, with the opacity its place behind the leader gives it.
\* An offset outside the buffer would panic.
DrawBubble ==
  /\ pc = "draw"
  /\ LET at  == CircleOffsets(info, bubble)
         rgb == blend(BUILD_ACID, HARDCORE_BLACK, STAGGER[1 + ((3 + bubble - lead) % 3)])
     IN  IF at \subseteq DOMAIN canvas
         THEN /\ canvas' = [o \in DOMAIN canvas |->
                              IF o \in at THEN write_pixel(info.format, rgb) ELSE canvas[o]]
              /\ bubble' = bubble + 1
              /\ pc' = IF bubble = 2 THEN "present" ELSE "draw"
         ELSE pc' = "out_of_bounds" /\ UNCHANGED <<canvas, bubble>>
  /\ offset' = Start(info)
  /\ UNCHANGED <<info, fb, TICKS, last_frame, lead, history>>

\* present_rows copies front to back; the display may look after any pixel.
PresentPixel ==
  /\ pc = "present"
  /\ IF End(info) <= info.pixels
     THEN /\ fb' = [fb EXCEPT ![offset] = canvas[offset]]
          /\ offset' = offset + 1
          /\ pc' = IF offset' = End(info) THEN "hlt" ELSE "present"
          /\ shown' = IF offset' = End(info) THEN lead ELSE shown
     ELSE pc' = "out_of_bounds" /\ UNCHANGED <<fb, offset, shown>>
  /\ UNCHANGED <<info, canvas, TICKS, last_frame, lead, bubble, busy, delay>>

Halt ==
  /\ pc = "hlt"
  /\ pc' = "asleep"
  /\ UNCHANGED <<info, fb, canvas, TICKS, last_frame, lead, bubble, offset, history>>

\* timer_handler, at any moment; it ends hlt.
Tick ==
  /\ \/ /\ pc \in {"loop", "locked", "test", "draw", "present", "hlt"}
        /\ busy < PassTicks
        /\ busy' = busy + 1
        /\ pc' = pc
     \/ /\ pc = "asleep"
        /\ pc' = "loop"
        /\ UNCHANGED busy
  /\ TICKS' = (TICKS + 1) % TickCycle
  /\ UNCHANGED <<info, fb, canvas, last_frame, lead, bubble, offset, delay, shown>>

\* keyboard_handler: it ends hlt too.  Elsewhere it only fills the buffer, but
\* for the moment at which kernel_main holds its lock: there a scancode that
\* types makes the handler spin, with interrupts off, for a lock that is never
\* released.
KeyInterrupt ==
  /\ \/ pc = "asleep" /\ pc' = "loop"
     \/ pc = "locked" /\ pc' = "spin"
  /\ UNCHANGED <<info, fb, canvas, TICKS, last_frame, lead, bubble, offset, history>>

Stopped == pc \in {"out_of_memory", "spin"}

Finished == Stopped /\ UNCHANGED vars

Run ==
  \/ ClearScreen \/ NewCanvas \/ LockBuf \/ ReadSome \/ ReadNone
  \/ ReadFrame \/ DrawBubble \/ PresentPixel \/ Halt

Next == Run \/ Tick \/ KeyInterrupt \/ Finished

Spec == Init /\ [][Next]_vars

\* The CPU runs the loop, the timer keeps ticking, and the echo loop empties
\* the buffer now and then: the UART is faster than any typist.
FairSpec == Spec /\ WF_vars(Run) /\ WF_vars(Tick) /\ SF_vars(ReadNone)

-----------------------------------------------------------------------------
(* Properties.                                                             *)

\* Type invariant of the renderer.
TypeOK ==
  /\ pc \in {"boot", "new", "out_of_memory", "loop", "locked", "spin", "test", "draw",
             "present", "hlt", "asleep"}
  /\ TICKS \in 0 .. TickCycle - 1 /\ last_frame \in -1 .. TickCycle \div FrameTicks - 1
  /\ lead \in 0 .. 2 /\ bubble \in 0 .. 3 /\ offset \in 0 .. info.pixels
  /\ busy \in 0 .. PassTicks /\ delay \in 0 .. PassTicks /\ shown \in -1 .. 2

\* The mark with a given leader, from the brand's description: three discs on
\* black at 100, 60 and 30 % opacity in reading order from the leader (a later
\* disc covers an earlier one), nothing outside the visible area.
Opacity(place) == CASE place = 0 -> 255 [] place = 1 -> 153 [] OTHER -> 76

Disc(m, i, x, y) ==
  (x - Center(m, i)) * (x - Center(m, i)) + (y - CenterY(m)) * (y - CenterY(m))
    <= Radius(m) * Radius(m)

PixelOf(m, l, x, y) ==
  LET covering == {i \in 0 .. 2 : Disc(m, i, x, y)}
      colour(i) == [c \in 1 .. 3 |->
                      (BUILD_ACID[c] * Opacity((i - l) % 3)
                         + HARDCORE_BLACK[c] * (255 - Opacity((i - l) % 3))) \div 255]
  IN  IF x >= m.width \/ y >= m.height \/ covering = {} THEN HARDCORE_BLACK
      ELSE colour(Max(covering))

Image(m, l) ==
  [o \in 0 .. m.pixels - 1 |->
     write_pixel(m.format,
       IF l < 0 THEN HARDCORE_BLACK ELSE PixelOf(m, l, o % m.stride, o \div m.stride))]

\* Only whole frames are copied: the screen always shows the last whole frame
\* or, while pixels are being copied, that frame below one cut and the next one
\* above it; never a half-drawn bubble, a pixel of an older frame, or one
\* outside the mark that is not black, although the canvas is never cleared
\* between frames and only a band of rows is copied.
ScreenShowsWholeFrames ==
  pc # "boot" =>
    \A o \in DOMAIN fb :
      fb[o] = IF pc = "present" /\ o < offset THEN Image(info, lead)[o]
              ELSE Image(info, shown)[o]

\* The leader on the screen walks left to right and skips a bubble only when
\* the loop itself, echoing keys, drawing and copying, has been busy for a
\* whole step of the animation: the sleep loses none, whichever interrupt ends
\* it and however ticks fall in the window between the test and hlt.
Late == delay >= FrameTicks

Leader == INSTANCE Animation WITH late <- Late

LeaderWalks == Leader!Spec

\* The animation never stops and every bubble leads again and again, unless the
\* back buffer could not be allocated, a key arrived while read_char held the
\* lock of its buffer, or the loop is again and again too busy to take every
\* step.
AnimationGoesOn == <>Stopped \/ []<>Late \/ Leader!GoesOn

-----------------------------------------------------------------------------
(* What comments say and the code does not do.                             *)

\* render.rs:8-10 says of the copy to the framebuffer that "the display never
\* shows a half-drawn frame --- no tearing": at every moment what is to be seen
\* is one picture, whole.
NoTearing == pc # "boot" => \E l \in -1 .. 2 : fb = Image(info, l)
=============================================================================
