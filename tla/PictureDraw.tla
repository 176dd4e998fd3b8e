---------------------------- MODULE PictureDraw -----------------------------
(***************************************************************************)
(* examples/uvc_display.py from the frame it read to the panel: the YUY2   *)
(* and MJPEG pictures, enlarged by a whole number in native code that      *)
(* checks no bounds, painted into the panel's own buffer or blitted.       *)
(*                                                                         *)
(* The panel scans its front buffer all the time; the display driver and   *)
(* the JPEG decoder are external.  A buffer is an array of pixels; one     *)
(* that blit_rect has swapped the bytes of in place is told by sw.         *)
(***************************************************************************)
EXTENDS Integers, Sequences

CONSTANTS
  Widths, Heights,          \* of the camera's picture; YUY2 pairs its pixels
  PanelWidths, PanelHeights,
  Pads,                     \* pixels a line of the panel's buffer is longer
  Upscales,                 \* UPSCALE: 0 for None, as large as fits
  MaxDrawn                  \* bound: frames read

VARIABLES
  screen,       \* the session: what the display is and the camera's mode
  fbs,          \* the panel's buffers
  front,        \* the one it scans
  tick          \* _tick: [at, n, row, rgb, band, direct, shown, torn, spill]

vars == <<screen, fbs, front, tick>>

Least(a, b) == IF a < b THEN a ELSE b

\* _scale_geometry, for a picture no larger than the panel (MAX_SIZE is None).
Scale(s) ==
  LET fits == Least(s.dw \div s.w, s.dh \div s.h)
  IN IF s.cap = 0 THEN fits ELSE Least(fits, s.cap)
OutW == screen.w * screen.scale
OutH == screen.h * screen.scale
X0 == (screen.dw - OutW) \div 2
Y0 == (screen.dh - OutH) \div 2
Stride == screen.dw + screen.pad

----------------------------------------------------------------------------
(* Pixels.                                                                 *)

\* A frame's bytes, frame by frame others, the extremes among them.
Levels == <<0, 255, 128, 16, 240, 90, 199>>
Byte(n, k) == Levels[((3 * n + k) % Len(Levels)) + 1]

Clamp(v) == IF v < 0 THEN 0 ELSE IF v > 255 THEN 255 ELSE v
\* 5, 6 and 5 bits of red, green and blue.
Pack(r, g, b) == (r \div 8) * 2048 + (g \div 4) * 32 + b \div 8
\* yuy2_row_to_rgb565's pixel: the chroma terms are rounded down before they are added.
Rgb565(y, u, v) ==
  LET rd == (351 * v) \div 256  gd == (86 * u + 179 * v) \div 256  bd == (444 * u) \div 256
  IN Pack(Clamp(y + rd), Clamp(y - gd), Clamp(y + bd))

Px(v) == [v |-> v, sw |-> FALSE]
Black == Px(<<>>)

\* yuy2_row_to_rgb565: four bytes from byte `base' on are two pixels, each `scale' wide.
YuyRow(n, base, dst, width, scale) ==
  [i \in DOMAIN dst |->
     IF i >= width * scale THEN dst[i]
     ELSE LET p == i \div scale  j == base + 4 * (p \div 2)
          IN Px(<<Rgb565(Byte(n, j + 2 * (p % 2)), Byte(n, j + 1) - 128, Byte(n, j + 3) - 128)>>)]

\* rgb565_copy_down: the first row again in the next rows.
CopyDown(buf, width, rows) ==
  [i \in DOMAIN buf |-> IF i < width * rows THEN buf[i % width] ELSE buf[i]]

\* Mutant: the rows are set apart by their own length.
MutRowUpscale(src, from, dst, at, width, scale, stride) ==
  [i \in DOMAIN dst |->
     LET j == i - at
     IN IF j >= 0 /\ j < scale * width * scale
        THEN src[from + (j % (width * scale)) \div scale] ELSE dst[i]]
\* rgb565_row_upscale: every pixel of a row, scale times, in scale rows stride apart.
RowUpscale(src, from, dst, at, width, scale, stride) ==
  [i \in DOMAIN dst |->
     LET j == i - at
     IN IF j >= 0 /\ j \div stride < scale /\ j % stride < width * scale
        THEN src[from + (j % stride) \div scale] ELSE dst[i]]
\* The last pixel it writes is one of dst.
Within(dst, at, width, scale, stride) ==
  at >= 0 /\ (at + (scale - 1) * stride + width * scale - 1) \in DOMAIN dst

\* blit_rect: the buffer's bytes are swapped in place for a panel that wants it so, and
\* the rectangle goes to the buffer that is drawn on.
Swapped(buf) == [i \in DOMAIN buf |-> [buf[i] EXCEPT !.sw = (@ # screen.swaps)]]
Blitted(fb, buf, x, y, w, h) ==
  [i \in DOMAIN fb |->
     LET px == (i % Stride) - x  py == (i \div Stride) - y
     IN IF px \in 0..(w - 1) /\ py \in 0..(h - 1) THEN buf[py * w + px] ELSE fb[i]]

----------------------------------------------------------------------------
(* The program.                                                            *)

Back == IF screen.two THEN 1 - front ELSE front
Show == IF screen.two THEN 1 - front ELSE front

Sessions ==
  {s \in [enc : {"yuy2", "mjpeg"}, w : Widths, h : Heights, dw : PanelWidths, dh : PanelHeights,
          pad : Pads, cap : Upscales, two : BOOLEAN, swaps : BOOLEAN, shares : BOOLEAN,
          tearFree : BOOLEAN] :
     /\ s.w <= s.dw /\ s.h <= s.dh
     /\ s.enc = "yuy2" => ~s.shares /\ s.tearFree}

\* Both buffers are filled with black; direct painting needs a display that lends its
\* buffer and takes the pixels as they are.
Init ==
  \E s \in Sessions :
    /\ screen = [enc |-> s.enc, w |-> s.w, h |-> s.h, dw |-> s.dw, dh |-> s.dh, pad |-> s.pad,
                 two |-> s.two, swaps |-> s.swaps, shares |-> s.shares,
                 tearFree |-> s.tearFree, scale |-> Scale(s)]
    /\ fbs = [b \in {0, 1} |-> [i \in 0..((s.dw + s.pad) * s.dh - 1) |-> Black]] /\ front = 0
    /\ tick = [at |-> "idle", n |-> 0, row |-> 0, direct |-> s.shares /\ ~s.swaps,
               rgb |-> [i \in 0..(s.w * s.h - 1) |-> Black],
               band |-> [i \in 0..(s.w * Scale(s) * Scale(s) - 1) |-> Black],
               shown |-> 0, torn |-> FALSE, spill |-> FALSE]

\* A frame is read.  One that is short, no JPEG, or of another size is passed over.
Read(good) ==
  /\ tick.at = "idle" /\ tick.n < MaxDrawn
  /\ tick' = [tick EXCEPT !.n = @ + 1, !.row = 0,
                          !.at = IF ~good THEN "idle" ELSE IF tick.direct THEN "direct"
                                 ELSE IF screen.enc = "mjpeg" THEN "decode"
                                 ELSE IF screen.scale = 1 THEN "convert" ELSE "rows"]
  /\ UNCHANGED <<screen, fbs, front>>

\* The decoder's picture.
Decoded(n) == [i \in DOMAIN tick.rgb |-> Px(<<n, i>>)]

Finish(shows) ==
  /\ front' = IF shows THEN Show ELSE front
  /\ tick' = [tick EXCEPT !.at = "idle", !.shown = tick.n, !.torn = FALSE]

Painted == IF screen.tearFree \/ ~screen.two THEN Back ELSE front

\* _direct at scale 1: the decoder paints into the panel's buffer.
DirectDecode ==
  /\ tick.at = "direct" /\ screen.scale = 1
  /\ fbs' = [fbs EXCEPT ![Painted] = Blitted(@, Decoded(tick.n), X0, Y0, screen.w, screen.h)]
  /\ Finish(screen.tearFree) /\ UNCHANGED screen
\* Otherwise into rgb, and from there row by row.
DirectBegin ==
  /\ tick.at = "direct" /\ screen.scale > 1
  /\ tick' = [tick EXCEPT !.at = "direct rows", !.rgb = Decoded(tick.n)]
  /\ UNCHANGED <<screen, fbs, front>>
DirectRow ==
  /\ tick.at = "direct rows" /\ tick.row < screen.h
  /\ LET at == (Y0 + tick.row * screen.scale) * Stride + X0
     IN /\ fbs' = [fbs EXCEPT ![Painted] = RowUpscale(tick.rgb, tick.row * screen.w, @, at,
                                                     screen.w, screen.scale, Stride)]
        /\ tick' = [tick EXCEPT !.row = @ + 1,
             !.spill = @ \/ ~Within(fbs[Painted], at, screen.w, screen.scale, Stride)]
  /\ UNCHANGED <<screen, front>>
DirectEnds ==
  /\ tick.at = "direct rows" /\ tick.row = screen.h
  /\ Finish(screen.tearFree) /\ UNCHANGED <<screen, fbs>>
\* A buffer it cannot take, or a picture that breaks off, which at scale 1 leaves a part
\* of it painted: no more painting directly, for this frame or any other.
DirectFails ==
  /\ tick.at = "direct" \/ (tick.at = "direct rows" /\ tick.row = 0)
  /\ \/ UNCHANGED fbs
     \/ /\ tick.at = "direct" /\ screen.scale = 1
        /\ fbs' = [fbs EXCEPT ![Painted] = Blitted(@, Decoded(tick.n), X0, Y0, 1, 1)]
  /\ tick' = [tick EXCEPT !.at = "decode", !.direct = FALSE,
                          !.torn = fbs' # fbs /\ Painted = front]
  /\ UNCHANGED <<screen, front>>

\* decoder.decode into rgb, which a picture it cannot decode leaves half written.
Decode ==
  /\ tick.at = "decode"
  /\ \/ tick' = [tick EXCEPT !.rgb = Decoded(tick.n),
                             !.at = IF screen.scale = 1 THEN "blit" ELSE "rows"]
     \/ tick' = [tick EXCEPT !.rgb[0] = Decoded(tick.n)[0], !.at = "idle"]
  /\ UNCHANGED <<screen, fbs, front>>

\* YUY2 at scale 1: the frame is one long row.
Convert ==
  /\ tick.at = "convert"
  /\ tick' = [tick EXCEPT !.at = "blit", !.rgb = YuyRow(tick.n, 0, @, screen.w * screen.h, 1)]
  /\ UNCHANGED <<screen, fbs, front>>

Blit ==
  /\ tick.at = "blit"
  /\ LET rgb == Swapped(tick.rgb)
     IN /\ fbs' = [fbs EXCEPT ![Back] = Blitted(@, rgb, X0, Y0, OutW, OutH)]
        /\ front' = Show
        /\ tick' = [tick EXCEPT !.at = "idle", !.shown = tick.n, !.torn = FALSE,
                                !.rgb = rgb]
  /\ UNCHANGED screen

\* The band of one source row, made of it and blitted.
BandRow ==
  /\ tick.at = "rows" /\ tick.row < screen.h
  /\ LET made == IF screen.enc = "mjpeg"
                 THEN RowUpscale(tick.rgb, tick.row * screen.w, tick.band, 0, screen.w,
                                 screen.scale, OutW)
                 ELSE CopyDown(YuyRow(tick.n, tick.row * screen.w * 2, tick.band, screen.w,
                                      screen.scale), OutW, screen.scale)
         band == Swapped(made)
     IN /\ fbs' = [fbs EXCEPT ![Back] = Blitted(@, band, X0, Y0 + tick.row * screen.scale,
                                                 OutW, screen.scale)]
        /\ tick' = [tick EXCEPT !.row = @ + 1, !.band = band,
             !.spill = @ \/ ~Within(tick.band, 0, screen.w, screen.scale, OutW)]
  /\ UNCHANGED <<screen, front>>
RowsEnd ==
  /\ tick.at = "rows" /\ tick.row = screen.h
  /\ Finish(TRUE) /\ UNCHANGED <<screen, fbs>>

Next ==
  \/ \E good \in BOOLEAN : Read(good)
  \/ DirectDecode \/ DirectBegin \/ DirectRow \/ DirectEnds \/ DirectFails
  \/ Decode \/ Convert \/ Blit \/ BandRow \/ RowsEnd

----------------------------------------------------------------------------
(* What is on the panel.                                                   *)

\* BT.601 with the sums rounded once, as a reader of the formula would write it.
Reference(y, u, v) ==
  Pack(Clamp((256 * y + 351 * v) \div 256),
       Clamp(-((86 * u + 179 * v - 256 * y) \div 256)),
       Clamp((256 * y + 444 * u) \div 256))

\* The pixel of frame n at column x and row y of the camera's picture.
Source(n, x, y) ==
  LET p == y * screen.w + x
  IN IF screen.enc = "mjpeg" THEN <<n, p>>
     ELSE LET pair == 4 * (p \div 2)
          IN <<Reference(Byte(n, 2 * p), Byte(n, pair + 1) - 128, Byte(n, pair + 3) - 128)>>

\* The whole of frame n in the middle, enlarged, and black around it.
Picture(n) ==
  [i \in DOMAIN fbs[0] |->
     LET x == (i % Stride) - X0  y == (i \div Stride) - Y0
     IN IF n > 0 /\ x \in 0..(OutW - 1) /\ y \in 0..(OutH - 1)
        THEN [v |-> Source(n, x \div screen.scale, y \div screen.scale), sw |-> screen.swaps]
        ELSE Black]

\* Between two ticks the panel shows the last frame that could be shown, every pixel of
\* it in its place and in the panel's byte order, and nothing around it, whatever frames
\* were passed over, and the next is right again where painting was given up; a panel with two buffers
\* that is to be tear-free shows nothing else at any moment; and no row is written past
\* the end of its buffer.
PanelTrue ==
  /\ ~tick.spill
  /\ ((tick.at = "idle" /\ ~tick.torn) \/ (screen.two /\ screen.tearFree))
       => fbs[front] = Picture(tick.shown)
=============================================================================
