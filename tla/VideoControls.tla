---------------------------- MODULE VideoControls -----------------------------
(***************************************************************************)
(* What UmdCamera::handleVideoControl makes of the host's controls         *)
(* (daemon/umd-camera.cpp): SetX translates a host's value into camera     *)
(* metadata, GetX translates it back.  C++'s fixed widths are kept: Byte,  *)
(* Short and Word are 2^8, 2^16 and 2^32 in the code and smaller for TLC.  *)
(*                                                                         *)
(* Zoom, pan and tilt are kept in three static variables of the function   *)
(* between calls; a GET of either writes the magnification.                *)
(*                                                                         *)
(* Rounding.  Doubles here are precise enough for a truncated quotient to  *)
(* be the exact one's, unless that is an integer and the divisor m/100.0   *)
(* is not represented: then it may be one less.  Floats are modelled as    *)
(* any value within a relative error of 1 / Precision: three operations    *)
(* round, by 2^-24 each.                                                   *)
(***************************************************************************)
EXTENDS Integers

CONSTANTS
  Byte, Short, Word,  (* 2^8, 2^16, 2^32                                   *)
  ExposureUnit,       (* 100000: host's unit in nanoseconds                *)
  PanUnit,            (* 100 * 3600: host's unit, as a part of the crop    *)
  SensorW, SensorH,   (* ANDROID_SENSOR_INFO_ACTIVE_ARRAY_SIZE             *)
  Precision,          (* 2^22: bounds the rounding of GetZoom's floats     *)
  Offered,            (* controls whose vendor tag the HAL offers          *)
  HostValues,         (* host values of numeric controls                   *)
  Magnifications,     (* in hundredths; 0 would divide by zero             *)
  Angles              (* pan and tilt                                      *)

Enumerated == {"antibanding", "wbMode", "exposureMode", "focusMode"}
Numeric == {"brightness", "contrast", "saturation", "sharpness", "backlight",
            "gain", "wbTemperature", "exposureTime"}
Vendor == {"contrast", "saturation", "sharpness", "backlight", "gain",
           "wbTemperature", "wbMode"}

ASSUME ControlsAssumption ==
  /\ Byte \in Nat \ {0} /\ Short \in Nat \ {0} /\ Word \in Nat \ {0}
  /\ ExposureUnit \in Nat \ {0} /\ PanUnit \in Nat \ {0}
  /\ SensorW \in Nat \ {0} /\ SensorH \in Nat \ {0}
  /\ Short <= 100 * SensorW /\ Short <= 100 * SensorH
  /\ 100 < Short /\ Precision \in Nat /\ Short <= Precision
  /\ Offered \subseteq Vendor
  /\ HostValues \subseteq Nat
  /\ Magnifications \subseteq 1 .. Short - 1
  /\ Angles \subseteq Int

VARIABLES
  meta,           (* numeric controls as the repeating request has them    *)
  mode,           (* enumerated controls, likewise                         *)
  present,        (* the controls whose tag is in the metadata             *)
  crop,           (* ANDROID_SCALER_CROP_REGION                            *)
  magnification,  (* static                                                *)
  pan, tilt,      (* static                                                *)
  asked,          (* history: the last accepted value of each control      *)
  shown,          (* history: the magnification the crop was made with     *)
  fits            (* history: every magnification measured since the last  *)
                  (* zoom fitted its 16 bits                               *)

zoomVars == <<crop, magnification, pan, tilt, shown, fits>>
controlVars == <<meta, mode, present, zoomVars, asked>>

-----------------------------------------------------------------------------
(* Numeric controls.                                                       *)

(* Payloads of 16 bits but one of 32.                                      *)
Width(c) == IF c = "exposureTime" THEN Word ELSE Short

(* Mutant: the exposure time is truncated to the next narrower word.       *)
Encode_Narrow(c, v) ==
  CASE c = "contrast"     -> v * 2 - 100
    [] c = "backlight"    -> v % Byte
    [] c = "exposureTime" -> (v * ExposureUnit) % Short
    [] OTHER              -> v

Encode(c, v) ==
  CASE c = "contrast"     -> v * 2 - 100
    [] c = "backlight"    -> v % Byte
    [] c = "exposureTime" -> (v * ExposureUnit) % Word
    [] OTHER              -> v

Decode(c, x) ==
  CASE c = "contrast"     -> ((x + 200) \div 2) % Short
    [] c = "backlight"    -> x
    [] c = "exposureTime" -> (x \div ExposureUnit) % Word
    [] OTHER              -> x % Short

(* Enumerated controls: the host's values and the camera's.                *)
CameraMode ==
  [ antibanding  |-> [auto |-> "AUTO", disabled |-> "OFF", hz50 |-> "50HZ",
                      hz60 |-> "60HZ"],
    wbMode       |-> [auto |-> "MWB_DISABLE", manual |-> "MWB_CCT"],
    exposureMode |-> [auto |-> "AE_ON", shutter |-> "AE_OFF"],
    focusMode    |-> [auto |-> "AF_AUTO", manual |-> "AF_OFF"] ]

HostMode(c, m) == CHOOSE h \in DOMAIN CameraMode[c] : CameraMode[c][h] = m

-----------------------------------------------------------------------------
(* Zoom: the crop is centred, and moved by pan and tilt as a part of what  *)
(* the centring leaves on each side.                                       *)

Truncated(a, b) == IF a >= 0 THEN a \div b ELSE -((-a) \div b)

Shifted(offset, angle) == Truncated(offset * (PanUnit + angle), PanUnit)

(* Side / (m / 100.0), truncated.                                          *)
Quotients(side, m) ==
  LET q == (100 * side) \div m
  IN  {q} \cup {r \in {q - 1} : (100 * side) % m = 0 /\ m % 100 # 0}

CropOf(w, h, p, t) ==
  [x |-> Shifted(Truncated(SensorW - w, 2), p),
   y |-> Shifted(Truncated(SensorH - h, 2), t),
   w |-> w, h |-> h]

(* Mutant: only the width is looked at, rounded down to a multiple of ten. *)
ZoomOf_Coarse(c) ==
  LET w == IF c.w = 0 THEN SensorW ELSE c.w
  IN  {((10 * SensorW) \div w) * 10}

(* The mean of both quotients, in hundredths: exact when both are whole.   *)
ZoomOf(c) ==
  LET w == IF c.w = 0 THEN SensorW ELSE c.w
      h == IF c.h = 0 THEN SensorH ELSE c.h
      sum == 50 * (SensorW * h + SensorH * w)
  IN  IF SensorW % w = 0 /\ SensorH % h = 0
      THEN {sum \div (w * h)}
      ELSE (sum * (Precision - 1)) \div (w * h * Precision)
             .. (sum * (Precision + 1)) \div (w * h * Precision)

-----------------------------------------------------------------------------
(* The template request the camera starts with has the standard controls,  *)
(* the vendor's appear when they are first set.                            *)
ControlsInit ==
  /\ meta = [c \in Numeric |-> 0]
  /\ mode = [c \in Enumerated |-> CameraMode[c].auto]
  /\ present = (Numeric \cup Enumerated) \ Vendor
  /\ crop = [x |-> 0, y |-> 0, w |-> SensorW, h |-> SensorH]
  /\ magnification = 100 /\ pan = 0 /\ tilt = 0
  /\ asked = [c \in {} |-> 0]
  /\ shown = 100 /\ fits = TRUE

Settable(c) == c \in Vendor => c \in Offered

Remember(c, v) ==
  asked' = [d \in DOMAIN asked \cup {c} |-> IF d = c THEN v ELSE asked[d]]

(* A control without a tag, and a value that is not listed, are ignored.   *)
SetNumeric(c, v) ==
  /\ Settable(c) /\ v < Width(c)
  /\ meta' = [meta EXCEPT ![c] = Encode(c, v)]
  /\ present' = present \cup {c}
  /\ Remember(c, v)
  /\ UNCHANGED <<mode, zoomVars>>

SetEnumerated(c, h) ==
  /\ Settable(c)
  /\ mode' = [mode EXCEPT ![c] = CameraMode[c][h]]
  /\ present' = present \cup {c}
  /\ Remember(c, h)
  /\ UNCHANGED <<meta, zoomVars>>

Show(m, p, t) ==
  /\ \E w \in Quotients(SensorW, m), h \in Quotients(SensorH, m) :
       crop' = CropOf(w, h, p, t)
  /\ shown' = m

SetZoom(m) ==
  /\ magnification' = m
  /\ Show(m, pan, tilt)
  /\ fits' = TRUE
  /\ Remember("zoom", m)
  /\ UNCHANGED <<meta, mode, present, pan, tilt>>

(* A quotient by zero, which has no integer to convert to, is left out.    *)
SetPanTilt(p, t) ==
  /\ magnification # 0
  /\ pan' = p /\ tilt' = t
  /\ Show(magnification, p, t)
  /\ Remember("panTilt", <<p, t>>)
  /\ UNCHANGED <<meta, mode, present, magnification, fits>>

(* GET of zoom, or of pan and tilt; every other GET changes nothing.       *)
GetZoom ==
  /\ \E z \in ZoomOf(crop) :
       /\ magnification' = z % Short
       /\ fits' = (fits /\ z < Short)
  /\ UNCHANGED <<meta, mode, present, crop, pan, tilt, asked, shown>>

ControlsNext ==
  \/ \E c \in Numeric, v \in HostValues : SetNumeric(c, v)
  \/ \E c \in Enumerated : \E h \in DOMAIN CameraMode[c] : SetEnumerated(c, h)
  \/ \E m \in Magnifications : SetZoom(m)
  \/ \E p, t \in Angles : SetPanTilt(p, t)
  \/ GetZoom

ControlsSpec == ControlsInit /\ [][ControlsNext]_controlVars

-----------------------------------------------------------------------------
(* What a GET answers.                                                     *)
Answer(c) ==
  IF c \in Numeric THEN Decode(c, meta[c]) ELSE HostMode(c, mode[c])

(* Values that survive the narrower words of the metadata; GetContrast     *)
(* gives every value back 50 too high.                                     *)
Exact(c, v) ==
  CASE c = "backlight"    -> v < Byte
    [] c = "exposureTime" -> v * ExposureUnit < Word
    [] OTHER              -> TRUE

Offset(c) == IF c = "contrast" THEN 50 ELSE 0

(* The host reads what it set, in whatever order it set and read other     *)
(* controls in between: a brightness as a brightness, not shortened, not   *)
(* in the camera's numbering (umd-camera.cpp:241-487).                     *)
ReadsBack ==
  \A c \in DOMAIN asked \cap (Numeric \cup Enumerated) :
     /\ c \in present
     /\ c \in Numeric /\ Exact(c, asked[c]) =>
          Answer(c) = (asked[c] + Offset(c)) % Width(c)
     /\ c \in Enumerated => Answer(c) = asked[c]

(* The host asks for no less than the whole picture, and turns by no more   *)
(* than the crop leaves room for.                                          *)
WithinReach ==
  /\ "zoom" \in DOMAIN asked => asked["zoom"] >= 100
  /\ {pan, tilt} \subseteq -PanUnit .. PanUnit

CropInside ==
  /\ 0 <= crop.x /\ 0 <= crop.w /\ crop.x + crop.w <= SensorW
  /\ 0 <= crop.y /\ 0 <= crop.h /\ crop.y + crop.h <= SensorH

(* A GET overwrites the magnification with one computed from the truncated *)
(* crop, and the next pan or tilt uses it.  As long as what a GET computes *)
(* fits its 16 bits, a pan zooms out by at most one step of magnification  *)
(* (1/100), and with sensible values the picture never leaves the array    *)
(* (umd-camera.cpp:543-560, 596, 788).                                     *)
PanKeepsPicture ==
  [][ fits' =>
        /\ (\E p, t \in Angles : SetPanTilt(p, t)) => shown' >= shown - 1
        /\ WithinReach' => CropInside' ]_controlVars
=============================================================================
