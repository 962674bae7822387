-------------------------------- MODULE Controls --------------------------------
(***************************************************************************)
(* Camera controls: the portable controls of a session                     *)
(* (src/src/controls.rs), the trait's resets (src/src/traits.rs) and what  *)
(* each backend makes of them (the control sections of                     *)
(* src/src/backends/).                                                     *)
(*                                                                         *)
(* dev is a device and the session's record of what it asked for:          *)
(*   backend, caps[raw] = [min, max, step, def, ro, auto] of what it has,  *)
(*   value[raw], auto[raw] (Media Foundation's flag), menu (the exposure   *)
(*   menu of V4L2, the mode mask of UVC), modes[raw] (Camera2 and          *)
(*   AVFoundation), broken (controls the driver refuses to write) and      *)
(*   requested[id].                                                        *)
(* Reading gives [value] or [error]; a write gives the device after it and *)
(* a result.  A ControlValue is <<"mode", m>> or <<"number", n>>; the raw  *)
(* Boolean and the raw manual integer are the same number here.            *)
(***************************************************************************)
EXTENDS Integers, Sequences, FiniteSetsExt, SequencesExt

None == <<>>

NoControl == "none"

Fails(kind) == [error |-> kind]
Failed(r) == "error" \in DOMAIN r

\* A map with one entry more, or another.
With(f, key, value) == [k \in DOMAIN f \cup {key} |-> IF k = key THEN value ELSE f[k]]

Gives(dev, result) == [dev |-> dev, result |-> result]

Bit(b) == IF b THEN 1 ELSE 0

-----------------------------------------------------------------------------
(* Native controls.                                                         *)

AutoControls == {"AutoExposure", "AutoFocus", "AutoWhiteBalance"}

\* auto_control, and automatic_base the other way round.
AutoOf == [Exposure |-> "AutoExposure", Focus |-> "AutoFocus", WhiteBalance |-> "AutoWhiteBalance"]
BaseOf == [AutoExposure |-> "Exposure", AutoFocus |-> "Focus", AutoWhiteBalance |-> "WhiteBalance"]

Has(dev, raw) == raw \in DOMAIN dev.caps

\* The driver's own set: it takes the value or refuses.
Write(dev, raw, v) ==
    IF raw \in dev.broken THEN Gives(dev, "io") ELSE Gives([dev EXCEPT !.value[raw] = v], "ok")

AllControls == <<"Brightness", "Contrast", "Hue", "Saturation", "Sharpness", "Gamma", "WhiteBalance",
    "BacklightCompensation", "Gain", "Pan", "Tilt", "Zoom", "Exposure", "Iris", "Focus">>

\* Broken: the automatic modes are put first.
ControlOrderAutosFirst == <<"AutoExposure", "AutoFocus", "AutoWhiteBalance">> \o AllControls

\* CONTROLS and the lists of the other backends: the automatic modes last.
ControlOrder == AllControls \o <<"AutoExposure", "AutoFocus", "AutoWhiteBalance">>

-----------------------------------------------------------------------------
(* V4L2.                                                                    *)

\* exposure_menu: manual is 1, automatic is aperture priority before auto.
ExposureMenu(dev) ==
    [manual |-> IF 1 \in dev.menu THEN 1 ELSE -1,
     automatic |-> IF 3 \in dev.menu THEN 3 ELSE IF 0 \in dev.menu THEN 0 ELSE -1]

V4l2ExposureModes(dev) ==
    (IF ExposureMenu(dev).manual >= 0 THEN {"Manual"} ELSE {})
    \cup (IF ExposureMenu(dev).automatic >= 0 THEN {"Automatic"} ELSE {})

ReadAuto(dev, raw) == IF raw = "AutoExposure" THEN dev.value[raw] # 1 ELSE dev.value[raw] # 0

WriteAuto(dev, raw, on) ==
    LET mode == IF on THEN ExposureMenu(dev).automatic ELSE ExposureMenu(dev).manual
    IN  IF raw # "AutoExposure" THEN Write(dev, raw, Bit(on))
        ELSE IF mode < 0 THEN Gives(dev, "not_supported") ELSE Write(dev, raw, mode)

V4l2Get(dev, raw) ==
    IF ~Has(dev, raw) THEN Fails("not_supported")
    ELSE [value |-> IF raw \in AutoControls THEN Bit(ReadAuto(dev, raw)) ELSE dev.value[raw]]

OutsideRange(range, v) == v < range.min \/ v > range.max \/ (v - range.min) % Max({range.step, 1}) # 0

\* V4l2Camera::set_control: a value turns its automatic mode off first.
V4l2Set(dev, raw, v) ==
    LET manual == IF raw \in DOMAIN AutoOf /\ Has(dev, AutoOf[raw])
                  THEN WriteAuto(dev, AutoOf[raw], FALSE) ELSE Gives(dev, "ok")
    IN  IF ~Has(dev, raw) \/ dev.caps[raw].ro THEN Gives(dev, "not_supported")
        ELSE IF raw \in AutoControls
             THEN IF v \notin {0, 1} THEN Gives(dev, "invalid_config") ELSE WriteAuto(dev, raw, v # 0)
        ELSE IF OutsideRange(dev.caps[raw], v) THEN Gives(dev, "invalid_config")
        ELSE IF manual.result # "ok" THEN manual ELSE Write(manual.dev, raw, v)

V4l2Range(dev, raw) ==
    LET modes == V4l2ExposureModes(dev)
        low == Bit("Manual" \notin modes)
        high == Bit("Automatic" \in modes)
        default == Bit(dev.caps[raw].def # 1)
    IN  IF ~Has(dev, raw) \/ (raw = "AutoExposure" /\ modes = {}) THEN Fails("not_supported")
        ELSE IF raw = "AutoExposure"
             THEN [min |-> low, max |-> high, step |-> 1, def |-> Max({low, Min({default, high})})]
        ELSE [min |-> dev.caps[raw].min, max |-> dev.caps[raw].max,
              step |-> IF raw \in AutoControls THEN 1 ELSE Max({dev.caps[raw].step, 1}), def |-> dev.caps[raw].def]

-----------------------------------------------------------------------------
(* UVC.                                                                     *)

Signed == {"Brightness", "Hue"}
NotInLibuvc == {"Pan", "Tilt", "Iris"}

\* The width of the control's field; exposure has 32 bits.
Narrow(raw, v) ==
    IF raw = "Exposure" THEN v
    ELSE IF raw \in Signed THEN ((v + 32768) % 65536) - 32768 ELSE v % 65536

Automatic(mode) == mode \in {2, 4, 8}

\* select_ae_mode: auto, then aperture priority, then shutter priority.
SelectAeMode(mask, on) ==
    LET first == IF ~on THEN 1 ELSE IF 2 \in mask THEN 2 ELSE IF 8 \in mask THEN 8 ELSE 4
    IN  IF first \in mask THEN first ELSE 0

UvcGet(dev, raw) ==
    IF raw \in NotInLibuvc THEN Fails("not_supported")
    ELSE IF ~Has(dev, raw) THEN Fails("uvc")
    ELSE [value |-> IF raw = "AutoExposure" THEN Bit(Automatic(dev.value[raw])) ELSE dev.value[raw]]

UvcSet(dev, raw, v) ==
    IF raw \in NotInLibuvc THEN Gives(dev, "not_supported")
    ELSE IF ~Has(dev, raw) THEN Gives(dev, "uvc")
    ELSE IF raw = "AutoExposure"
         THEN IF SelectAeMode(dev.menu, v # 0) = 0 THEN Gives(dev, "not_supported")
              ELSE Write(dev, raw, SelectAeMode(dev.menu, v # 0))
    ELSE Write(dev, raw, IF raw \in AutoControls THEN Bit(v # 0) ELSE Narrow(raw, v))

\* A range that makes no sense is an error.
UvcRange(dev, raw) ==
    IF raw \in NotInLibuvc THEN Fails("not_supported")
    ELSE IF ~Has(dev, raw) THEN Fails("uvc")
    ELSE IF raw \in AutoControls
         THEN [min |-> 0, max |-> 1, step |-> 1,
               def |-> IF raw = "AutoExposure" THEN Bit(Automatic(dev.caps[raw].def)) ELSE Bit(dev.caps[raw].def # 0)]
    ELSE IF dev.caps[raw].min > dev.caps[raw].max \/ dev.caps[raw].step <= 0 THEN Fails("invalid_frame")
    ELSE [min |-> dev.caps[raw].min, max |-> dev.caps[raw].max, step |-> dev.caps[raw].step, def |-> dev.caps[raw].def]

UvcExposureModes(dev) ==
    (IF 1 \in dev.menu THEN {"Manual"} ELSE {}) \cup (IF dev.menu \cap {2, 4, 8} # {} THEN {"Automatic"} ELSE {})

-----------------------------------------------------------------------------
(* Media Foundation: an automatic mode is a flag beside the value.          *)

MfGet(dev, raw) ==
    LET base == IF raw \in AutoControls THEN BaseOf[raw] ELSE raw
    IN  IF ~Has(dev, base) THEN Fails("control_failure")
        ELSE [value |-> IF raw \in AutoControls THEN Bit(dev.auto[base]) ELSE dev.value[base]]

\* Broken: turning a mode on or off writes 0 for the value.
MfSetZeroes(dev, raw, v) ==
    LET base == IF raw \in AutoControls THEN BaseOf[raw] ELSE raw
    IN  IF ~Has(dev, base) \/ base \in dev.broken THEN Gives(dev, "control_failure")
        ELSE Gives([dev EXCEPT !.value[base] = IF base = raw THEN v ELSE 0, !.auto[base] = base # raw /\ v # 0], "ok")

\* A value is written with the manual flag, a mode with the current value.
MfSet(dev, raw, v) ==
    LET base == IF raw \in AutoControls THEN BaseOf[raw] ELSE raw
    IN  IF ~Has(dev, base) \/ base \in dev.broken THEN Gives(dev, "control_failure")
        ELSE IF base = raw THEN Gives([dev EXCEPT !.value[raw] = v, !.auto[raw] = FALSE], "ok")
        ELSE IF v # 0 /\ ~dev.caps[base].auto THEN Gives(dev, "not_supported")
        ELSE Gives([dev EXCEPT !.auto[base] = v # 0], "ok")

MfRange(dev, raw) ==
    LET base == IF raw \in AutoControls THEN BaseOf[raw] ELSE raw
        caps == dev.caps[base]
    IN  IF ~Has(dev, base) THEN Fails("control_failure")
        ELSE IF base # raw THEN Fails(IF caps.auto THEN "not_readable" ELSE "not_supported")
        ELSE [min |-> caps.min, max |-> caps.max, step |-> caps.step, def |-> caps.def]

MfSupports(dev, raw) ==
    IF raw \in AutoControls THEN Has(dev, BaseOf[raw]) /\ dev.caps[BaseOf[raw]].auto
    ELSE ~Failed(MfRange(dev, raw))

-----------------------------------------------------------------------------
(* Camera2: nothing is read back.  modes[raw] are the native modes.         *)

Camera2Get(dev, raw) == Fails("not_readable")

Camera2Modes(dev, raw) == IF raw \in AutoControls THEN dev.modes[raw] ELSE {}

\* set_mode and the setters of the bridge; the sensitivity turns automatic
\* exposure off, if the camera can.
Camera2Set(dev, raw, v) ==
    LET mode == IF raw \in DOMAIN AutoOf THEN AutoOf[raw] ELSE raw
    IN  IF raw \in {"Brightness", "Exposure"} THEN Write(dev, "Exposure", v)
        ELSE IF raw = "Gain"
             THEN IF 0 \notin dev.modes["AutoExposure"] THEN Gives(dev, "invalid_param")
                  ELSE Write([dev EXCEPT !.value["AutoExposure"] = 0], "Gain", v)
        ELSE IF raw = "Zoom" THEN Write(dev, raw, v)
        ELSE IF mode \notin AutoControls THEN Gives(dev, "not_supported")
        ELSE IF v \notin dev.modes[mode] THEN Gives(dev, "invalid_param") ELSE Write(dev, mode, v)

\* The default is a placeholder nobody is shown.
Camera2Range(dev, raw) ==
    LET key == IF raw = "Brightness" THEN "Exposure" ELSE raw
    IN  IF key \notin {"Exposure", "Zoom", "Gain"} THEN Fails("not_supported")
        ELSE IF ~Has(dev, key) THEN Fails("internal")
        ELSE [min |-> dev.caps[key].min, max |-> dev.caps[key].max, step |-> 1, def |-> 0]

Camera2Supports(dev, raw) ==
    IF raw \in AutoControls THEN dev.modes[raw] # {} ELSE ~Failed(Camera2Range(dev, raw))

-----------------------------------------------------------------------------
(* AVFoundation: focus, exposure and white balance are modes.               *)

AvfControls == <<"Focus", "Exposure", "WhiteBalance", "Zoom", "Brightness">>

\* The zoom factor times a hundred, truncated: 1.15 * 100.0 is less than 115.
TruncatedZoom(v) == IF v = 115 THEN 114 ELSE v

AvfGet(dev, raw) ==
    IF raw \notin ToSet(AvfControls) THEN Fails("not_supported")
    ELSE [value |-> IF raw = "Zoom" THEN TruncatedZoom(dev.value[raw]) ELSE dev.value[raw]]

AvfSet(dev, raw, v) ==
    IF raw \notin ToSet(AvfControls) THEN Gives(dev, "not_supported")
    ELSE IF raw \in DOMAIN AutoOf /\ v \notin dev.modes[raw] THEN Gives(dev, "not_supported")
    ELSE Write(dev, raw, v)

AvfRange(dev, raw) ==
    IF raw = "Brightness" \/ raw = "Zoom"
    THEN [min |-> dev.caps[raw].min, max |-> dev.caps[raw].max, step |-> 1, def |-> IF raw = "Zoom" THEN 100 ELSE 0]
    ELSE Fails("not_supported")

-----------------------------------------------------------------------------
(* BackendCamera and the CameraControl trait, whichever the backend is.     *)

GetControl(dev, raw) ==
    CASE dev.backend = "v4l2" -> V4l2Get(dev, raw) [] dev.backend = "uvc" -> UvcGet(dev, raw)
      [] dev.backend = "mf" -> MfGet(dev, raw) [] dev.backend = "camera2" -> Camera2Get(dev, raw)
      [] dev.backend = "avf" -> AvfGet(dev, raw)

SetNative(dev, raw, v) ==
    CASE dev.backend = "v4l2" -> V4l2Set(dev, raw, v) [] dev.backend = "uvc" -> UvcSet(dev, raw, v)
      [] dev.backend = "mf" -> MfSet(dev, raw, v) [] dev.backend = "camera2" -> Camera2Set(dev, raw, v)
      [] dev.backend = "avf" -> AvfSet(dev, raw, v)

GetControlRange(dev, raw) ==
    CASE dev.backend = "v4l2" -> V4l2Range(dev, raw) [] dev.backend = "uvc" -> UvcRange(dev, raw)
      [] dev.backend = "mf" -> MfRange(dev, raw) [] dev.backend = "camera2" -> Camera2Range(dev, raw)
      [] dev.backend = "avf" -> AvfRange(dev, raw)

SupportsControl(dev, raw) ==
    CASE dev.backend = "v4l2" -> ~Failed(V4l2Range(dev, raw)) [] dev.backend = "uvc" -> ~Failed(UvcGet(dev, raw))
      [] dev.backend = "mf" -> MfSupports(dev, raw) [] dev.backend = "camera2" -> Camera2Supports(dev, raw)
      [] dev.backend = "avf" -> raw \in ToSet(AvfControls)

\* get_supported_controls: those of the backend's list that are supported, in
\* its order; two backends do not ask.
ControlList(dev) ==
    CASE dev.backend = "avf" -> AvfControls
      [] dev.backend = "camera2" -> <<"Brightness", "Exposure", "AutoExposure", "Focus", "AutoFocus",
                                      "WhiteBalance", "AutoWhiteBalance", "Zoom", "Gain">>
      [] OTHER -> ControlOrder

GetSupportedControls(dev) ==
    {raw \in ToSet(ControlList(dev)) : dev.backend \in {"avf", "camera2"} \/ SupportsControl(dev, raw)}

ResetControl(dev, raw) ==
    IF Failed(GetControlRange(dev, raw)) THEN Gives(dev, "no_range")
    ELSE SetNative(dev, raw, GetControlRange(dev, raw).def)

\* What is left after a control, and whether none has failed so far.
ResetNext(done, raw) ==
    LET r == ResetControl(done.dev, raw)
    IN  Gives(r.dev, IF r.result = "ok" THEN done.result ELSE "control_batch")

\* The device after each control of the list.
ResetRun(dev) ==
    LET after[i \in 0..Len(ControlList(dev))] ==
            IF i = 0 THEN Gives(dev, "ok")
            ELSE IF ControlList(dev)[i] \notin GetSupportedControls(dev) THEN after[i - 1]
            ELSE ResetNext(after[i - 1], ControlList(dev)[i])
    IN  after

\* reset_all_controls: each of them, and an error if any of them failed.
ResetAllControls(dev) == ResetRun(dev)[Len(ControlList(dev))]

-----------------------------------------------------------------------------
(* The session's portable controls.                                         *)

IDS == <<"ExposureMode", "ExposureTime", "ExposureCompensation", "FocusMode", "FocusPosition", "WhiteBalanceMode",
    "WhiteBalanceTemperature", "Zoom", "Brightness", "Contrast", "Hue", "Saturation", "Sharpness", "Gamma",
    "BacklightCompensation", "Gain", "Pan", "Tilt", "Iris">>

ModeOf == [ExposureTime |-> "ExposureMode", FocusPosition |-> "FocusMode", WhiteBalanceTemperature |-> "WhiteBalanceMode"]
IsMode(id) == id \in {"ExposureMode", "FocusMode", "WhiteBalanceMode"}

\* mapping: the native control, or NoControl where the backend has no such control.
Mapping(backend, id) ==
    LET modesOnly == backend \in {"avf", "camera2"}
    IN  IF modesOnly /\ id \in DOMAIN ModeOf \cup {"Brightness"} THEN NoControl
        ELSE IF id = "ExposureCompensation"
             THEN CASE backend = "avf" -> "Brightness" [] backend = "camera2" -> "Exposure" [] OTHER -> NoControl
        ELSE CASE id = "ExposureMode" -> IF backend = "avf" THEN "Exposure" ELSE "AutoExposure"
               [] id = "FocusMode" -> IF backend = "avf" THEN "Focus" ELSE "AutoFocus"
               [] id = "WhiteBalanceMode" -> IF backend = "avf" THEN "WhiteBalance" ELSE "AutoWhiteBalance"
               [] id = "ExposureTime" -> "Exposure"
               [] id = "FocusPosition" -> "Focus"
               [] id = "WhiteBalanceTemperature" -> "WhiteBalance"
               [] OTHER -> id

AvfModes == <<"Locked", "Single", "Continuous">>

\* decode, of what the native control reads.
Decode(backend, id, v) ==
    IF ~IsMode(id) THEN [value |-> <<"number", v>>]
    ELSE IF backend # "avf" THEN [value |-> <<"mode", IF v # 0 THEN "Automatic" ELSE "Manual">>]
    ELSE IF v \in 0..2 THEN [value |-> <<"mode", AvfModes[v + 1]>>] ELSE Fails("not_readable")

\* camera2_mode, NoControl for the modes this interface has no word for.
Camera2Mode(id, v) ==
    IF id = "FocusMode"
    THEN CASE v = 0 -> "Manual" [] v = 1 -> "Single" [] v \in {3, 4} -> "Continuous" [] OTHER -> NoControl
    ELSE CASE v = 0 -> "Manual" [] v = 1 -> "Automatic" [] OTHER -> NoControl

\* The range as it is described: its default is a ControlValue, if it has one.
DescribeRange(backend, id, range) ==
    [min |-> range.min, max |-> range.max, step |-> range.step,
     default |-> IF backend = "camera2" THEN None
                 ELSE LET d == Decode(backend, id, range.def) IN IF Failed(d) THEN None ELSE d.value]

Descriptor(dev, id) ==
    LET raw == Mapping(dev.backend, id)
        range == GetControlRange(dev, raw)
        modes == CASE dev.backend = "avf" -> {AvfModes[v + 1] : v \in dev.modes[raw]}
                   [] dev.backend = "camera2" -> {Camera2Mode(id, v) : v \in Camera2Modes(dev, raw)} \ {NoControl}
                   [] dev.backend = "v4l2" /\ id = "ExposureMode" -> V4l2ExposureModes(dev)
                   [] dev.backend = "uvc" /\ id = "ExposureMode" -> UvcExposureModes(dev)
                   [] OTHER -> {"Manual", "Automatic"}
    IN  IF raw = NoControl THEN Fails("not_supported")
        ELSE IF ~SupportsControl(dev, raw) THEN Fails("not_supported")
        ELSE [id |-> id, modes |-> IF IsMode(id) THEN modes ELSE {},
              range |-> IF Failed(range) THEN None ELSE DescribeRange(dev.backend, id, range),
              writable |-> CASE dev.backend = "v4l2" -> ~dev.caps[raw].ro
                             [] dev.backend = "avf" -> IsMode(id) => modes # {}
                             [] dev.backend = "camera2" -> IF IsMode(id) THEN modes # {} ELSE range.max > range.min
                             [] OTHER -> TRUE,
              requiresManual |-> IF id \in DOMAIN ModeOf THEN ModeOf[id] ELSE NoControl]

\* CaptureSession::controls: what is not supported is left out.
SessionControls(dev) == {id \in ToSet(IDS) : ~Failed(Descriptor(dev, id))}

\* CaptureSession::control.
Control(dev, id) ==
    LET raw == Mapping(dev.backend, id)
        native == GetControl(dev, raw)
        actual == IF Failed(native) THEN native ELSE Decode(dev.backend, id, native.value)
    IN  IF raw = NoControl THEN Fails("not_supported")
        ELSE IF ~Failed(actual) THEN [actual |-> actual.value]
        ELSE IF actual # Fails("not_readable") THEN actual
        ELSE IF id \in DOMAIN dev.requested THEN [requested |-> dev.requested[id]] ELSE [unknown |-> TRUE]

\* Broken: a value below the range is let through.
InRangeBelowMax(range, v) == range # None => v <= range.max

InRange(range, v) ==
    range # None => /\ range.min <= v /\ v <= range.max
                    /\ range.step > 0 => (v - range.min) % range.step = 0

\* The number an offered mode is written as.
Encode(dev, id, mode) ==
    LET raw == Mapping(dev.backend, id)
    IN  CASE dev.backend = "camera2" -> Min({v \in dev.modes[raw] : Camera2Mode(id, v) = mode})
          [] dev.backend = "avf" -> CHOOSE v \in 0..2 : AvfModes[v + 1] = mode
          [] OTHER -> Bit(mode = "Automatic")

\* CaptureSession::set_control: what is refused before the device is asked ...
Refusal(dev, desc, value) ==
    CASE Failed(desc) -> desc.error
      [] ~Failed(desc) /\ ~desc.writable -> "not_supported"
      [] ~Failed(desc) /\ desc.writable ->
            IF (value[1] = "mode") # IsMode(desc.id) THEN "invalid_config"
            ELSE IF IsMode(desc.id) /\ value[2] \notin desc.modes
                 THEN IF dev.backend = "v4l2" THEN "not_supported" ELSE "invalid_config"
            ELSE IF ~IsMode(desc.id) /\ ~InRange(desc.range, value[2]) THEN "invalid_config" ELSE "ok"

\* ... and what is remembered of a value it has taken.
Requested(written, id, value) ==
    IF written.result # "ok" THEN written
    ELSE Gives([written.dev EXCEPT !.requested = With(@, id, value)], "ok")

SetControl(dev, id, value) ==
    LET refusal == Refusal(dev, Descriptor(dev, id), value)
    IN  IF refusal # "ok" THEN Gives(dev, refusal)
        ELSE Requested(SetNative(dev, Mapping(dev.backend, id),
                                 IF IsMode(id) THEN Encode(dev, id, value[2]) ELSE value[2]), id, value)

\* The outcome of one control: its default is set as any value is.
ResetToDefault(done, desc) ==
    LET r == IF desc.range = None THEN Gives(done.dev, "not_supported")
             ELSE IF desc.range.default = None THEN Gives(done.dev, "not_supported")
             ELSE SetControl(done.dev, desc.id, desc.range.default)
    IN  [dev |-> r.dev, outcomes |-> With(done.outcomes, desc.id, r.result)]

\* The device and the outcomes after each control, described before the first.
ResetEachRun(dev) ==
    LET after[i \in 0..Len(IDS)] ==
            IF i = 0 THEN [dev |-> dev, outcomes |-> <<>>]
            ELSE IF IDS[i] \notin SessionControls(dev) THEN after[i - 1]
            ELSE ResetToDefault(after[i - 1], Descriptor(dev, IDS[i]))
    IN  after

\* CaptureSession::reset_controls: one outcome for each control.
ResetControls(dev) == ResetEachRun(dev)[Len(IDS)]

\* set_exposure, set_white_balance and set_focus: None is automatic;
\* <<n, FALSE>> is a duration that is no number of native units, an error.
ThenValue(mode, id, value) ==
    IF value = None \/ mode.result # "ok" THEN mode
    ELSE IF ~value[2] THEN Gives(mode.dev, "invalid_config")
    ELSE SetControl(mode.dev, id, <<"number", value[1]>>)

SetManually(dev, id, value) ==
    ThenValue(SetControl(dev, ModeOf[id], <<"mode", IF value = None THEN "Automatic" ELSE "Manual">>), id, value)

-----------------------------------------------------------------------------
(* Properties.                                                              *)

\* The native state a reader of raw would see.
Native(dev, raw) == <<dev.value[raw], dev.auto[raw]>>

\* What was set is read back, as read from the device where that can be read
\* and else as what was asked for: a number that its range has let through is
\* not cut by the width of a UVC field.  (Without a range it may be.)  Not so
\* the zoom of AVFoundation: 115 reads back as 114, other factors as set.
SetReadsBack(dev, id, value) ==
    LET r == SetControl(dev, id, value)
        seen == IF dev.backend = "avf" /\ id = "Zoom" THEN <<"number", TruncatedZoom(value[2])>> ELSE value
    IN  r.result = "ok" /\ (IsMode(id) \/ Descriptor(dev, id).range # None) =>
            Control(r.dev, id) = IF dev.backend = "camera2" THEN [requested |-> seen] ELSE [actual |-> seen]

\* A set touches its own control and, of the others, only the automatic mode
\* that has to be off for it, also when it fails half way; a refused value
\* changes nothing.
SetTouchesOwn(dev, id, value) ==
    LET r == SetControl(dev, id, value)
        raw == Mapping(dev.backend, id)
        own == {raw} \cup (IF raw \in DOMAIN AutoOf THEN {AutoOf[raw]} ELSE {})
               \cup (IF raw \in DOMAIN BaseOf THEN {BaseOf[raw]} ELSE {})
               \cup (IF dev.backend = "camera2" /\ raw = "Gain" THEN {"AutoExposure"} ELSE {})
        changed == {n \in DOMAIN dev.value : Native(r.dev, n) # Native(dev, n)}
    IN  /\ changed \subseteq own
        /\ \A n \in changed : n # raw =>
              IF n \in AutoControls THEN r.dev.value[n] \in {0, 1} ELSE r.dev.value[n] = dev.value[n]
        /\ r.result \in {"invalid_config", "not_supported"} => r.dev = dev \/ changed \subseteq AutoControls

\* After a reset of everything that reports no failure every control, the
\* automatic modes too, is at its default.
ResetsAll(dev) ==
    LET r == ResetAllControls(dev)
    IN  r.result = "ok" =>
            \A raw \in GetSupportedControls(dev) :
                GetControl(r.dev, raw) = [value |-> GetControlRange(dev, raw).def]

\* After the session's reset every control whose outcome is a success reads
\* its default, but on V4L2 the modes: the reset of a value comes after that
\* of its mode and turns the mode off again, also when the value then fails.
ResetsEach(dev) ==
    LET r == ResetControls(dev)
        ok == {id \in DOMAIN r.outcomes : r.outcomes[id] = "ok"}
        asked == {id \in DOMAIN r.outcomes : r.outcomes[id] \notin {"not_supported", "invalid_config"}}
        turnedOff == IF dev.backend = "v4l2" THEN {ModeOf[id] : id \in DOMAIN ModeOf \cap asked} ELSE {}
    IN  \A id \in ok :
            Control(r.dev, id) = [actual |-> IF id \in turnedOff THEN <<"mode", "Manual">>
                                             ELSE Descriptor(dev, id).range.default]

\* Setting a value by hand ends with the mode manual and the value set;
\* asking for automatic with the mode automatic; a failure leaves the value.
ManualMeansManual(dev, id, value) ==
    LET r == SetManually(dev, id, value)
        is(x, v) == Control(r.dev, x) \in {[actual |-> v], [requested |-> v]}
    IN  IF r.result # "ok" THEN Control(r.dev, id) = Control(dev, id)
        ELSE IF value = None THEN is(ModeOf[id], <<"mode", "Automatic">>)
        ELSE is(ModeOf[id], <<"mode", "Manual">>) /\ is(id, <<"number", value[1]>>)
=============================================================================
