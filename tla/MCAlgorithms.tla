---------------------------- MODULE MCAlgorithms ----------------------------
(***************************************************************************)
(* The pure algorithms over bounded inputs: a state is one input of one    *)
(* algorithm, named by `of`, and nothing happens to it.  Each invariant    *)
(* compares what the code computes for the input with its reference.       *)
(***************************************************************************)
EXTENDS Integers, Sequences, FiniteSets, TLC

K == INSTANCE PixelKernels
M == INSTANCE ColorMath
F == INSTANCE FrameConversion
N == INSTANCE Negotiation
D == INSTANCE DeviceSelection
C == INSTANCE Controls
R == INSTANCE FrameRateLimiter

VARIABLE input

-----------------------------------------------------------------------------
(* Pixels: rows long enough for three vector groups and every tail.         *)

Rows == [of : {"rows"}, width : 1..50, channels : {1, 3}]

\* The ends of the ranges, their neighbours, grey, the extremes of chroma and a
\* luma where ten fractional bits are not exact.
Bytes == {0, 1, 15, 16, 17, 50, 86, 127, 128, 129, 200, 235, 236, 240, 254, 255}

Colours == [of : {"colours"}, y : Bytes, u : Bytes, v : Bytes]

-----------------------------------------------------------------------------
(* Frames: planes one after the other, with room between pixels or rows,    *)
(* or a byte short.                                                         *)

LayoutOf(f, w, h, bottomUp, shape) ==
    LET specs == F!PlaneSpecs(f, w, h)
        pixel(i) == specs[i][3] + (IF shape = "wide" THEN 1 ELSE 0)
        row(i) == (specs[i][1] - 1) * pixel(i) + specs[i][3]
                  + (IF shape \in {"padded", "cut"} THEN 3 ELSE 0)
        length(i) == (specs[i][2] - 1) * row(i) + (specs[i][1] - 1) * pixel(i) + specs[i][3]
                     - (IF shape = "cut" THEN 1 ELSE 0)
        offset(i) == 1 + (IF i > 1 THEN length(1) ELSE 0) + (IF i > 2 THEN length(2) ELSE 0)
    IN  [layout |-> [width |-> w, height |-> h, format |-> f, bottom_up |-> bottomUp,
                     planes |-> [i \in DOMAIN specs |->
                        [offset |-> offset(i), length |-> length(i),
                         row_stride |-> row(i), pixel_stride |-> pixel(i)]]],
         length |-> offset(Len(specs)) + length(Len(specs))]

Frames ==
    [of : {"frame"}, format : F!PixelFormats \ F!Encoded, width : {2, 3, 6, 8}, height : {1, 2, 3},
     bottom_up : BOOLEAN, shape : {"plain", "wide", "padded", "cut"},
     to_width : {1, 2, 3, 4, 6}, to_height : {1, 2, 3, 5}]

Jpegs == [of : {"jpeg"}, width : 1..17, height : {1, 8, 9, 16, 17},
          to_width : {1, 2, 3, 5, 8, 9, 17, 20}, to_height : {1, 2, 3, 8, 9, 17}]

ChromaViews == [start : {3, 4}, length : {5, 7, 8, 11, 12}, row_stride : {4, 6}, pixel_stride : {1, 2}]

Chromas == [of : {"chroma"}, width : 1..4, height : 1..4, u : ChromaViews, v : ChromaViews]

V4l2Planes(at) == [at : {at}, n : {6, 12, 13, 20, 24, 30}, row_stride : {4, 6, 8}]

V4l2Frames ==
    [of : {"v4l2"}, format : F!V4l2Formats, width : 1..3, height : 1..3,
     planes : {<<a>> : a \in V4l2Planes(0)} \cup V4l2Planes(0) \X V4l2Planes(40)]

Mjpegs == [of : {"mjpeg"}, data : UNION {[1..n -> {"ff", "d8", "d9", "00"}] : n \in 0..6}]

-----------------------------------------------------------------------------
(* Requests and lists of configurations, with duplicates, equal costs,      *)
(* incomparable rates and formats that cannot be converted.                 *)

Configs ==
    [format : {"MJPEG", "YUYV", "NV12", "RGB"}, width : {4}, height : {2, 3}, rate : {<<30, 1>>}]
    \cup [format : {"YUYV", "MJPEG"}, width : {8}, height : {4},
          rate : {<<15, 1>>, <<29, 2>>, <<30, 1>>}]
    \cup {[format |-> "Gray", width |-> 3, height |-> 2, rate |-> <<60, 2>>],
          [format |-> "H264", width |-> 4, height |-> 2, rate |-> <<0, 1>>]}

Requests ==
    {r \in [width : {4}, height : {2}, rate : {<<30, 1>>, <<20, 1>>}, minimum : {<<>>, <<15, 1>>},
            formats : {<<>>, <<"MJPEG", "YUYV">>, <<"RGB">>}, exact : BOOLEAN,
            aspect : {<<>>, <<2, 1>>}, priority : N!Priorities,
            memory : {[buffers |-> 4, bytes |-> 64]}, startup : {1}, reconnect : {<<>>}]
     : N!ValidRequest(r)}

ConfigLists ==
    {<<>>} \cup Configs \X Configs
    \cup {<<a, b, c, a>> : a, b \in {x \in Configs : x.height = 4}, c \in {x \in Configs : x.height = 2}}

Negotiations == [of : {"negotiation"}, request : Requests, configurations : ConfigLists]

-----------------------------------------------------------------------------
(* Builds, devices before and after a new enumeration, and what is stored.  *)

Builds == [of : {"build"}, build : [target : {"linux", "macos", "ios", "android", "windows", "freebsd"},
                                    features : SUBSET D!Backends],
           system : {[registered |-> <<>>, synthetic |-> FALSE],
                     [registered |-> "acme" :> 1, synthetic |-> TRUE]}]

UsbDevice(camera, product, serial, words) ==
    [camera |-> camera, path |-> <<>>, vendor |-> <<1>>, product |-> <<product>>, serial |-> serial,
     name |-> words, more |-> {}]

PathDevice(camera, path, words) ==
    [camera |-> camera, path |-> path, vendor |-> <<>>, product |-> <<>>, serial |-> <<>>,
     name |-> {"cam"}, more |-> words]

DevicesOf(backend) ==
    CASE backend = "uvc" ->
            {UsbDevice(1, 2, <<"s1">>, {"usb"}), UsbDevice(2, 2, <<"s2">>, {"usb"}),
             UsbDevice(3, 2, <<>>, {"usb"}), UsbDevice(4, 2, <<>>, {"usb"}),
             UsbDevice(5, 2, <<"">>, {"usb"}), UsbDevice(6, 3, <<>>, {"usb"})}
      [] backend = "v4l2" ->
            {PathDevice(c, <<"/dev/video", n>>, {"usb"}) : c \in {1, 2}, n \in {0, 1}}
            \cup {PathDevice(3, <<"by-id", "a">>, {"front"})}
      [] OTHER -> {PathDevice(n, <<"id", n>>, {"back"}) : n \in {0, 1, 2}}

\* A path is one camera's, and a camera is enumerated once.
Enumerations(backend) ==
    {l \in {<<>>} \cup [1..1 -> DevicesOf(backend)] \cup [1..2 -> DevicesOf(backend)] :
        \A i, j \in DOMAIN l : i # j => /\ l[i].path # <<>> => l[i].path # l[j].path
                                        /\ l[i].camera # l[j].camera}

Identities ==
    UNION {[of : {"identity"}, backend : {b}, before : Enumerations(b), after : Enumerations(b)]
           : b \in {"uvc", "v4l2", "camera2"}}

Char(c) == <<c>>

BackendNames ==
    {<<Char("uvc")>>, <<Char("x"), Char("/"), Char("x")>>,
     <<Char("x"), Char("/"), <<1, "lower">>, Char("-")>>}

CustomNames ==
    {D!Custom(n, m) : n, m \in {<<Char("x")>>, <<Char("|")>>, <<Char("x"), Char("|")>>, <<<<7, "lower">>>>}}
    \ {D!None}

\* Stored identifiers: complete, cut, in the wrong case, not hexadecimal, not UTF-8.
Texts ==
    {b \o <<Char("|")>> \o native :
        b \in BackendNames \cup {<<>>, <<Char("x")>>, <<Char("/"), Char("x")>>,
                                 <<Char("x"), Char("/"), Char("?")>>,
                                 <<Char("x"), Char("/"), Char("|"), Char("x")>>},
        native \in {<<>>, <<<<4, "upper">>>>, <<<<4, "upper">>, <<10, "upper">>>>,
                    <<<<0, "lower">>, <<0, "lower">>>>, <<Char("x"), <<1, "lower">>>>,
                    <<<<12, "lower">>, <<8, "lower">>>>}}
    \cup {<<Char("x")>>}

Stored == [of : {"stored"}, backend : BackendNames \cup CustomNames,
           native : {<<>>, <<1>>, <<65, 10>>, <<195, 169>>, <<200>>, <<0>>}, text : Texts]

Utf8(bytes) == (\A i \in DOMAIN bytes : bytes[i] < 128) \/ bytes = <<195, 169>>

-----------------------------------------------------------------------------
(* Selection: what each backend enumerates, or that it fails.               *)

LinuxBuild == [target |-> "linux", features |-> {"uvc", "v4l2"}]

Found(lists) == {D!Fails("io")} \cup {[devices |-> l] : l \in lists}

Worlds ==
    [uvc : Found({<<>>, <<UsbDevice(1, 2, <<"s1">>, {"usb", "front"})>>,
                  <<UsbDevice(1, 2, <<"s1">>, {"usb"}), UsbDevice(1, 2, <<"s2">>, {"usb"})>>}),
     v4l2 : Found({<<>>, <<PathDevice(1, <<"by-id", "a">>, {"front"})>>}),
     acme : {D!Fails("gone"), [devices |-> <<[native |-> <<"id", 1>>, name |-> {"rear", "usb"}, facing |-> "Back",
                 stability |-> "Native", vendor |-> <<>>, product |-> <<>>, serial |-> <<>>]>>]}]

Prefer(backends) == [of |-> "prefer", backends |-> backends]

Policies ==
    {[of |-> "default"], [of |-> "require", backend |-> "uvc"],
     Prefer(<<"uvc", "v4l2", "acme">>), Prefer(<<"camera2", "v4l2">>), Prefer(<<"acme">>)}

Selectors ==
    {[of |-> "default"], [of |-> "facing", facing |-> "Front"], [of |-> "facing", facing |-> "Back"],
     [of |-> "usb", model |-> <<<<1>>, <<2>>>>, serial |-> <<>>],
     [of |-> "usb", model |-> <<<<1>>, <<2>>>>, serial |-> <<"s2">>],
     [of |-> "id", id |-> <<"v4l2", <<"by-id", "a">>>>], [of |-> "name", word |-> "usb"]}

Selections == [of : {"selection"}, policy : Policies, world : Worlds, selector : Selectors]

\* How each backend's start ends and what part of the deadline it takes.
Outcomes ==
    [uvc : [cost : {1, 3}, result : {"ok", "io", "permission_denied"}],
     v4l2 : [cost : {1, 3}, result : {"ok", "io", "permission_required"}],
     acme : [cost : {1}, result : {"ok", "io"}]]

Fallbacks ==
    [of : {"fallback"},
     policy : {Prefer(<<"uvc", "v4l2", "acme">>), Prefer(<<"v4l2", "uvc">>), Prefer(<<"uvc">>)},
     options : {<<>>, <<"v4l2">>, <<"uvc", "v4l2">>}, outcome : Outcomes, timeout : {2, 4, 9}]

-----------------------------------------------------------------------------
(* Controls: devices of each backend, with controls that are missing, read- *)
(* only, cannot be read, and automatics of every kind.                      *)

Cap(lo, hi, step, default) ==
    [min |-> lo, max |-> hi, step |-> step, def |-> default, ro |-> FALSE, auto |-> FALSE]

Camera(backend, caps, value, menu, modes, broken) ==
    [backend |-> backend, caps |-> caps, value |-> value,
     auto |-> [r \in DOMAIN value |-> FALSE], menu |-> menu, modes |-> modes,
     broken |-> broken, requested |-> <<>>]

NumberCaps ==
    [Exposure |-> Cap(1, 9, 2, 5), Focus |-> Cap(0, 300, 10, 0), Brightness |-> Cap(-2, 2, 1, 1)]

Numbers == [Exposure : {1, 7}, Focus : {10}, Brightness : {-2}]

Unreadable == {{}, {"Exposure"}, {"AutoExposure"}}

V4l2Cameras ==
    UNION {{Camera("v4l2", ("AutoExposure" :> Cap(0, 3, 1, default)) @@ ("AutoFocus" :> Cap(0, 1, 1, f))
                           @@ NumberCaps,
                   ("AutoExposure" :> now) @@ ("AutoFocus" :> 0) @@ n, menu, <<>>, b)
            : default \in menu, now \in menu, n \in Numbers, b \in Unreadable, f \in {0, 1}}
           : menu \in {{1, 3}, {0, 1}, {0}, {1, 2, 3}, {2}}}
    \cup {Camera("v4l2", [NumberCaps EXCEPT !.Focus.ro = ro], n, {}, <<>>, b)
          : n \in Numbers, b \in Unreadable, ro \in BOOLEAN}

UvcCameras ==
    UNION {{Camera("uvc", ("AutoExposure" :> Cap(0, 1, 1, default)) @@ ("AutoFocus" :> Cap(0, 1, 1, f))
                          @@ [NumberCaps EXCEPT !.Focus.max = max],
                   ("AutoExposure" :> now) @@ ("AutoFocus" :> 1) @@ n, mask, <<>>, b)
            : default \in mask, now \in mask, n \in Numbers, b \in Unreadable, f \in {0, 1},
              max \in {-5, 65530}}
           : mask \in {{1, 2}, {1, 8}, {4}, {1, 4, 8}}}

MfCameras ==
    {[Camera("mf", [NumberCaps EXCEPT !.Exposure.auto = a, !.Focus.auto = a], n, {}, <<>>, b)
        EXCEPT !.auto.Exposure = on]
     : n \in Numbers, b \in Unreadable, a \in BOOLEAN, on \in BOOLEAN}

Camera2Cameras ==
    {Camera("camera2",
            [Exposure |-> Cap(-4, 4, 1, 0), Zoom |-> Cap(100, zoom, 1, 0), Gain |-> Cap(50, 800, 1, 0)],
            [Exposure |-> 0, Zoom |-> 100, Gain |-> 100, AutoExposure |-> 1, AutoFocus |-> 4,
             AutoWhiteBalance |-> 1], {},
            [AutoExposure |-> exposure, AutoFocus |-> focus, AutoWhiteBalance |-> {1, 5}], b)
     : zoom \in {100, 400}, exposure \in {{1}, {0, 1, 3}}, focus \in {{0, 1, 3, 4}, {5}},
       b \in {{}, {"Gain"}, {"AutoExposure"}}}

AvfCameras ==
    {Camera("avf", [Brightness |-> Cap(-3000, 3000, 1, 0), Zoom |-> Cap(100, 160, 1, 100)],
            [Brightness |-> 0, Zoom |-> 100, Focus |-> mode, Exposure |-> 2, WhiteBalance |-> 0], {},
            [Focus |-> modes, Exposure |-> {0, 2}, WhiteBalance |-> {}], b)
     : modes \in {{0, 1, 2}, {0}}, mode \in {0, 3}, b \in {{}, {"Zoom"}}}

Cameras ==
    [of : {"controls"}, dev : V4l2Cameras \cup UvcCameras \cup MfCameras \cup Camera2Cameras \cup AvfCameras]

Changed == {"ExposureMode", "ExposureTime", "ExposureCompensation", "FocusMode", "FocusPosition",
            "Zoom", "Brightness", "Gain", "Iris"}

Values == {<<"mode", m>> : m \in {"Manual", "Automatic", "Locked", "Single", "Continuous"}}
          \cup {<<"number", n>> : n \in {-2, -1, 0, 1, 4, 5, 100, 115, 310, 65540}}

\* A duration and whether its unit is the control's.
Durations == {<<>>, <<0, FALSE>>, <<1, TRUE>>, <<5, TRUE>>, <<6, TRUE>>}

-----------------------------------------------------------------------------
(* Time stamps at an interval of 20: steps backwards, equal, early, in time *)
(* and late, and steady rates.  The clock of the limiter ends at 80 or 1000. *)

Stamps(start, steps) ==
    LET at[i \in 0..Len(steps)] ==
          IF i = 0 THEN start ELSE IF at[i - 1] + steps[i] < 0 THEN 0 ELSE at[i - 1] + steps[i]
    IN  [i \in 1..(Len(steps) + 1) |-> at[i - 1]]

Streams ==
    {s \in [of : {"rate"}, max : {80, 1000},
            times : {Stamps(start, d) : start \in {20, 21}, d \in [1..4 -> {-30, 0, 1, 10, 19, 20, 21, 45}]}
                    \cup {Stamps(start, [k \in 1..8 |-> d]) : start \in {1, 20}, d \in 1..22}]
     : s.times \in Seq(0..s.max)}

-----------------------------------------------------------------------------
Init ==
    \/ input \in Rows \/ input \in Colours
    \/ input \in Frames \/ input \in Jpegs \/ input \in Chromas \/ input \in V4l2Frames \/ input \in Mjpegs
    \/ input \in Negotiations
    \/ input \in Builds \/ input \in Identities \/ input \in Stored
    \/ input \in Selections \/ input \in Fallbacks
    \/ input \in Cameras
    \/ input \in Streams

Next == UNCHANGED input

Spec == Init /\ [][Next]_input

-----------------------------------------------------------------------------
(* Properties.                                                              *)

\* Every vector kernel and its scalar tail together give each pixel of a row,
\* at full and at half size and from 32-bit formats, exactly once and from
\* its own bytes, whatever the width leaves to the tail.
KernelsExact ==
    input.of = "rows" =>
        /\ K!RowsExact(input.width, input.channels)
        /\ K!HalfRowsExact(input.width)
        /\ K!PackedExact(input.width)

\* The fixed-point kernels of all instruction sets round as the portable one
\* does, and grey stays grey in every matrix.
ColoursAgree ==
    input.of = "colours" =>
        M!MachinesAgree(input.y, input.u, input.v) /\ M!GreyAxis(input.y)

\* Whichever of its paths a conversion takes, it reads only bytes the layout
\* owns and takes each pixel from where nearest sampling says.  The path the
\* diagnostics name is another one in the cases F!Drifts lists, and only there.
ConvertsExactly ==
    input.of = "frame" =>
        LET frame == LayoutOf(input.format, input.width, input.height, input.bottom_up, input.shape)
        IN  F!ConvertsExactly(frame.layout, frame.length,
                              [width |-> input.to_width, height |-> input.to_height])

\* Native frames: a JPEG is never decoded below the size asked for, chroma
\* planes of a camera and the second plane of V4L2 are found where they are
\* or refused, and what a MJPEG frame is decoded from begins and ends as one.
\* (A published MJPEG frame need not: it keeps what follows its end marker.)
FramesExact ==
    /\ input.of = "jpeg" => F!JpegKeepsDetail(input.width, input.height, input.to_width, input.to_height)
    /\ input.of = "chroma" => F!InterleavedExactly(input.width, input.height, input.u, input.v)
    /\ input.of = "v4l2" => F!V4l2Exactly(input.format, input.planes, input.width, input.height)
    /\ input.of = "mjpeg" => F!MjpegTrimmed(input.data)

\* The ranking does not depend on the order of enumeration and is what a
\* start tries; a published description can be used; what recovery accepts
\* later still satisfies the request.
NegotiationExact ==
    input.of = "negotiation" =>
        LET r == input.request
            cs == input.configurations
        IN  /\ N!RankedExactly(r, cs)
            /\ N!CapabilitiesUsable(r, cs)
            /\ \A kind \in {"native", "external", "synthetic"} : N!PlanIsWhatStarts(kind, r, cs, <<>>)
            /\ Len(cs) = 2 => N!RecoveredAsRequested(r, cs[1], cs[2], <<cs[2].width, cs[2].height>>)
            /\ \A delay \in {50, 100, 150, 1000}, rate \in {<<30, 1>>, <<2, 1>>, <<1, 2>>} :
                  N!RetriesBounded(delay, rate)

\* A device is found again by an identity that claims to be stable and, by a
\* session, never taken for another (UvcCamera's own lookup takes the only one
\* of its model); a stored identity reads back as it was; what a selector
\* names is alone in matching it; a start falls back in the order of the policy
\* and within one deadline.
SelectionExact ==
    /\ input.of = "build" => D!BuildsAgree(input.build, input.system)
    /\ input.of = "identity" =>
          \A i \in DOMAIN input.before : D!IdentityHonest(input.backend, input.before, input.after, i)
    /\ input.of = "stored" => D!IdSurvives(input.backend, input.native, input.text, Utf8)
    /\ input.of = "selection" =>
          LET system == D!BuildSystem(input.policy, <<>>, [x \in {} |-> TRUE])
          IN  D!Failed(system) \/ D!SelectedExactly(system, input.world, LinuxBuild, input.selector)
    /\ input.of = "fallback" =>
          LET system == D!BuildSystem(input.policy, input.options, [x \in {"uvc", "v4l2"} |-> TRUE])
          IN  D!Failed(system) \/ D!FallbackInOrder(system, input.outcome, input.timeout)

\* A control that was set reads back so (but for one zoom factor of
\* AVFoundation), and of the others only its mode was touched; a reset of the
\* camera that succeeds leaves every default, the automatic modes included.
\* The reset of a session does so on every backend but V4L2, where it leaves a
\* mode manual whose value it has reset, and reports success of both.
ControlsExact ==
    input.of = "controls" =>
        /\ \A c \in Changed, v \in Values :
              C!SetReadsBack(input.dev, c, v) /\ C!SetTouchesOwn(input.dev, c, v)
        /\ C!ResetsAll(input.dev) /\ C!ResetsEach(input.dev)
        /\ \A c \in {"ExposureTime", "FocusPosition"}, d \in Durations :
              C!ManualMeansManual(input.dev, c, d)

\* A limited stream keeps its rate, passes a source of that rate whole, and
\* never starves, whatever the time stamps do.
RateKept ==
    input.of = "rate" =>
        /\ R!NeverStarved(input.times, 20, input.max)
        /\ R!NominalKept(input.times, 20, input.max)
        /\ R!RateHeld(input.times, 20, input.max)
=============================================================================
