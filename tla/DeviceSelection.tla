---------------------------- MODULE DeviceSelection ----------------------------
(***************************************************************************)
(* Which backend and which device: what a build offers, the policy of a    *)
(* system, enumeration, selectors, identities and their persistence, and   *)
(* the fallback between backends (src/src/api.rs, src/src/contract.rs,     *)
(* src/src/backends/mod.rs, src/src/types.rs).                             *)
(*                                                                         *)
(* A build is [target, features]: features are the backends compiled in    *)
(* (Cargo's "native" is four of them).  A device is [path, vendor,         *)
(* product, serial, name, more], its name and description as sets of words *)
(* and None for what it has not.  Text is a sequence of characters where   *)
(* characters matter: <<c>>, or <<value, case>> for a hexadecimal digit.   *)
(***************************************************************************)
EXTENDS Integers, Sequences, FiniteSetsExt, Functions, SequencesExt

None == <<>>

\* What fails, by the kind of its error.
Fails(kind) == [error |-> kind]

Failed(result) == "error" \in DOMAIN result

-----------------------------------------------------------------------------
(* Builds and backends.                                                     *)

Backends == {"uvc", "v4l2", "avfoundation", "camera2", "media-foundation"}

\* BackendType::supports_target.
SupportsTarget(backend, build) ==
    build.target \in CASE backend = "uvc" -> {"linux", "macos", "android"}
                       [] backend = "v4l2" -> {"linux", "android"}
                       [] backend = "avfoundation" -> {"macos", "ios"}
                       [] backend = "camera2" -> {"android"}
                       [] backend = "media-foundation" -> {"windows"}

\* A target of the backend.
Target(backend) == CASE backend \in {"uvc", "v4l2"} -> "linux" [] backend = "avfoundation" -> "macos"
                     [] backend = "camera2" -> "android" [] OTHER -> "windows"

\* BackendType::is_compiled.
IsCompiled(backend, build) == backend \in build.features

\* The modules a build contains, by their cfg attributes (camera_v4l2 is set
\* by build.rs), and BackendType::is_available, which repeats them.
InBuild(backend, build) ==
    /\ backend \in build.features
    /\ CASE backend = "uvc" -> build.target \in {"linux", "macos", "android"}
         [] backend = "v4l2" -> build.target \in {"linux", "android"}
         [] backend = "avfoundation" -> build.target \in {"macos", "ios"}
         [] backend = "camera2" -> build.target = "android"
         [] backend = "media-foundation" -> build.target = "windows"

\* BackendType::default_for_platform.
DefaultForPlatform(build) ==
    IF InBuild("camera2", build) THEN "camera2"
    ELSE IF InBuild("avfoundation", build) THEN "avfoundation"
    ELSE IF InBuild("media-foundation", build) THEN "media-foundation"
    ELSE IF InBuild("v4l2", build) THEN "v4l2" ELSE "uvc"

\* backends::available_backends and CameraSystem::available_backends.
AvailableBackends(system, build) ==
    {b \in Backends : InBuild(b, build)} \cup DOMAIN system.registered
    \cup (IF system.synthetic THEN {"synthetic"} ELSE {})

\* Broken: the target is not looked at.
BackendAvailabilityAnywhere(system, backend, build) ==
    IF backend \in Backends /\ IsCompiled(backend, build) THEN "Available" ELSE "NotCompiled"

\* CameraSystem::backend_availability.
BackendAvailability(system, backend, build) ==
    IF (backend = "synthetic" /\ system.synthetic) \/ backend \in DOMAIN system.registered THEN "Available"
    ELSE IF backend \notin Backends \/ ~IsCompiled(backend, build) THEN "NotCompiled"
    ELSE IF ~SupportsTarget(backend, build) THEN "UnsupportedTarget" ELSE "Available"

BackendUnavailable(backend, build) ==
    Fails(IF SupportsTarget(backend, build) THEN "not_compiled" ELSE "unsupported_target")

\* list_devices, get_supported_configs and create_selected_camera: Auto is the
\* platform's default, another backend never becomes one.
Effective(backend, build) ==
    LET b == IF backend = "auto" THEN DefaultForPlatform(build) ELSE backend
    IN  IF InBuild(b, build) THEN [backend |-> b] ELSE BackendUnavailable(b, build)

-----------------------------------------------------------------------------
(* Identities.                                                              *)

\* Broken: the place in the enumeration is part of every USB identity.
UniqueIdByPlace(device, index) ==
    IF device.path \notin {None, <<"">>} THEN device.path
    ELSE IF device.vendor # None /\ device.product # None THEN <<device.vendor, device.product, <<"index", index>>>>
    ELSE <<"device", index>>

\* CameraDeviceInfo::unique_id: path, vendor:product:serial, or the index.
UniqueId(device, index) ==
    IF device.path \notin {None, <<"">>} THEN device.path
    ELSE IF device.vendor # None /\ device.product # None
         THEN <<device.vendor, device.product, IF device.serial # None THEN device.serial ELSE <<"index", index>>>>
    ELSE <<"device", index>>

OfModel(devices, vendor, product) ==
    {i \in DOMAIN devices : <<devices[i].vendor, devices[i].product>> = <<vendor, product>>}

\* Broken: the first of several devices of the model will do.
FindByUniqueIdFirst(devices, id) ==
    LET model == OfModel(devices, id[1], id[2])
    IN  IF Len(id) = 3 /\ model # {} THEN [index |-> Min(model) - 1] ELSE Fails("device_not_found")

\* UvcCamera::find_device_by_unique_id: the device of the identity, or else the
\* only one of its vendor and product, or the one of several with its serial
\* number.
FindByUniqueId(devices, id) ==
    LET exact == {i \in DOMAIN devices : UniqueId(devices[i], i - 1) = id}
        model == IF Len(id) = 3 THEN OfModel(devices, id[1], id[2]) ELSE {}
        serial == {i \in model : devices[i].serial # None /\ devices[i].serial = id[3]}
        only == {i \in model : model = {i}}
        chosen == IF exact # {} THEN exact ELSE IF only # {} THEN only ELSE serial
    IN  IF chosen = {} THEN Fails("device_not_found") ELSE [index |-> Min(chosen) - 1]

VideoNode(path) == path # None /\ path[1] = "/dev/video"

\* Broken: a node's number is taken for an identity.
StableByPath(backend, device) ==
    device.path \notin {None, <<"">>} \/ device.serial \notin {None, <<"">>}

\* device_info: whether the identity outlives an enumeration.
Stable(backend, device) ==
    \/ device.path \notin {None, <<"">>} /\ ~(backend = "v4l2" /\ VideoNode(device.path))
    \/ device.serial \notin {None, <<"">>}

\* infer_facing, in this order, of the words a name and description contain.
InferFacing(words) ==
    IF words \cap {"front", "user"} # {} THEN "Front"
    ELSE IF words \cap {"back", "rear", "environment"} # {} THEN "Back"
    ELSE IF words \cap {"usb", "external"} # {} THEN "External" ELSE "Unknown"

\* device_info.
DeviceInfo(backend, device, index) ==
    [id |-> <<backend, UniqueId(device, index)>>, index |-> index, name |-> device.name,
     facing |-> InferFacing(device.name \cup device.more), vendor |-> device.vendor, product |-> device.product, serial |-> device.serial,
     stability |-> IF Stable(backend, device) THEN "Native" ELSE "EnumerationOnly"]

\* What a registered provider says of its own device is taken as it is.
RegisteredInfo(backend, info, index) ==
    [id |-> <<backend, info.native>>, index |-> index, name |-> info.name, facing |-> info.facing,
     vendor |-> info.vendor, product |-> info.product, serial |-> info.serial, stability |-> info.stability]

-----------------------------------------------------------------------------
(* Persistence.  What cannot be read is Refused, never an identity.         *)

Refused == <<>>

BuiltinIds == {<<<<b>>>> : b \in Backends \cup {"synthetic"}}

MaxPart == 96

IsDigit(c) == c \in (0..15) \X {"lower", "upper"}

\* Broken: anything but the separator of the two parts may stand in them.
ValidPartAny(part) == part # <<>> /\ Len(part) <= MaxPart /\ <<"/">> \notin ToSet(part)

\* BackendId::custom: letters, digits and . - _, here x, hexadecimal and -.
ValidPart(part) ==
    part # <<>> /\ Len(part) <= MaxPart /\ \A i \in DOMAIN part : part[i] \in {<<"x">>, <<"-">>} \/ IsDigit(part[i])

Custom(namespace, name) ==
    IF ValidPart(namespace) /\ ValidPart(name) THEN namespace \o <<<<"/">>>> \o name ELSE Refused

\* str::split_once at the first separator, if there is one.
SplitOnce(text, separator) ==
    LET at == {i \in DOMAIN text : text[i] = separator}
    IN  IF at = {} THEN None
        ELSE <<SubSeq(text, 1, Min(at) - 1), SubSeq(text, Min(at) + 1, Len(text))>>

\* BackendId::from_str.
ParseBackend(text) ==
    LET parts == SplitOnce(text, <<"/">>)
    IN  IF text \in BuiltinIds THEN text
        ELSE IF parts = None THEN Refused ELSE Custom(parts[1], parts[2])

MaxNative == 4096

\* DeviceId::new, of bytes; UTF-8 is a property of them.
NewDeviceId(backend, native) ==
    IF native = <<>> \/ Len(native) > MaxNative \/ 0 \in ToSet(native) THEN Refused
    ELSE [backend |-> backend, native |-> native]

\* DeviceId::to_persistent_string.
ToPersistentString(id) ==
    id.backend \o <<<<"|">>>>
    \o [i \in 1..(2 * Len(id.native)) |->
            <<IF i % 2 = 1 THEN id.native[(i + 1) \div 2] \div 16 ELSE id.native[i \div 2] % 16, "lower">>]

\* DeviceId::parse.
ParseDeviceId(text, isUtf8(_)) ==
    LET parts == SplitOnce(text, <<"|">>)
        digits == parts[2]
        bytes == [i \in 1..(Len(digits) \div 2) |-> 16 * digits[2 * i - 1][1] + digits[2 * i][1]]
    IN  IF parts = None THEN Refused
        ELSE IF Len(digits) > 2 * MaxNative \/ Len(digits) % 2 # 0 \/ \E i \in DOMAIN digits : ~IsDigit(digits[i])
             THEN Refused
        ELSE IF ~isUtf8(bytes) \/ ParseBackend(parts[1]) = Refused THEN Refused
        ELSE NewDeviceId(ParseBackend(parts[1]), bytes)

-----------------------------------------------------------------------------
(* Systems.  world[b] is what enumerating b gives: devices or an error.     *)

\* SystemBuilder::build; options name their backends.
BuildSystem(policy, options, valid) ==
    IF \E o \in ToSet(options) : ~valid[o] THEN Fails("invalid_config")
    ELSE IF policy.of = "require" /\ \E o \in ToSet(options) : o # policy.backend THEN Fails("option_mismatch")
    ELSE IF policy.of = "prefer" /\ policy.backends = <<>> THEN Fails("invalid_config")
    ELSE [policy |-> policy, options |-> options]

PolicyBackends(policy, build) ==
    CASE policy.of = "default" -> <<DefaultForPlatform(build)>>
      [] policy.of = "require" -> <<policy.backend>>
      [] policy.of = "prefer" -> policy.backends

\* Broken: the options of every backend are kept.
RequiringAllOptions(system, backend) ==
    [system EXCEPT !.policy = [of |-> "require", backend |-> backend]]

\* requiring.
Requiring(system, backend) ==
    [system EXCEPT !.policy = [of |-> "require", backend |-> backend],
                   !.options = SelectSeq(@, LAMBDA o : o = backend)]

\* devices_for_backend.
DevicesForBackend(world, backend, build) ==
    IF backend \notin Backends /\ backend \notin DOMAIN world THEN Fails("not_compiled")
    ELSE IF backend \in Backends /\ ~InBuild(backend, build) THEN BackendUnavailable(backend, build)
    ELSE IF Failed(world[backend]) THEN world[backend]
    ELSE [devices |-> [i \in DOMAIN world[backend].devices |->
                          IF backend \in Backends THEN DeviceInfo(backend, world[backend].devices[i], i - 1)
                          ELSE RegisteredInfo(backend, world[backend].devices[i], i - 1)]]

\* devices_blocking: what was found, or the first error if nothing was.
Devices(system, world, build) ==
    LET results == [i \in DOMAIN PolicyBackends(system.policy, build) |->
                       DevicesForBackend(world, PolicyBackends(system.policy, build)[i], build)]
        found == FlattenSeq([i \in DOMAIN results |-> IF Failed(results[i]) THEN <<>> ELSE results[i].devices])
        errors == SelectSeq(results, LAMBDA r : Failed(r))
    IN  IF found = <<>> /\ errors # <<>> THEN errors[1] ELSE [devices |-> found]

Matches(selector, info) ==
    CASE selector.of = "default" -> TRUE
      [] selector.of = "id" -> info.id = selector.id
      [] selector.of = "facing" -> info.facing = selector.facing
      [] selector.of = "usb" ->
            /\ info.vendor # None /\ info.product # None
            /\ <<info.vendor, info.product>> = selector.model
            /\ selector.serial = None \/ info.serial = selector.serial
      [] selector.of = "name" -> selector.word \in info.name

\* Broken: the first of several matches is taken.
OnlyMatchFirst(selector, matching) ==
    IF matching = <<>> THEN Fails("device_not_found") ELSE matching[1]

OnlyMatch(selector, matching) ==
    IF matching = <<>> THEN Fails("device_not_found")
    ELSE IF selector.of # "default" /\ Len(matching) > 1 THEN Fails("ambiguous_device")
    ELSE matching[1]

\* resolve_selector.
ResolveSelector(system, world, build, selector) ==
    LET all == Devices(system, world, build)
    IN  IF Failed(all) THEN all
        ELSE OnlyMatch(selector, SelectSeq(all.devices, LAMBDA info : Matches(selector, info)))

\* NativeSource::reopen and capabilities_blocking: the device of an identity.
Reopen(world, build, id) ==
    LET all == DevicesForBackend(world, id[1], build)
    IN  IF Failed(all) THEN all
        ELSE OnlyMatch([of |-> "id", id |-> id], SelectSeq(all.devices, LAMBDA info : info.id = id))

\* start_until and apply_backend_options: which options the device is given.
OptionsApplied(system, backend) ==
    IF \E o \in ToSet(system.options) : o # backend THEN Fails("option_mismatch")
    ELSE [applied |-> system.options]

-----------------------------------------------------------------------------
(* CaptureBuilder::start for the default device: one deadline for all of    *)
(* the attempts.  outcome[b] is [cost, result] of opening and starting b.   *)

\* Broken: a refusal of permission is one failed attempt more.
FinalOutcomeTriesOn(result) == result = "ok"

FinalOutcome(result) == result \in {"ok", "permission_denied", "permission_required"}

\* Attempts one after the other: <<[backend, result, at]>>, as far as they go.
Attempts(backends, outcome, timeout) ==
    LET at[i \in 0..Len(backends)] == IF i = 0 THEN 0 ELSE Min({timeout, at[i - 1] + outcome[backends[i]].cost})
        result(i) == IF at[i - 1] + outcome[backends[i]].cost > timeout THEN "timeout" ELSE outcome[backends[i]].result
        stops == {i \in DOMAIN backends : FinalOutcome(result(i))}
    IN  [i \in 1..Min(stops \cup {Len(backends)}) |-> [backend |-> backends[i], result |-> result(i), at |-> at[i]]]

StartDefault(system, outcome, timeout) ==
    LET tried == Attempts(system.policy.backends, outcome, timeout)
        end == Last(tried)
    IN  IF end.result = "ok"
        THEN [started |-> end.backend, at |-> end.at, options |-> OptionsApplied(Requiring(system, end.backend), end.backend)]
        ELSE IF FinalOutcome(end.result) THEN Fails(end.result)
        ELSE [error |-> "all_backends_failed", attempts |-> tried, at |-> end.at]

-----------------------------------------------------------------------------
(* Properties.                                                              *)

\* A build says of a backend that it is available exactly if it lists it, and
\* its default is one that works whenever one does.  Nothing is said of a
\* backend asked for by name that the build has not: create_camera and
\* list_devices refuse it, their documentation has them fall back.
BuildsAgree(build, system) ==
    /\ \A b \in Backends :
        (BackendAvailability(system, b, build) = "Available") = (b \in AvailableBackends(system, build))
    /\ (\E b \in Backends : InBuild(b, build)) => InBuild(DefaultForPlatform(build), build)
    /\ Failed(Effective("auto", build)) = ~(\E b \in Backends : InBuild(b, build))

\* An identity that claims to outlive an enumeration does: a camera listed at
\* another place among others is found again, and reopen never takes another
\* one in its stead.  find_device_by_unique_id does: once the camera is gone,
\* it gives the only other one of the vendor and product.  device.camera is the
\* camera itself, which the code cannot see; a /dev/video node goes to another
\* camera after a plug and a serial number to no other of its model.
IdentityHonest(backend, before, after, i) ==
    LET info == DeviceInfo(backend, before[i], i - 1)
        again == Reopen([b \in {backend} |-> [devices |-> after]],
                        [target |-> Target(backend), features |-> {backend}], info.id)
        found == FindByUniqueId(after, UniqueId(before[i], i - 1))
        there == \E j \in DOMAIN after : after[j].camera = before[i].camera
    IN  info.stability = "Native" =>
            /\ ~Failed(again) => after[again.index + 1].camera = before[i].camera
            /\ there => ~Failed(again)
            /\ backend = "uvc" =>
                /\ there => ~Failed(found) /\ after[found.index + 1].camera = before[i].camera
                /\ ~there /\ ~Failed(found) =>
                      OfModel(after, before[i].vendor, before[i].product) = {found.index + 1}

\* A persisted identity is read back as it was, and what is read is one that
\* could have been made.
IdSurvives(backend, native, text, isUtf8(_)) ==
    LET id == NewDeviceId(backend, native)
        read == ParseDeviceId(text, isUtf8)
    IN  /\ id # Refused /\ isUtf8(native) => ParseDeviceId(ToPersistentString(id), isUtf8) = id
        /\ read # Refused =>
              /\ read = NewDeviceId(read.backend, read.native)
              /\ ParseDeviceId(ToPersistentString(read), isUtf8) = read

\* The device of a selector is one of the policy's, matches it, and unless
\* the selector is the default is the only one that does; a backend that
\* cannot be enumerated hides no device of another.
SelectedExactly(system, world, build, selector) ==
    LET chosen == ResolveSelector(system, world, build, selector)
        all == {info \in UNION {ToSet(DevicesForBackend(world, b, build).devices)
                                : b \in {c \in ToSet(PolicyBackends(system.policy, build)) :
                                            ~Failed(DevicesForBackend(world, c, build))}} :
                    Matches(selector, info)}
    IN  IF Failed(chosen)
        THEN all = {} \/ (selector.of # "default" /\ chosen = Fails("ambiguous_device"))
        ELSE chosen \in all /\ (selector.of # "default" => all = {chosen})

\* Backends are tried in the order of preference until one starts: no later
\* one is used while an earlier one works, a refused permission is not
\* worked around, a failure of all names each, the deadline is one for all,
\* and the backend that starts gets its own options and no others.
FallbackInOrder(system, outcome, timeout) ==
    LET r == StartDefault(system, outcome, timeout)
        backends == system.policy.backends
        inTime(i) == FoldFunction(+, 0, [k \in 1..i |-> outcome[backends[k]].cost]) <= timeout
        before(i) == {outcome[backends[k]].result : k \in 1..(i - 1)}
        good == {i \in DOMAIN backends : outcome[backends[i]].result = "ok" /\ inTime(i)}
    IN  IF "started" \in DOMAIN r
        THEN \E i \in good :
                /\ r.started = backends[i] /\ r.at <= timeout
                /\ "ok" \notin before(i) /\ before(i) \cap {"permission_denied", "permission_required"} = {}
                /\ r.options = [applied |-> SelectSeq(system.options, LAMBDA o : o = backends[i])]
        ELSE IF r.error = "all_backends_failed"
        THEN /\ good = {} /\ r.at <= timeout
             /\ [i \in DOMAIN r.attempts |-> r.attempts[i].backend] = backends
        ELSE \E i \in DOMAIN backends : outcome[backends[i]].result = r.error /\ inTime(i) /\ "ok" \notin before(i)
=============================================================================
