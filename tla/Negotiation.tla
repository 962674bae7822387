------------------------------ MODULE Negotiation ------------------------------
(***************************************************************************)
(* From a capture request to the configurations a start tries, and back:   *)
(* what is requested, what devices say they can do, the ranking, and the   *)
(* checks of what a driver delivered (src/src/contract.rs, src/src/api.rs, *)
(* src/src/types.rs, src/src/format.rs).                                   *)
(*                                                                         *)
(* A configuration is [format, width, height, rate], a rate is <<n, d>>.   *)
(* A request names None for what it leaves open.  Sizes are bytes.         *)
(***************************************************************************)
EXTENDS Integers, Sequences, FiniteSetsExt, SequencesExt

None == <<>>

\* What cannot be given is an error: no configuration at all.
Refused == <<>>

-----------------------------------------------------------------------------
(* Rates and configurations.                                                *)

\* FrameRate::cmp, by cross multiplication.
RateAtLeast(a, b) == a[1] * b[2] >= b[1] * a[2]

Compressed == {"MJPEG", "H264"}

\* frame_data_size, 0 where the format cannot have this size.
FrameSize(format, w, h) ==
    CASE format \in {"YUYV", "UYVY"} -> IF w % 2 = 0 THEN 2 * w * h ELSE 0
      [] format = "NV12" -> IF w % 2 = 0 /\ h % 2 = 0 THEN (3 * w * h) \div 2 ELSE 0
      [] format = "RGB" -> 3 * w * h
      [] format = "Gray" -> w * h
      [] OTHER -> 0

\* CameraConfig::validate.
ValidConfig(c) ==
    /\ c.width > 0 /\ c.height > 0
    /\ c.rate[1] > 0 /\ c.rate[2] > 0
    /\ c.format \in Compressed \/ FrameSize(c.format, c.width, c.height) > 0

-----------------------------------------------------------------------------
(* Requests.                                                                *)

\* MemoryBudget::validate.
ValidBudget(memory) == memory.buffers \in 2..256 /\ memory.bytes > 0

\* StreamRequest::build, of the native output CaptureRequest asks for.
ValidStreamRequest(r) ==
    /\ ValidBudget(r.memory)
    /\ r.width > 0 /\ r.height > 0 /\ r.startup > 0
    /\ r.reconnect # None => r.reconnect.delay > 0 /\ r.reconnect.stall > 0 /\ r.reconnect.attempts # 0

\* CaptureRequestBuilder::build.
ValidRequest(r) ==
    /\ ValidStreamRequest(r)
    /\ r.minimum # None => RateAtLeast(r.rate, r.minimum)
    /\ r.aspect # None => r.aspect[1] > 0 /\ r.aspect[2] > 0
    /\ IsInjective(r.formats)

-----------------------------------------------------------------------------
(* Capabilities.                                                            *)

\* DeviceCapabilities::from_modes.
FromModes(modes) ==
    IF modes = <<>> \/ ~IsInjective(modes) \/ \E i \in DOMAIN modes : ~ValidConfig(modes[i])
    THEN Refused ELSE modes

\* DeviceCapabilities::from_configurations drops what has no rate.
FromConfigurations(configs) == SelectSeq(configs, LAMBDA c : c.rate[1] > 0 /\ c.rate[2] > 0)

\* configurations: known and representative modes, or an error.
Configurations(knowledge, modes) ==
    IF knowledge = "Unknown" \/ \E i \in DOMAIN modes : ~ValidConfig(modes[i]) THEN Refused ELSE modes

\* with_ranges.
WithRanges(knowledge, ranged) ==
    IF ranged /\ knowledge = "Known" THEN "Representative" ELSE knowledge

-----------------------------------------------------------------------------
(* Ranking.                                                                 *)

Priorities == {"LowCpu", "LowBandwidth", "LowLatency", "Fidelity"}

Cost(priority, format) ==
    CASE priority = "LowCpu" ->
            CASE format = "Gray" -> 1 [] format = "MJPEG" -> 2 [] format = "H264" -> 3 [] OTHER -> 0
      [] priority = "LowBandwidth" ->
            CASE format = "H264" -> 0 [] format = "MJPEG" -> 1 [] format \in {"NV12", "Gray"} -> 2 [] OTHER -> 3
      [] priority = "LowLatency" ->
            CASE format \in Compressed -> 2 [] format = "Gray" -> 1 [] OTHER -> 0
      [] OTHER -> 0

Distance(a, b) == IF a > b THEN a - b ELSE b - a

\* The position of a preferred format; all others come after the last.
Preference(r, format) ==
    IF format \in ToSet(r.formats) THEN CHOOSE i \in DOMAIN r.formats : r.formats[i] = format
    ELSE Len(r.formats) + 1

\* Broken: the smallest cost is put before the preferred format.
SortKeyCostFirst(r, c) == <<Cost(r.priority, c.format), Preference(r, c.format), 0, 0>>

\* The rate's distance is in millionths of a frame per second, rounded down.
SortKey(r, c) ==
    <<Preference(r, c.format), Cost(r.priority, c.format),
      Distance(c.width, r.width) + Distance(c.height, r.height),
      (1000000 * Distance(c.rate[1] * r.rate[2], r.rate[1] * c.rate[2])) \div (c.rate[2] * r.rate[2])>>

LexBefore(a, b) == \E i \in DOMAIN a : a[i] < b[i] /\ \A j \in 1..(i - 1) : a[j] = b[j]

\* Broken: an aspect ratio is only a preference.
AdmissibleAnyAspect(r, c) ==
    /\ ValidConfig(c)
    /\ r.formats = <<>> \/ c.format \in ToSet(r.formats)
    /\ r.minimum = None \/ RateAtLeast(c.rate, r.minimum)
    /\ ~r.exact \/ (c.width = r.width /\ c.height = r.height)

Admissible(r, c) ==
    /\ ValidConfig(c)
    /\ r.formats = <<>> \/ c.format \in ToSet(r.formats)
    /\ r.minimum = None \/ RateAtLeast(c.rate, r.minimum)
    /\ ~r.exact \/ (c.width = r.width /\ c.height = r.height)
    /\ r.aspect = None \/ c.width * r.aspect[2] = c.height * r.aspect[1]

\* Vec::dedup: only neighbours.
Dedup(s) == [i \in 1..Cardinality({i \in DOMAIN s : i = 1 \/ s[i] # s[i - 1]}) |->
                s[CHOOSE k \in DOMAIN s :
                    /\ k = 1 \/ s[k] # s[k - 1]
                    /\ Cardinality({j \in 1..k : j = 1 \/ s[j] # s[j - 1]}) = i]]

\* rank_capture_configurations: a stable sort of the admissible ones.
RankCaptureConfigurations(r, configs) ==
    LET kept == SelectSeq(configs, LAMBDA c : Admissible(r, c))
        before(i, j) == \/ LexBefore(SortKey(r, kept[i]), SortKey(r, kept[j]))
                        \/ SortKey(r, kept[i]) = SortKey(r, kept[j]) /\ i < j
        order == SetToSortSeq(DOMAIN kept, before)
    IN  Dedup([i \in DOMAIN kept |-> kept[order[i]]])

\* direct_capture_candidates, for a descriptor that cannot be enumerated.
DirectCaptureCandidates(r) ==
    LET formats == IF r.formats = <<>> THEN <<"MJPEG">> ELSE r.formats
    IN  [i \in DOMAIN formats |->
            [format |-> formats[i], width |-> r.width, height |-> r.height, rate |-> r.rate]]

Synthetic(r, format) ==
    <<[format |-> format, width |-> r.width, height |-> r.height, rate |-> r.rate]>>

\* start_until: what a source of each kind is asked for, in this order.
StartCandidates(kind, r, advertised, requested) ==
    CASE kind = "synthetic" -> Synthetic(r, "RGB")
      [] kind = "descriptor" -> DirectCaptureCandidates(r)
      [] kind = "external" -> RankCaptureConfigurations(r, advertised)
      [] OTHER -> RankCaptureConfigurations(r, advertised \o requested)

\* plan: the best of them, and the rest.
PlanCandidates(kind, r, advertised, requested) ==
    RankCaptureConfigurations(r,
        IF kind = "synthetic" THEN Synthetic(r, IF r.formats = <<>> THEN "RGB" ELSE r.formats[1])
        ELSE IF kind = "external" THEN advertised ELSE advertised \o requested)

PlanPoolBytes(r, c) ==
    LET size == FrameSize(c.format, c.width, c.height)
        perFrame == IF size > 0 THEN size ELSE Max({c.width * c.height, 1})
    IN  Min({perFrame * r.memory.buffers, r.memory.bytes})

-----------------------------------------------------------------------------
(* What the driver delivered; a layout is the size of the first frame.      *)

\* validate_requested_capture.
ValidateRequestedCapture(r, actual, layout) ==
    /\ ValidConfig(actual)
    /\ r.minimum # None => RateAtLeast(actual.rate, r.minimum)
    /\ r.formats # <<>> => actual.format \in ToSet(r.formats)
    /\ r.exact => <<actual.width, actual.height>> = <<r.width, r.height>>
    /\ r.aspect # None => actual.width * r.aspect[2] = actual.height * r.aspect[1]
    /\ layout = <<actual.width, actual.height>>

\* Broken: a driver that comes back with another rate is taken.
ValidateRecoveredAnyRate(expected, actual, layout) ==
    /\ <<actual.width, actual.height, actual.format>> = <<expected.width, expected.height, expected.format>>
    /\ layout = <<actual.width, actual.height>>

\* validate_recovered_capture.
ValidateRecoveredCapture(expected, actual, layout) ==
    /\ <<actual.width, actual.height, actual.format>> = <<expected.width, expected.height, expected.format>>
    /\ RateAtLeast(actual.rate, expected.rate) /\ RateAtLeast(expected.rate, actual.rate)
    /\ layout = <<actual.width, actual.height>>

\* recovery_retry_delay, in milliseconds.
RecoveryRetryDelay(configured, failed) ==
    Min({configured, CASE failed <= 1 -> 100 [] failed = 2 -> 200 [] failed = 3 -> 400 [] OTHER -> configured})

\* fast_restart_first_frame_timeout, in milliseconds.
FastRestartTimeout(rate, recovery) ==
    Min({recovery, Max({750, (3000 * rate[2]) \div rate[1]})})

-----------------------------------------------------------------------------
(* Properties.                                                              *)

\* The candidates of a start are the admissible configurations of the device,
\* none lost and none added, no better one behind a worse one, and each of
\* them, delivered as it is, passes the check of what was delivered.
RankedExactly(r, configs) ==
    LET ranked == RankCaptureConfigurations(r, configs)
        rank(c) == <<Preference(r, c.format), Cost(r.priority, c.format),
                     Distance(c.width, r.width) + Distance(c.height, r.height)>>
    IN  /\ ToSet(ranked) = {c \in ToSet(configs) : ValidateRequestedCapture(r, c, <<c.width, c.height>>)}
        /\ \A i, j \in DOMAIN ranked : i < j => ~LexBefore(rank(ranked[j]), rank(ranked[i]))
        /\ \A i \in DOMAIN ranked, j \in DOMAIN ranked :
            (i < j /\ rank(ranked[i]) = rank(ranked[j]) /\ RateAtLeast(r.rate, ranked[j].rate)
               /\ RateAtLeast(ranked[j].rate, ranked[i].rate)) => RateAtLeast(ranked[i].rate, ranked[j].rate)

\* The modes a device publishes are those a request is ranked over, and a
\* custom device's description, once built, never fails a plan or a start.
CapabilitiesUsable(r, configurations) ==
    LET modes == FromModes(configurations)
    IN  /\ ToSet(RankCaptureConfigurations(r, configurations)) \subseteq ToSet(FromConfigurations(configurations))
        /\ modes # Refused => /\ \A ranged \in BOOLEAN : Configurations(WithRanges("Known", ranged), modes) = modes
                             /\ FromConfigurations(modes) = modes

\* A plan promises what a start first asks the device for, whatever order it
\* was advertised in and whatever was asked of the driver besides; the
\* synthetic source only when it is not asked for another format than RGB.
PlanIsWhatStarts(kind, r, advertised, requested) ==
    LET plan == PlanCandidates(kind, r, advertised, requested)
        start == StartCandidates(kind, r, advertised, requested)
    IN  /\ kind \in {"native", "external"} => plan = start
        /\ kind = "synthetic" /\ plan # <<>> =>
              (plan = start) = (r.formats = <<>> \/ r.formats[1] = "RGB")
        /\ plan # <<>> => PlanPoolBytes(r, plan[1]) \in 1..r.memory.bytes

\* A source that passed the check when it started and the one of recovery
\* later still is what was requested.
RecoveredAsRequested(r, expected, actual, layout) ==
    (/\ ValidateRequestedCapture(r, expected, <<expected.width, expected.height>>)
     /\ actual.rate[1] > 0 /\ actual.rate[2] > 0
     /\ ValidateRecoveredCapture(expected, actual, layout))
        => ValidateRequestedCapture(r, actual, layout)

\* A retry never waits longer than configured and never less than the one
\* before it; a restart waits for three frames if recovery may.
RetriesBounded(configured, rate) ==
    /\ \A failed \in 0..5 :
        /\ RecoveryRetryDelay(configured, failed) <= configured
        /\ RecoveryRetryDelay(configured, failed) <= RecoveryRetryDelay(configured, failed + 1)
    /\ FastRestartTimeout(rate, configured) = configured
       \/ FastRestartTimeout(rate, configured) * rate[1] >= 2999 * rate[2]
=============================================================================
