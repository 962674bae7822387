---------------------------- MODULE FrameRateLimiter ----------------------------
(***************************************************************************)
(* The limiter of native frame rates (src/src/utils/frame_rate.rs): which  *)
(* of the frames a camera delivers are taken, by their time stamps.  The   *)
(* clock ends at a maximum, where additions saturate.                      *)
(***************************************************************************)
EXTENDS Integers, Sequences, FiniteSetsExt, SequencesExt

NotDue == -1

\* taken is the answer of the last call.
Fresh == [next |-> NotDue, last |-> 0, taken |-> TRUE]

SaturatingAdd(a, b, max) == Min({a + b, max})

\* Broken: a clock that went back does not begin a new phase.
ResetsKept(limiter, ts) == FALSE

\* A clock that went back begins a new phase.
Resets(limiter, ts) == ts < limiter.last

\* Broken: the next frame is due an interval after this one arrived.
NextFromArrival(due, ts, interval, max) == SaturatingAdd(ts, interval, max)

\* When the next frame is due: in phase, or anew after a gap.
Next(due, ts, interval, max) ==
    IF due = NotDue \/ ts > SaturatingAdd(due, interval, max)
    THEN SaturatingAdd(ts, interval, max) ELSE SaturatingAdd(due, interval, max)

\* FrameRateLimiter::accept.
Accept(limiter, ts, interval, max) ==
    LET due == IF Resets(limiter, ts) THEN NotDue ELSE limiter.next
        early == due # NotDue /\ SaturatingAdd(ts, interval \div 20, max) < due
    IN  IF interval = 0 \/ ts = 0 THEN [limiter EXCEPT !.taken = TRUE]
        ELSE [next |-> IF early THEN due ELSE Next(due, ts, interval, max),
              last |-> ts, taken |-> ~early]

\* The limiter after each of the frames.
Limiters(times, interval, max) ==
    LET after[k \in 0..Len(times)] ==
          IF k = 0 THEN Fresh ELSE Accept(after[k - 1], times[k], interval, max)
    IN  after

Taken(times, interval, max) == [k \in DOMAIN times |-> Limiters(times, interval, max)[k].taken]

-----------------------------------------------------------------------------

\* A frame is left out only if one was taken less than an interval before it
\* and the clock has not gone back since: no gap, reset or saturated clock
\* stops a stream.  0 is no time.
NeverStarved(times, interval, max) ==
    LET taken == Taken(times, interval, max)
    IN  \A i \in DOMAIN times : ~taken[i] =>
            \E j \in 1..(i - 1) :
                /\ taken[j] /\ times[j] > 0 /\ times[i] - times[j] \in 0..(interval - 1)
                /\ \A k, l \in j..i : k < l => times[l] = 0 \/ times[k] <= times[l]

\* A clock that only goes on and ends far from its maximum.
Steady(times, interval, max) ==
    /\ interval > 0
    /\ \A k \in DOMAIN times : times[k] > 0 /\ times[k] + interval < max
    /\ \A k \in 2..Len(times) : times[k] >= times[k - 1]

\* Frames of the nominal rate, none farther than the tolerance from its time,
\* are all taken: rounding does not halve a rate.
NominalKept(times, interval, max) ==
    LET tolerance == interval \div 20
        offset(i) == times[i] - i * interval
    IN  (\A i, j \in DOMAIN times : offset(i) - offset(j) <= tolerance)
            => \A i \in DOMAIN times : Taken(times, interval, max)[i]

\* However the frames are spaced, they are not taken faster than the rate, n
\* intervals hold at most n + 2, and if they come at least as fast they are
\* not taken slower: what one frame is late the next one is not.
RateHeld(times, interval, max) ==
    LET taken == Taken(times, interval, max)
        count(i, j) == Cardinality({k \in i..j : taken[k]})
        fast == \A k \in 2..Len(times) : times[k] - times[k - 1] <= interval
    IN  Steady(times, interval, max) =>
            /\ \A i, j \in DOMAIN times : i < j =>
                  count(i, j) <= (times[j] - times[i] + interval \div 20) \div interval + 2
            /\ fast => count(1, Len(times)) * interval >= Last(times) - times[1]
=============================================================================
