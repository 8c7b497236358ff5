------------------------------- MODULE FanCurve -------------------------------
(***************************************************************************)
(* The fan tables over their whole input range: any x, and the next one,   *)
(* read as temperatures in tenths of a degree and as speeds.               *)
(***************************************************************************)
EXTENDS FanTables

CONSTANTS
    Profiles,  \* the profiles looked at
    MaxX       \* bound: the last x

ASSUME CurveAssumption == Profiles \subseteq Profile /\ MaxX \in Nat

VARIABLES fan, profile, x

vars == <<fan, profile, x>>

Init == fan \in Fans /\ profile \in Profiles /\ x \in 0..MaxX

Next == x' = Min({x + 1, MaxX}) /\ UNCHANGED <<fan, profile>>

Spec == Init /\ [][Next]_vars

-----------------------------------------------------------------------------
Asked == Speed(fan_profiles(profile, fan), Celsius(x))
Duty  == cal_fan_pwm(track(fan), 100 * Asked)

\* The last temperature that a uint8_t of degrees can hold.
Hottest == 2559

\* A rising temperature never slows the fan down: neither an overlap of two
\* rows of the LUT nor a seam between two segments of the track lets the duty
\* drop (check_fan_rpm takes the maximum over the rows that match).
HotterSpinsFaster == [][x' <= Hottest => Duty' >= Duty]_vars

\* The rows of a LUT leave no temperature between them unserved: from 1 degree
\* up the speed asked for is at least that of the first row.
EveryDegreeServed ==
    10 <= x /\ x <= Hottest /\ fan_profiles(profile, fan) # <<>> =>
        Asked >= fan_profiles(profile, fan)[1].rpm

\* The speed the track gives at duty p, looked up by duty, is above r.
Faster(t, p, r) ==
    \E i \in 1..Len(t) - 1 :
        /\ t[i].pwm <= p /\ p <= t[i + 1].pwm
        /\ (p - t[i].pwm) * (t[i + 1].rpm - t[i].rpm)
             > (r - t[i].rpm) * (t[i + 1].pwm - t[i].pwm)

\* cal_fan_pwm inverts the track: the duty for speed x is the greatest one at
\* which the fan does not run faster than x, for every x the fan can run at.
DutyInvertsTrack ==
    LET t == track(fan)
        p == cal_fan_pwm(t, x)
    IN  t[1].rpm < x /\ x < t[Len(t)].rpm => ~Faster(t, p, x) /\ Faster(t, p + 1, x)

=============================================================================
