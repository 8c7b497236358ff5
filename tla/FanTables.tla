------------------------------ MODULE FanTables ------------------------------
(***************************************************************************)
(* The fans' tables and the two functions that read them, driver/fan.c and *)
(* service/fan/service.c: from a temperature to a speed (the LUT of the    *)
(* selected profile) and from a speed to a PWM duty (the measured track of *)
(* the fan).                                                               *)
(***************************************************************************)
EXTENDS Integers, Sequences, FiniteSetsExt

FAN_ID_1 == 1
FAN_ID_2 == 2
Fans == {FAN_ID_1, FAN_ID_2}

FAN_PROFILE_BATTERY_SAVER == 1
FAN_PROFILE_BEST_PERFORMANCE_CHG_IN == 6
Profile == 1..7

Point(p, r) == [pwm |-> p, rpm |-> r]

track(f) ==
    IF f = FAN_ID_1
    THEN <<Point(0, 1935), Point(6553, 1936), Point(13107, 1962),
           Point(19660, 3009), Point(26214, 4034), Point(32767, 4995),
           Point(39321, 5982), Point(45874, 6920), Point(52428, 7772),
           Point(58981, 8620), Point(65535, 9389)>>
    ELSE <<Point(0, 3103), Point(6553, 4332), Point(13107, 5338),
           Point(19660, 6204), Point(26214, 7067), Point(32767, 7853),
           Point(39321, 8633), Point(45874, 9287), Point(52428, 9677),
           Point(58981, 10101), Point(65535, 10327)>>

Row(r, h, l) == [rpm |-> r, temp_high |-> h, temp_low |-> l]

\* A fan's table is the same for both sources, whatever the charger does.
better_performance(f) ==
    IF f = FAN_ID_1
    THEN <<Row(25, 74, 0), Row(35, 77, 71), Row(45, 80, 74), Row(55, 83, 77),
           Row(65, 85, 80), Row(75, 255, 83), Row(75, 255, 255),
           Row(75, 255, 255), Row(75, 255, 255), Row(75, 255, 255)>>
    ELSE <<Row(45, 54, 0), Row(50, 57, 52), Row(55, 59, 54), Row(60, 61, 56),
           Row(70, 63, 58), Row(80, 65, 60), Row(90, 67, 62),
           Row(100, 255, 64), Row(100, 255, 255), Row(100, 255, 255)>>

\* The best-performance profiles repeat the better-performance ones.
best_performance(f) == better_performance(f)

\* Profiles 1 to 3 have no table.
fan_profiles(p, f) ==
    CASE p \in 4..5 -> better_performance(f)
      [] p \in 6..7 -> best_performance(f)
      [] OTHER -> <<>>

-----------------------------------------------------------------------------
(* Mistakes in this code that the properties are there to catch.  No       *)
(* specification uses them.                                                *)

\* A row's upper bound is exclusive.
Matches_Below(row, c) == c > row.temp_low /\ c < row.temp_high

\* A temperature is not converted from tenths.
Celsius_Tenths(t) == t % 256

\* The line starts at the wrong end.
Between_FromHigh(a, b, r) ==
    b.pwm - ((r - a.rpm) * (b.pwm - a.pwm)) \div (b.rpm - a.rpm)

-----------------------------------------------------------------------------
(* The functions.                                                          *)

\* Temperatures are kept in tenths of a degree and compared in a uint8_t.
Celsius(t) == (t \div 10) % 256

Matches(row, c) == c > row.temp_low /\ c <= row.temp_high

\* The speed one table asks for at c degrees, in hundreds of RPM.
Speed(tbl, c) ==
    Max({0} \cup {tbl[i].rpm : i \in {j \in DOMAIN tbl : Matches(tbl[j], c)}})

\* The line through two points of a track, rounded down.
Between(a, b, r) ==
    a.pwm + ((r - a.rpm) * (b.pwm - a.pwm)) \div (b.rpm - a.rpm)

\* The duty for target speed r; past the ends of the track its ends.
cal_fan_pwm(t, r) ==
    LET last == t[Len(t)]
        i    == Min({j \in 1..Len(t) - 1 : t[j].rpm <= r /\ r <= t[j + 1].rpm})
    IN  CASE r <= t[1].rpm -> t[1].pwm
          [] r >= last.rpm -> last.pwm
          [] OTHER -> Between(t[i], t[i + 1], r)

=============================================================================
