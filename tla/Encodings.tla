----------------------------- MODULE Encodings -----------------------------
(***************************************************************************)
(* Base64 and times as Kata reads and writes them (worker/kw.c).  Base64   *)
(* carries jobs in and vectors out; a time says until when credentials     *)
(* are good, and dates every signature.                                    *)
(*                                                                         *)
(* Left out: the characters (a base64 character is its value, a time the   *)
(* numbers in it).                                                         *)
(***************************************************************************)
EXTENDS Integers, Sequences

Pad == 64
Alphabet == 0..63
NotRead == <<-1>>

b64_encoded_len(n) == ((n + 2) \div 3) * 4
Byte(in, i) == IF i <= Len(in) THEN in[i] ELSE 0
b64_encode(in) ==
    [k \in 1..b64_encoded_len(Len(in)) |->
       LET g == 3 * ((k - 1) \div 4)
           q == (k - 1) % 4
           v == Byte(in, g + 1) * 65536 + Byte(in, g + 2) * 256 + Byte(in, g + 3)
       IN IF g + q > Len(in) THEN Pad ELSE (v \div 64^(3 - q)) % 64]

\* Up to two '=' at the end, when they are wanted.
Padding(in) == IF Len(in) = 0 \/ in[Len(in)] # Pad THEN 0
               ELSE IF Len(in) > 1 /\ in[Len(in) - 1] = Pad THEN 2 ELSE 1
Unpadded(in, padded) == IF padded THEN SubSeq(in, 1, Len(in) - Padding(in)) ELSE in
\* The bits after the last byte: zero, or two encodings would decode the same.
NoBitsLeft_Unlooked(in) == TRUE
NoBitsLeft(in) == in = <<>> \/ in[Len(in)] % 2^((6 * Len(in)) % 8) = 0
b64_decode(in, padded) ==
    LET s == Unpadded(in, padded) IN
    IF \/ padded /\ Len(in) % 4 # 0
       \/ Len(s) % 4 = 1
       \/ \E i \in DOMAIN s : s[i] \notin Alphabet
       \/ ~NoBitsLeft(s)
      THEN NotRead
      ELSE [k \in 1..(6 * Len(s)) \div 8 |->
              LET c == (8 * (k - 1)) \div 6 + 1
                  r == (8 * (k - 1)) % 6
              IN ((s[c] * 64 + s[c + 1]) \div 2^(4 - r)) % 256]

-----------------------------------------------------------------------------
\* The days of 400 years, and of the years from March of year 0 up to 1970.
EraDays == 146097
EpochDay == 719468
kw_days_from_civil(y0, m, d) ==
    LET y == IF m <= 2 THEN y0 - 1 ELSE y0
        era == y \div 400
        yoe == y - era * 400
        doy == (153 * (IF m > 2 THEN m - 3 ELSE m + 9) + 2) \div 5 + d - 1
        doe == yoe * 365 + yoe \div 4 - (yoe \div 100) + doy
    IN era * EraDays + doe - EpochDay

\* The year that a day of 400 years is in.
EraYear(doe) == (doe - doe \div 1460 + doe \div 36524 - (doe \div (EraDays - 1))) \div 365
civil_from_days(z0) ==
    LET z == z0 + EpochDay
        era == z \div EraDays
        doe == z - era * EraDays
        yoe == EraYear(doe)
        doy == doe - (365 * yoe + yoe \div 4 - (yoe \div 100))
        mp == (5 * doy + 2) \div 153
        m == IF mp < 10 THEN mp + 3 ELSE mp - 9
    IN [y |-> yoe + era * 400 + (IF m <= 2 THEN 1 ELSE 0), m |-> m, d |-> doy - ((153 * mp + 2) \div 5) + 1]

HourSeconds == 3600
DaySeconds == 86400
\* kw_parse_iso8601: any day up to 31 in any month, and second 60.  The day and the second of it.
kw_parse_iso8601(t) ==
    IF t.zone \in {"Z", "+00:00"} /\ t.m \in 1..12 /\ t.d \in 1..31 /\ t.h <= 23 /\ t.mi <= 59 /\ t.s <= 60
      THEN LET s == t.h * HourSeconds + t.mi * 60 + t.s IN
           <<kw_days_from_civil(t.y, t.m, t.d) + s \div DaySeconds, s % DaySeconds>>
      ELSE NotRead
\* kw_amz_date
kw_amz_date(at) == LET c == civil_from_days(at[1]) IN
    [y |-> c.y, m |-> c.m, d |-> c.d, h |-> at[2] \div HourSeconds, mi |-> (at[2] \div 60) % 60, s |-> at[2] % 60, zone |-> "Z"]

-----------------------------------------------------------------------------
(* What they should be.                                                     *)

Leap(y) == y % 4 = 0 /\ (y % 100 = 0 => y % 400 = 0)
DaysIn(y, m) == CASE m = 2 -> IF Leap(y) THEN 29 ELSE 28
                  [] m \in {4, 6, 9, 11} -> 30
                  [] OTHER -> 31
NextDay(c) == IF c.d < DaysIn(c.y, c.m) THEN [c EXCEPT !.d = @ + 1]
              ELSE IF c.m < 12 THEN [y |-> c.y, m |-> c.m + 1, d |-> 1] ELSE [y |-> c.y + 1, m |-> 1, d |-> 1]

\* What was written is read back, and nothing else reads the same: bytes by their base64, padded or not,
\* base64 that decodes by the bytes in it.
\* (kw.c:224: "otherwise two encodings decode the same".)
BytesReadBack(bytes) ==
    /\ b64_decode(b64_encode(bytes), TRUE) = bytes
    /\ b64_decode(SubSeq(b64_encode(bytes), 1, (8 * Len(bytes) + 5) \div 6), FALSE) = bytes
CanonicalOnly(in) == LET bytes == b64_decode(in, TRUE) IN bytes # NotRead => b64_encode(bytes) = in
\* A date is read back, a time to the second, and the day after is one day later.
DatesReadBack(t) ==
    LET c == [y |-> t.y, m |-> t.m, d |-> t.d]
        day == kw_days_from_civil(t.y, t.m, t.d)
        next == NextDay(c)
    IN t.d <= DaysIn(t.y, t.m) =>
         /\ civil_from_days(day) = c
         /\ kw_days_from_civil(next.y, next.m, next.d) = day + 1
         /\ kw_parse_iso8601(t) # NotRead /\ t.s < 60 => kw_amz_date(kw_parse_iso8601(t)) = [t EXCEPT !.zone = "Z"]
=============================================================================
