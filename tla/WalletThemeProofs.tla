-------------------------- MODULE WalletThemeProofs --------------------------
(***************************************************************************)
(* Machine-checked proofs about WalletTheme: for every set of page         *)
(* colours, all 256 values of each channel among them, and any number of   *)
(* changes.                                                                *)
(***************************************************************************)
EXTENDS WalletTheme, TLAPS

----------------------------------------------------------------------------
\* Colour arithmetic

\* Multiplication by a natural number is monotonic.
LEMMA TimesMonotonic ==
    ASSUME NEW x \in Int, NEW y \in Int, NEW d \in Nat, x <= y
    PROVE  x * d <= y * d
  OBVIOUS

\* What integer division returns.
LEMMA Division ==
    ASSUME NEW n \in Int, NEW k \in Nat \ {0}
    PROVE  /\ n \div k \in Int
           /\ (n \div k) * k <= n /\ n < (n \div k + 1) * k
  OBVIOUS

\* Rounding respects the integers on both sides of a quotient
LEMMA RoundBetween ==
    ASSUME NEW n \in Int, NEW d \in Nat \ {0}, NEW a \in Int, NEW b \in Int,
           a * d <= n, n <= b * d
    PROVE  Round(n, d) \in a .. b
<1> DEFINE q == Round(n, d)
<1>1. q \in Int /\ q * (2 * d) <= 2 * n + d /\ 2 * n + d < (q + 1) * (2 * d)
  <2>1. 2 * n + d \in Int /\ 2 * d \in Nat \ {0}
    OBVIOUS
  <2> QED  BY <2>1, Division DEF Round
<1> HIDE DEF q
<1>2. q * (2 * d) = 2 * (q * d) /\ (q + 1) * (2 * d) = 2 * ((q + 1) * d)
  BY <1>1
<1>3. a <= q
  <2> SUFFICES ASSUME q + 1 <= a PROVE FALSE
    BY <1>1
  <2>1. (q + 1) * d <= a * d
    BY <1>1, TimesMonotonic
  <2> QED  BY <1>1, <1>2, <2>1
<1>4. q <= b
  <2> SUFFICES ASSUME b + 1 <= q PROVE FALSE
    BY <1>1
  <2>1. (b + 1) * d <= q * d /\ (b + 1) * d = b * d + d
    BY <1>1, TimesMonotonic
  <2> QED  BY <1>1, <1>2, <2>1
<1> QED  BY <1>1, <1>3, <1>4 DEF q

\* Rounding a fraction of at most b gives at most b.
LEMMA RoundUpTo ==
    ASSUME NEW n \in Nat, NEW d \in Nat \ {0}, NEW b \in Nat, n <= b * d
    PROVE  Round(n, d) \in 0 .. b
<1> DEFINE a == 0
<1>1. a \in Int /\ a * d <= n /\ n \in Int /\ b \in Int
  OBVIOUS
<1> HIDE DEF a
<1>2. Round(n, d) \in a .. b
  BY <1>1, RoundBetween, Zenon
<1> QED  BY <1>2 DEF a

\* The greatest and the least of three channels
Extremes(r, g, b, max, min) ==
    /\ r \in Channel /\ g \in Channel /\ b \in Channel
    /\ max \in {r, g, b} /\ r <= max /\ g <= max /\ b <= max
    /\ min \in {r, g, b} /\ min <= r /\ min <= g /\ min <= b

\* How far apart the channels can be
LEMMA Differences ==
    ASSUME NEW r, NEW g, NEW b, NEW max, NEW min, Extremes(r, g, b, max, min)
    PROVE  /\ max - min \in Nat
           /\ g - b \in -(max - min) .. (max - min)
           /\ b - r \in -(max - min) .. (max - min)
           /\ r - g \in -(max - min) .. (max - min)
           /\ max + min \in Nat /\ max + min <= 510 /\ max + min <= 255 + g
           /\ max - min <= max + min /\ max - min <= 510 - (max + min)
           /\ r <= max + min /\ g <= max + min /\ b <= max + min
<1> DEFINE d == max - min
           sum == max + min
<1>1. /\ r \in Channel /\ g \in Channel /\ b \in Channel /\ max \in Channel /\ min \in Channel
      /\ r <= max /\ g <= max /\ b <= max /\ min <= r /\ min <= g /\ min <= b
      /\ max \in {r, g, b} /\ min \in {r, g, b}
  BY DEF Extremes
<1>2. d \in Nat /\ g - b \in -d .. d /\ b - r \in -d .. d /\ r - g \in -d .. d
  BY <1>1 DEF Channel
<1>3. sum \in Nat /\ sum <= 510 /\ sum <= 255 + g /\ d <= sum /\ d <= 510 - sum
  BY <1>1 DEF Channel
<1>4. r <= sum /\ g <= sum /\ b <= sum
  BY <1>1 DEF Channel
<1> QED  BY <1>2, <1>3, <1>4

\* The luminance, and the sum of the two extreme channels
LEMMA DarkSum ==
    ASSUME NEW r \in Channel, NEW g \in Channel, NEW b \in Channel, NEW sum \in Nat,
           sum <= 510, r <= sum, g <= sum, b <= sum, sum <= 255 + g
    PROVE  /\ 2126 * r + 7152 * g + 722 * b < 4000 * 255 => sum <= 397
           /\ ~ 2126 * r + 7152 * g + 722 * b < 4000 * 255 => sum >= 102
  BY SMT DEF Channel

\* What the code's max and min of a colour are
LEMMA ChannelBounds ==
    ASSUME NEW c \in Colour
    PROVE  Extremes(c.r, c.g, c.b, MaxChannel(c), MinChannel(c))
<1>1. c.r \in Channel /\ c.g \in Channel /\ c.b \in Channel
  BY DEF Colour
<1>2. \A x, y \in Channel :
          /\ Greatest(x, y) \in {x, y} /\ x <= Greatest(x, y) /\ y <= Greatest(x, y)
          /\ Least(x, y) \in {x, y} /\ Least(x, y) <= x /\ Least(x, y) <= y
  BY DEF Greatest, Least, Channel
<1> DEFINE high == Greatest(c.g, c.b)
           low  == Least(c.g, c.b)
<1>3. /\ high \in {c.g, c.b} /\ c.g <= high /\ c.b <= high
      /\ low \in {c.g, c.b} /\ low <= c.g /\ low <= c.b
  BY <1>1, <1>2
<1>4. MaxChannel(c) = Greatest(c.r, high) /\ MinChannel(c) = Least(c.r, low)
  BY DEF MaxChannel, MinChannel
<1> HIDE DEF high, low
<1>5. high \in Channel /\ low \in Channel
  BY <1>1, <1>3
<1>6. /\ MaxChannel(c) \in {c.r, high} /\ c.r <= MaxChannel(c) /\ high <= MaxChannel(c)
      /\ MinChannel(c) \in {c.r, low} /\ MinChannel(c) <= c.r /\ MinChannel(c) <= low
  BY <1>1, <1>2, <1>4, <1>5
<1> HIDE DEF Channel
<1>7. /\ MaxChannel(c) \in {c.r, c.g, c.b} /\ MinChannel(c) \in {c.r, c.g, c.b}
  BY <1>3, <1>6
<1>8. /\ c.r \in Int /\ c.g \in Int /\ c.b \in Int /\ high \in Int /\ low \in Int
      /\ MaxChannel(c) \in Int /\ MinChannel(c) \in Int
  BY <1>1, <1>5, <1>7 DEF Channel
<1>9. /\ c.g <= MaxChannel(c) /\ c.b <= MaxChannel(c)
      /\ MinChannel(c) <= c.g /\ MinChannel(c) <= c.b
  BY <1>3, <1>6, <1>8
<1> QED  BY <1>1, <1>6, <1>7, <1>9 DEF Extremes

\* An angle, in every sector
LEMMA HueIsAngle == ASSUME NEW c \in Colour PROVE Hue(c) \in Angle
<1> DEFINE max == MaxChannel(c)
           d   == max - MinChannel(c)
<1>0. /\ c.r \in Int /\ c.g \in Int /\ c.b \in Int /\ max \in {c.r, c.g, c.b} /\ d \in Nat
      /\ c.g - c.b \in -d .. d /\ c.b - c.r \in -d .. d /\ c.r - c.g \in -d .. d
      /\ max = c.r => c.g <= c.r
  <2> DEFINE min == MinChannel(c)
  <2>1. Extremes(c.r, c.g, c.b, max, min)
    BY ChannelBounds
  <2>2. d = max - min
    OBVIOUS
  <2> HIDE DEF max, min, d
  <2>3. /\ max - min \in Nat
        /\ c.g - c.b \in -(max - min) .. (max - min)
        /\ c.b - c.r \in -(max - min) .. (max - min)
        /\ c.r - c.g \in -(max - min) .. (max - min)
    BY <2>1, Differences
  <2>4. /\ c.r \in Int /\ c.g \in Int /\ c.b \in Int /\ max \in {c.r, c.g, c.b}
        /\ max = c.r => c.g <= c.r
    BY <2>1 DEF Extremes, Channel
  <2> QED  BY <2>2, <2>3, <2>4
<1>1. Hue(c) = IF d = 0 THEN 0
               ELSE IF max = c.r THEN Round(60 * (c.g - c.b + (IF c.g < c.b THEN 6 * d ELSE 0)), d)
               ELSE IF max = c.g THEN Round(60 * (c.b - c.r + 2 * d), d)
               ELSE Round(60 * (c.r - c.g + 4 * d), d)
  BY DEF Hue
<1> HIDE DEF d, max
<1>2. CASE d = 0
  BY <1>1, <1>2 DEF Angle
<1>3. ASSUME d # 0, NEW n \in Int, 0 <= n, n <= 360 * d PROVE Round(n, d) \in Angle
  <2> DEFINE turn == 360
  <2>1. n \in Nat /\ d \in Nat \ {0} /\ turn \in Nat /\ n <= turn * d
    BY <1>0, <1>3
  <2> HIDE DEF turn
  <2>2. Round(n, d) \in 0 .. turn
    BY <2>1, RoundUpTo
  <2> QED  BY <2>2 DEF Angle, turn
<1>4. CASE d # 0 /\ max = c.r
  <2> DEFINE n == 60 * (c.g - c.b + (IF c.g < c.b THEN 6 * d ELSE 0))
  <2>1. n \in Int /\ 0 <= n /\ n <= 360 * d
    BY <1>0, <1>4
  <2> HIDE DEF n
  <2>2. Round(n, d) \in Angle
    BY <1>3, <1>4, <2>1
  <2> QED  BY <1>1, <1>4, <2>2 DEF n
<1>5. CASE d # 0 /\ max # c.r /\ max = c.g
  <2>1. 60 * (c.b - c.r + 2 * d) \in Int /\ 0 <= 60 * (c.b - c.r + 2 * d) /\ 60 * (c.b - c.r + 2 * d) <= 360 * d
    BY <1>0
  <2> QED  BY <1>1, <1>3, <1>5, <2>1
<1>6. CASE d # 0 /\ max # c.r /\ max # c.g
  <2>1. 60 * (c.r - c.g + 4 * d) \in Int /\ 0 <= 60 * (c.r - c.g + 4 * d) /\ 60 * (c.r - c.g + 4 * d) <= 360 * d
    BY <1>0
  <2> QED  BY <1>1, <1>3, <1>6, <2>1
<1> QED  BY <1>2, <1>4, <1>5, <1>6

\* The saturation of a colour is a percentage.
LEMMA SaturationIsPercent == ASSUME NEW c \in Colour PROVE Saturation(c) \in Percent
<1> DEFINE sum == MaxChannel(c) + MinChannel(c)
           d   == MaxChannel(c) - MinChannel(c)
<1>0. sum \in Int /\ d \in Nat /\ d <= sum /\ d <= 510 - sum
  <2>1. d \in Nat /\ sum \in Nat /\ d <= sum /\ d <= 510 - sum
    BY ChannelBounds, Differences
  <2> QED  BY <2>1
<1>1. Saturation(c) = IF d = 0 THEN 0 ELSE IF sum > 255 THEN Round(100 * d, 510 - sum) ELSE Round(100 * d, sum)
  BY <1>0 DEF Saturation
<1> HIDE DEF sum, d
<1>2. ASSUME d # 0, NEW k \in Nat \ {0}, d <= k PROVE Round(100 * d, k) \in Percent
  <2> DEFINE n == 100 * d
             full == 100
  <2>1. n \in Nat /\ full \in Nat /\ n <= full * k
    BY <1>0, <1>2
  <2> HIDE DEF n, full
  <2>2. Round(n, k) \in 0 .. full
    BY <2>1, RoundUpTo
  <2> QED  BY <2>2 DEF Percent, n, full
<1>3. d # 0 => sum \in Nat \ {0} /\ 510 - sum \in Nat \ {0}
  BY <1>0
<1> QED  BY <1>0, <1>1, <1>2, <1>3 DEF Percent

\* A dark colour has room above for the lighter parts of its theme, and any
\* other below for the darker ones
LEMMA LightnessLeavesRoom ==
    ASSUME NEW c \in Colour
    PROVE  Lightness(c) \in IF IsDark(c) THEN 0 .. 78 ELSE 20 .. 100
<1> DEFINE sum == MaxChannel(c) + MinChannel(c)
<1>1. c \in Colour /\ c # UnreadColour
  BY ColourAssumption
<1>2. /\ c.r \in Channel /\ c.g \in Channel /\ c.b \in Channel
      /\ sum \in Nat /\ sum <= 510 /\ sum <= 255 + c.g
      /\ c.r <= sum /\ c.g <= sum /\ c.b <= sum
  <2>1. c.r \in Channel /\ c.g \in Channel /\ c.b \in Channel
    BY ChannelBounds DEF Extremes
  <2> QED  BY <2>1, ChannelBounds, Differences
<1> HIDE DEF sum
<1>3. /\ 2126 * c.r + 7152 * c.g + 722 * c.b < 4000 * 255 => sum <= 397
      /\ ~ 2126 * c.r + 7152 * c.g + 722 * c.b < 4000 * 255 => sum >= 102
  BY <1>2, DarkSum
<1>4. IsDark(c) => sum <= 397
  BY <1>3 DEF IsDark
<1>5. ~ IsDark(c) => sum >= 102
  BY <1>1, <1>3 DEF IsDark
<1>6. Lightness(c) = (2 * (100 * sum) + 510) \div 1020
  BY DEF Lightness, Round, sum
<1> QED  BY <1>2, <1>4, <1>5, <1>6

\* The theme of a colour has angles and percentages only.
LEMMA ThemeIsTheme == ASSUME NEW c \in Colour PROVE IsTheme(GenerateThemeFromBackground(c))
<1> DEFINE t == GenerateThemeFromBackground(c)
           l == Lightness(c)
<1>1. /\ Hue(c) \in Angle /\ Saturation(c) \in Percent
      /\ l \in IF IsDark(c) THEN 0 .. 78 ELSE 20 .. 100
  BY HueIsAngle, SaturationIsPercent, LightnessLeavesRoom
<1>2. /\ t.dark = IsDark(c) /\ t.walletBg \in {Black, White}
      /\ t.hue = Hue(c) /\ t.primaryHue = (Hue(c) + 30) % 360
      /\ t.saturation = Least(Saturation(c) + 20, 100)
  BY DEF GenerateThemeFromBackground
<1>3. IsDark(c) => /\ t.button = Least(l + 20, 95) /\ t.hover = Least(l + 30, 98)
                   /\ t.secondary = l + 10 /\ t.secondaryHover = l + 15 /\ t.border = l + 20
  BY DEF GenerateThemeFromBackground
<1>4. ~ IsDark(c) => /\ t.button = Greatest(l - 20, 5) /\ t.hover = Greatest(l - 30, 2)
                     /\ t.secondary = l - 10 /\ t.secondaryHover = l - 15 /\ t.border = l - 20
  BY DEF GenerateThemeFromBackground
<1> HIDE DEF t, l
<1>5. t.dark \in BOOLEAN
  BY <1>2 DEF IsDark
<1>6. t.hue \in Angle /\ t.primaryHue \in Angle \ {360} /\ t.saturation \in Percent
  BY <1>1, <1>2 DEF Angle, Percent, Least
<1>7. CASE IsDark(c)
  BY <1>1, <1>2, <1>3, <1>5, <1>6, <1>7 DEF IsTheme, Least, Percent, t
<1>8. CASE ~ IsDark(c)
  BY <1>1, <1>2, <1>4, <1>5, <1>6, <1>8 DEF IsTheme, Greatest, Percent, t
<1> QED  BY <1>7, <1>8

----------------------------------------------------------------------------
\* How far rounding moves a colour

\* Rounding moves a quotient by at most a half.
LEMMA RoundError ==
    ASSUME NEW n \in Int, NEW d \in Nat \ {0}
    PROVE  /\ Round(n, d) \in Int
           /\ -d <= 2 * (Round(n, d) * d - n) /\ 2 * (Round(n, d) * d - n) <= d
<1> DEFINE q == Round(n, d)
<1>1. q \in Int /\ q * (2 * d) <= 2 * n + d /\ 2 * n + d < (q + 1) * (2 * d)
  <2>1. 2 * n + d \in Int /\ 2 * d \in Nat \ {0}
    OBVIOUS
  <2> QED  BY <2>1, Division DEF Round
<1> HIDE DEF q
<1>2. q * (2 * d) = 2 * (q * d) /\ (q + 1) * (2 * d) = 2 * (q * d) + 2 * d /\ q * d \in Int
  BY <1>1
<1>3. -d <= 2 * (q * d - n) /\ 2 * (q * d - n) <= d
  BY <1>1, <1>2
<1> QED  BY <1>1, <1>3 DEF q

\* The trapezoid of HslChannel, w times as large in both directions, before the
\* hue is taken modulo a turn
Curve(k, w) == Greatest(-30 * w, Least(30 * w, Least(k - 90 * w, 270 * w - k)))
Wave(k, w) == IF k <= 360 * w THEN Curve(k, w) ELSE Curve(k - 360 * w, w)

\* It is no steeper than one in one, and no higher than it should be.
LEMMA WaveSlope ==
    ASSUME NEW k \in Int, NEW j \in Int, NEW w \in Nat, NEW e \in Int, -e <= k - j, k - j <= e
    PROVE  Wave(k, w) - Wave(j, w) \in -e .. e /\ Wave(k, w) \in -(30 * w) .. (30 * w)
  BY DEF Wave, Curve, Greatest, Least

\* The order of two numbers is that of their multiples.
LEMMA TimesStrictlyMonotonic ==
    ASSUME NEW x \in Int, NEW y \in Int, NEW d \in Nat \ {0}
    PROVE  /\ x <= y <=> x * d <= y * d
           /\ x < y <=> x * d < y * d
<1>1. x <= y => x * d <= y * d
  BY TimesMonotonic
<1>2. ASSUME x < y PROVE x * d < y * d
  <2>1. (x + 1) * d <= y * d /\ (x + 1) * d = x * d + d
    BY <1>2, TimesMonotonic
  <2> QED  BY <2>1
<1>3. y <= x => y * d <= x * d
  BY TimesMonotonic
<1>4. ASSUME y < x PROVE y * d < x * d
  <2>1. (y + 1) * d <= x * d /\ (y + 1) * d = y * d + d
    BY <1>4, TimesMonotonic
  <2> QED  BY <2>1
<1> QED  BY <1>1, <1>2, <1>3, <1>4

\* It scales in both directions.
LEMMA WaveScaled ==
    ASSUME NEW k \in Int, NEW d \in Nat \ {0}
    PROVE  Wave(k, 1) * d = Wave(k * d, d)
<1>1. ASSUME NEW x \in Int, NEW y \in Int
      PROVE  /\ Least(x, y) \in Int /\ Least(x, y) * d = Least(x * d, y * d)
             /\ Greatest(x, y) \in Int /\ Greatest(x, y) * d = Greatest(x * d, y * d)
  BY TimesStrictlyMonotonic DEF Least, Greatest
<1>2. ASSUME NEW j \in Int PROVE Curve(j, 1) * d = Curve(j * d, d)
  <2>1. (j - 90) * d = j * d - 90 * d /\ (270 - j) * d = 270 * d - j * d /\ (-30) * d = -30 * d
    OBVIOUS
  <2>2. Least(j - 90, 270 - j) \in Int /\ Least(j - 90, 270 - j) * d = Least(j * d - 90 * d, 270 * d - j * d)
    BY <1>1, <2>1
  <2> DEFINE x == Least(j - 90, 270 - j)
             y == Least(30, x)
  <2>3. Curve(j, 1) = Greatest(-30, y)
    BY DEF Curve
  <2>4. Curve(j * d, d) = Greatest(-30 * d, Least(30 * d, x * d))
    BY <2>2 DEF Curve
  <2>5. x \in Int
    BY <2>2
  <2> HIDE DEF x
  <2>6. y \in Int /\ y * d = Least(30 * d, x * d)
    BY <1>1, <2>5
  <2> HIDE DEF y
  <2>7. Greatest(-30, y) * d = Greatest((-30) * d, y * d)
    BY <1>1, <2>6
  <2> QED  BY <2>1, <2>3, <2>4, <2>6, <2>7
<1>3. k <= 360 <=> k * d <= 360 * d
  BY TimesStrictlyMonotonic
<1>4. (k - 360) * d = k * d - 360 * d
  OBVIOUS
<1>5. Curve(k, 1) * d = Curve(k * d, d) /\ Curve(k - 360, 1) * d = Curve(k * d - 360 * d, d)
  BY <1>2, <1>4
<1> QED  BY <1>3, <1>5 DEF Wave

\* What the CSS definition makes of a hue that rgbToHsl returns.
LEMMA ChannelByWave ==
    ASSUME NEW n \in {0, 4, 8}, NEW h \in Angle, NEW s, NEW l
    PROVE  HslChannel(n, h, s, l) = 255 * (3000 * l - s * Least(l, 100 - l) * Wave(30 * n + h, 1))
<1> DEFINE k == 30 * n + h
<1>1. k \in 0 .. 600 /\ k % 360 = IF k < 360 THEN k ELSE k - 360
  BY DEF Angle
<1>2. Curve(k % 360, 1) = Wave(k, 1)
  <2> HIDE DEF k
  <2> QED  BY <1>1 DEF Wave, Curve, Greatest, Least
<1>3. HslChannel(n, h, s, l) = 255 * (3000 * l - s * Least(l, 100 - l) * Curve(k % 360, 1))
  BY DEF HslChannel, Curve
<1> QED  BY <1>2, <1>3

\* Before it is rounded, the hue says exactly where each channel is between the
\* least and the greatest, in every sector.
LEMMA ExactHue ==
    ASSUME NEW r, NEW g, NEW b, NEW max, NEW min, Extremes(r, g, b, max, min), NEW x \in Int,
           x = IF max = r THEN g - b + (IF g < b THEN 6 * (max - min) ELSE 0)
               ELSE IF max = g THEN b - r + 2 * (max - min)
               ELSE r - g + 4 * (max - min)
    PROVE  /\ 0 <= x /\ x <= 6 * (max - min)
           /\ 60 * r = 30 * (max + min) - Wave(60 * x, max - min)
           /\ 60 * g = 30 * (max + min) - Wave(240 * (max - min) + 60 * x, max - min)
           /\ 60 * b = 30 * (max + min) - Wave(120 * (max - min) + 60 * x, max - min)
<1> USE DEF Wave, Curve, Greatest, Least
<1>0. /\ r \in Int /\ g \in Int /\ b \in Int /\ max \in {r, g, b} /\ min \in {r, g, b}
      /\ r <= max /\ g <= max /\ b <= max /\ min <= r /\ min <= g /\ min <= b
  BY DEF Extremes, Channel
<1>1. CASE max = r
  BY <1>0, <1>1
<1>2. CASE max # r /\ max = g
  BY <1>0, <1>2
<1>3. CASE max # r /\ max # g
  BY <1>0, <1>3
<1> HIDE DEF Wave, Curve, Greatest, Least
<1> QED  BY <1>1, <1>2, <1>3

\* The errors e and f of a lightness q and a saturation s, in per cent, of a
\* colour whose extreme channels differ by d and add up to p, or are that far
\* from the other end, m being the one nearer to it
Rounded(p, m, d, q, e, s, f) ==
    /\ p \in 1 .. 255 /\ m \in Nat /\ d \in Nat \ {0} /\ d = p - 2 * m
    /\ q \in Int /\ e \in Int /\ e = 510 * q - 100 * p /\ 2 * e \in -510 .. 510
    /\ s \in Percent /\ f \in Int /\ f = s * p - 100 * d /\ 2 * f \in -p .. p

\* What the rounding of the three numbers adds up to.  Taken one by one the
\* errors would be too large for p = 232 and m = 0, whose lightness is half way
\* between two percentages; but there the saturation is exact.
LEMMA Budget ==
    ASSUME NEW p, NEW m, NEW d, NEW q, NEW e, NEW s, NEW f, Rounded(p, m, d, q, e, s, f)
    PROVE  \A x \in {e, -e}, y \in {f, -f} : 3000 * x + 1500 * y + 2500 * d <= Tolerance
<1> SUFFICES ASSUME NEW x \in {e, -e}, NEW y \in {f, -f} PROVE 3000 * x + 1500 * y + 2500 * d <= Tolerance
  OBVIOUS
<1> USE DEF Tolerance, Rounded, Percent
<1>1. x \in -250 .. 250 /\ y \in Int /\ 2 * y <= p /\ d <= p
  <2>1. e = 10 * (51 * q - 10 * p) /\ 51 * q - 10 * p \in Int
    OBVIOUS
  <2>2. 51 * q - 10 * p \in -25 .. 25
    BY <2>1
  <2> QED  BY <2>1, <2>2
<1>2. CASE p # 232
  <2>1. p <= 230 \/ 3000 * x + 3250 * p <= 1500000
    <3>1. CASE p \in 231 .. 235
      BY <1>1, <1>2, <3>1
    <3>2. CASE p \in 236 .. 240
      BY <1>1, <3>2
    <3>3. CASE p \in 241 .. 245
      BY <1>1, <3>3
    <3>4. CASE p \in 246 .. 250
      BY <1>1, <3>4
    <3>5. CASE p \in 251 .. 255
      BY <1>1, <3>5
    <3> QED  BY <3>1, <3>2, <3>3, <3>4, <3>5
  <2> QED  BY <1>1, <2>1
<1>3. CASE p = 232 /\ m = 0
  <2>1. f = 232 * (s - 100) /\ 2 * f \in -232 .. 232
    BY <1>3
  <2>2. f = 0
    BY <2>1
  <2> QED  BY <1>1, <1>3, <2>2
<1>4. CASE p = 232 /\ m # 0
  BY <1>1, <1>4
<1> QED  BY <1>2, <1>3, <1>4

\* The product of two bounded numbers
LEMMA ProductBound ==
    ASSUME NEW x \in Int, NEW y \in Int, NEW a \in Nat, NEW b \in Nat, x \in -a .. a, y \in -b .. b
    PROVE  x * y \in Int /\ -(a * b) <= x * y /\ x * y <= a * b
<1>1. ASSUME NEW v \in Nat, NEW w \in Nat, v <= a, w <= b PROVE v * w <= a * b
  <2>1. v * w <= a * w
    BY <1>1, TimesMonotonic
  <2>2. w * a <= b * a
    BY <1>1, TimesMonotonic
  <2> QED  BY <2>1, <2>2
<1>2. x \in Nat \/ -x \in Nat
  OBVIOUS
<1>3. y \in Nat \/ -y \in Nat
  OBVIOUS
<1>4. a * b \in Nat /\ x * y \in Int
  OBVIOUS
<1>5. CASE x \in Nat /\ y \in Nat
  <2>1. x * y <= a * b /\ 0 <= x * y
    BY <1>1, <1>5
  <2> QED  BY <1>4, <2>1
<1>6. CASE x \in Nat /\ -y \in Nat
  <2>1. x * (-y) <= a * b /\ 0 <= x * (-y) /\ x * (-y) = -(x * y)
    BY <1>1, <1>6
  <2> QED  BY <1>4, <2>1
<1>7. CASE -x \in Nat /\ y \in Nat
  <2>1. (-x) * y <= a * b /\ 0 <= (-x) * y /\ (-x) * y = -(x * y)
    BY <1>1, <1>7
  <2> QED  BY <1>4, <2>1
<1>8. CASE -x \in Nat /\ -y \in Nat
  <2>1. (-x) * (-y) <= a * b /\ 0 <= (-x) * (-y) /\ (-x) * (-y) = x * y
    BY <1>1, <1>8
  <2> QED  BY <1>4, <2>1
<1> QED  BY <1>2, <1>3, <1>5, <1>6, <1>7, <1>8

\* The height t of the trapezoid at the rounded hue, d times wave/d at the exact
\* one, and their difference
HueRounded(t, wave, d, u) ==
    t \in -30 .. 30 /\ wave \in Int /\ u \in Int /\ u = t * d - wave /\ 2 * u \in -d .. d

\* The error of a lightness is that of its distance from the nearer end.
LightnessRounded(l, sum, e) == l \in Int /\ sum \in Int /\ 510 * l - 100 * sum \in {e, -e}

\* One channel: the errors e of the lightness, f of the saturation and u of the
\* hue, each times what multiplies it.
LEMMA ChannelError ==
    ASSUME NEW p, NEW m, NEW d, NEW q, NEW e, NEW s, NEW f, Rounded(p, m, d, q, e, s, f),
           NEW t, NEW wave, NEW u, HueRounded(t, wave, d, u),
           NEW l, NEW sum, LightnessRounded(l, sum, e)
    PROVE  /\ -Tolerance <= 255 * (3000 * l - s * q * t) - 5000 * (30 * sum - wave)
           /\ 255 * (3000 * l - s * q * t) - 5000 * (30 * sum - wave) <= Tolerance
<1> DEFINE g  == 510 * l - 100 * sum
           st == s * t
           x  == IF e < 0 THEN -e ELSE e
           y  == IF f < 0 THEN -f ELSE f
           diff == 255 * (3000 * l - s * q * t) - 5000 * (30 * sum - wave)
<1>0. /\ p \in Int /\ d \in Int /\ q \in Int /\ e \in Int /\ s \in 0 .. 100 /\ f \in Int
      /\ e = 510 * q - 100 * p /\ f = s * p - 100 * d
      /\ t \in -30 .. 30 /\ wave \in Int /\ u \in Int /\ u = t * d - wave /\ 2 * u \in -d .. d
      /\ l \in Int /\ sum \in Int /\ 510 * l - 100 * sum \in {e, -e}
  BY DEF Rounded, Percent, HueRounded, LightnessRounded
<1>1. x \in Nat /\ y \in Nat /\ e \in -x .. x /\ f \in -y .. y
  BY <1>0
<1>2. st \in -3000 .. 3000
  BY <1>0
<1>3. 3000 * x + 1500 * y + 2500 * d <= Tolerance
  <2>1. x \in {e, -e} /\ y \in {f, -f}
    BY <1>0
  <2> HIDE DEF x, y, g, st, diff
  <2>2. \A a \in {e, -e}, b \in {f, -f} : 3000 * a + 1500 * b + 2500 * d <= Tolerance
    BY Budget, SMT
  <2> QED  BY <2>1, <2>2
<1> HIDE DEF x, y
<1>4. st * e \in Int /\ -(3000 * x) <= st * e /\ st * e <= 3000 * x
  <2> DEFINE a == 3000
  <2>1. a \in Nat /\ st \in Int /\ st \in -a .. a
    <3> HIDE DEF st
    <3> QED  BY <1>2
  <2> HIDE DEF a, st
  <2>2. st * e \in Int /\ -(a * x) <= st * e /\ st * e <= a * x
    BY <1>1, <2>1, ProductBound
  <2> QED  BY <2>2 DEF a
<1>5. t * f \in Int /\ -(30 * y) <= t * f /\ t * f <= 30 * y
  <2> DEFINE a == 30
  <2>1. a \in Nat /\ t \in Int /\ t \in -a .. a
    BY <1>0
  <2> HIDE DEF a
  <2>2. t * f \in Int /\ -(a * y) <= t * f /\ t * f <= a * y
    BY <1>1, <2>1, ProductBound
  <2> QED  BY <2>2 DEF a
<1>6. 510 * (s * q * t) = 10000 * (wave + u) + 100 * (t * f) + st * e
  <2>1. 510 * (s * q * t) = st * (510 * q) /\ s * q * t \in Int
    BY <1>0, <1>1
  <2>2. st * (510 * q) = st * (100 * p) + st * e
    BY <1>0, <1>1
  <2>3. st * (100 * p) = 100 * (t * (s * p))
    BY <1>0, <1>1
  <2>4. s * p = 100 * d + f /\ s * p \in Int
    BY <1>0, <1>1
  <2>5. t * (s * p) = 100 * (t * d) + t * f
    BY <1>0, <2>4
  <2>6. t * d = wave + u
    BY <1>0
  <2> QED  BY <2>1, <2>2, <2>3, <2>5, <2>6, <1>0, <1>4, <1>5
<1>7. 2 * diff = 3000 * g - 10000 * u - 100 * (t * f) - st * e /\ diff \in Int
  <2> DEFINE z == s * q * t
  <2>1. z \in Int
    BY <1>0, <1>1
  <2>2. 510 * z = 10000 * (wave + u) + 100 * (t * f) + st * e
    BY <1>6
  <2>3. diff = 255 * (3000 * l - z) - 5000 * (30 * sum - wave)
    OBVIOUS
  <2> HIDE DEF z, st, diff
  <2> QED  BY <2>1, <2>2, <2>3, <1>0, <1>4, <1>5
<1>8. g \in Int /\ -x <= g /\ g <= x
  BY <1>0, <1>1
<1> HIDE DEF g, st, diff
<1>9. -Tolerance <= diff /\ diff <= Tolerance
  BY <1>0, <1>1, <1>3, <1>4, <1>5, <1>7, <1>8 DEF Tolerance
<1> QED  BY <1>9 DEF diff

\* Rounding the hue moves the trapezoid by no more than the hue.
LEMMA HueError ==
    ASSUME NEW n \in {0, 4, 8}, NEW x \in Int, NEW d \in Nat \ {0}, Round(60 * x, d) \in Angle
    PROVE  LET t    == Wave(30 * n + Round(60 * x, d), 1)
               wave == Wave(30 * n * d + 60 * x, d)
           IN  t \in -30 .. 30 /\ wave \in Int /\ t * d - wave \in Int /\ 2 * (t * d - wave) \in -d .. d
<1> DEFINE h == Round(60 * x, d)
           k == 30 * n + h
           j == 30 * n * d + 60 * x
           t == Wave(k, 1)
           wave == Wave(j, d)
<1>1. h \in Int /\ -d <= 2 * (h * d - 60 * x) /\ 2 * (h * d - 60 * x) <= d
  BY RoundError
<1>2. h \in 0 .. 360
  BY DEF Angle
<1> HIDE DEF h
<1>3. k \in Int /\ j \in Int /\ k * d \in Int /\ k * d - j = h * d - 60 * x
  BY <1>1
<1> HIDE DEF k, j
<1>4. t * d = Wave(k * d, d)
  BY <1>3, WaveScaled
<1>5. t \in -30 .. 30
  <2>1. t \in -(30 * 1) .. (30 * 1)
    <3>1. Wave(k, 1) \in -(30 * 1) .. (30 * 1)
      <4>1. 1 \in Nat /\ 0 \in Int /\ -0 <= k - k /\ k - k <= 0
        BY <1>3
      <4> QED  BY <1>3, <4>1, WaveSlope
    <3> QED  BY <3>1
  <2> QED  BY <2>1
<1>6. wave \in Int
  BY <1>3 DEF Wave, Curve, Greatest, Least
<1>7. ASSUME NEW a \in Nat, -a <= k * d - j, k * d - j <= a
      PROVE  Wave(k * d, d) - wave \in -a .. a
  <2> DEFINE kd == k * d
  <2>1. kd \in Int /\ j \in Int /\ d \in Nat /\ a \in Int /\ -a <= kd - j /\ kd - j <= a
    BY <1>3, <1>7
  <2> HIDE DEF kd
  <2>2. Wave(kd, d) - Wave(j, d) \in -a .. a
    BY <2>1, WaveSlope
  <2> QED  BY <2>2 DEF kd
<1> HIDE DEF t, wave
<1>8. 2 * (t * d - wave) \in -d .. d
  <2> DEFINE a == IF k * d - j < 0 THEN -(k * d - j) ELSE k * d - j
  <2>1. a \in Nat /\ -a <= k * d - j /\ k * d - j <= a /\ 2 * a <= d
    BY <1>1, <1>3
  <2> HIDE DEF a
  <2>2. t * d - wave \in -a .. a
    BY <1>4, <1>7, <2>1
  <2> QED  BY <2>1, <2>2
<1>9. t * d - wave \in Int
  BY <1>5, <1>6
<1> QED  BY <1>5, <1>6, <1>8, <1>9 DEF t, wave, k, j, h

\* Half a per cent, of 510
LEMMA LightnessRounds ==
    ASSUME NEW sum \in Int
    PROVE  LET l == Round(100 * sum, 510)
           IN  l \in Int /\ -510 <= 2 * (l * 510 - 100 * sum) /\ 2 * (l * 510 - 100 * sum) <= 510
<1> DEFINE n    == 100 * sum
           full == 510
<1>1. n \in Int /\ full \in Nat \ {0}
  OBVIOUS
<1> HIDE DEF n, full
<1>2. /\ Round(n, full) \in Int
      /\ -full <= 2 * (Round(n, full) * full - n) /\ 2 * (Round(n, full) * full - n) <= full
  BY <1>1, RoundError
<1> QED  BY <1>2 DEF n, full

\* A grey: only the lightness is rounded.
LEMMA GreyNear ==
    ASSUME NEW n \in {0, 4, 8}, NEW v \in Channel
    PROVE  LET diff == HslChannel(n, 0, 0, Round(100 * (v + v), 510)) - 300000 * v
           IN  -Tolerance <= diff /\ diff <= Tolerance
<1> DEFINE l == Round(100 * (v + v), 510)
           z == Least(l, 100 - l) * Wave(30 * n + 0, 1)
<1>1. l \in Int /\ -510 <= 2 * (l * 510 - 100 * (v + v)) /\ 2 * (l * 510 - 100 * (v + v)) <= 510
  <2>1. v + v \in Int
    BY DEF Channel
  <2> QED  BY <2>1, LightnessRounds
<1> HIDE DEF l
<1>2. HslChannel(n, 0, 0, l) = 255 * (3000 * l - 0 * Least(l, 100 - l) * Wave(30 * n + 0, 1))
  BY ChannelByWave DEF Angle
<1>3. Least(l, 100 - l) \in Int /\ Wave(30 * n + 0, 1) \in Int
  BY <1>1 DEF Wave, Curve, Greatest, Least
<1>4. 0 * Least(l, 100 - l) * Wave(30 * n + 0, 1) = 0
  BY <1>3
<1>5. HslChannel(n, 0, 0, l) = 765000 * l
  BY <1>1, <1>2, <1>4
<1> QED  BY <1>1, <1>5 DEF Channel, Tolerance, l

\* The lightness and the saturation of any other colour
LEMMA LightnessError ==
    ASSUME NEW r, NEW g, NEW b, NEW max, NEW min, Extremes(r, g, b, max, min), max # min
    PROVE  LET d   == max - min
               sum == max + min
               l   == Round(100 * sum, 510)
               q   == Least(l, 100 - l)
               p   == IF sum > 255 THEN 510 - sum ELSE sum
               m   == IF sum > 255 THEN 255 - max ELSE min
               s   == Round(100 * d, p)
           IN  /\ Rounded(p, m, d, q, 510 * q - 100 * p, s, s * p - 100 * d)
               /\ l \in Int /\ 510 * l - 100 * sum \in {510 * q - 100 * p, -(510 * q - 100 * p)}
<1> DEFINE d   == max - min
           sum == max + min
           l   == Round(100 * sum, 510)
           q   == Least(l, 100 - l)
           p   == IF sum > 255 THEN 510 - sum ELSE sum
           m   == IF sum > 255 THEN 255 - max ELSE min
           s   == Round(100 * d, p)
<1>1. max \in Channel /\ min \in Channel /\ min < max
  BY DEF Extremes, Channel
<1>2. /\ d \in Nat \ {0} /\ sum \in Int /\ p \in 1 .. 255 /\ m \in Nat /\ d = p - 2 * m
      /\ d <= p
  BY <1>1 DEF Channel
<1>3. l \in Int /\ -510 <= 2 * (l * 510 - 100 * sum) /\ 2 * (l * 510 - 100 * sum) <= 510
  BY <1>2, LightnessRounds
<1>4. /\ q \in Int /\ 2 * (510 * q - 100 * p) \in -510 .. 510
      /\ 510 * l - 100 * sum \in {510 * q - 100 * p, -(510 * q - 100 * p)}
  <2>1. CASE sum > 255
    <3>1. l >= 50 /\ q = 100 - l /\ p = 510 - sum
      BY <1>2, <1>3, <2>1 DEF Least
    <3> HIDE DEF l, q, p, sum
    <3> QED  BY <1>2, <1>3, <3>1
  <2>2. CASE ~ sum > 255
    <3>1. l <= 50 /\ q = l /\ p = sum
      BY <1>2, <1>3, <2>2 DEF Least
    <3> HIDE DEF l, q, p, sum
    <3> QED  BY <1>2, <1>3, <3>1
  <2> QED  BY <2>1, <2>2
<1> HIDE DEF p, m, d, l, q
<1>5. s \in Int /\ -p <= 2 * (s * p - 100 * d) /\ 2 * (s * p - 100 * d) <= p
  <2>1. 100 * d \in Int /\ p \in Nat \ {0}
    BY <1>2
  <2> QED  BY <2>1, RoundError
<1>6. s \in Percent
  <2> DEFINE full == 100
             n == 100 * d
  <2>1. n \in Nat /\ p \in Nat \ {0} /\ full \in Nat /\ n <= full * p
    BY <1>2
  <2> HIDE DEF full, n
  <2>2. Round(n, p) \in 0 .. full
    BY <2>1, RoundUpTo
  <2> QED  BY <2>2 DEF full, n, Percent
<1> HIDE DEF s
<1>7. 510 * q - 100 * p \in Int /\ s * p - 100 * d \in Int
  BY <1>2, <1>4, <1>5
<1>8. 2 * (s * p - 100 * d) \in -p .. p
  BY <1>2, <1>5, <1>7
<1>9. Rounded(p, m, d, q, 510 * q - 100 * p, s, s * p - 100 * d)
  BY <1>2, <1>4, <1>6, <1>7, <1>8 DEF Rounded
<1> QED  BY <1>3, <1>4, <1>9 DEF p, m, d, l, q, s

\* The three channels of a colour, read back from what rgbToHsl returns
LEMMA ColourNear ==
    ASSUME NEW c \in Colour
    PROVE  \A n \in {0, 4, 8} :
               LET v    == IF n = 0 THEN c.r ELSE IF n = 8 THEN c.g ELSE c.b
                   diff == HslChannel(n, Hue(c), Saturation(c), Lightness(c)) - 300000 * v
               IN  -Tolerance <= diff /\ diff <= Tolerance
<1> TAKE n \in {0, 4, 8}
<1> DEFINE max == MaxChannel(c)
           min == MinChannel(c)
           d   == max - min
           sum == max + min
           v   == IF n = 0 THEN c.r ELSE IF n = 8 THEN c.g ELSE c.b
           h   == Hue(c)
           s   == Saturation(c)
           l   == Lightness(c)
           diff == HslChannel(n, h, s, l) - 300000 * v
<1> SUFFICES -Tolerance <= diff /\ diff <= Tolerance
  OBVIOUS
<1>1. Extremes(c.r, c.g, c.b, max, min) /\ h \in Angle /\ l = Round(100 * sum, 510)
  BY ChannelBounds, HueIsAngle DEF Lightness
<1>2. h = IF d = 0 THEN 0
          ELSE IF max = c.r THEN Round(60 * (c.g - c.b + (IF c.g < c.b THEN 6 * d ELSE 0)), d)
          ELSE IF max = c.g THEN Round(60 * (c.b - c.r + 2 * d), d)
          ELSE Round(60 * (c.r - c.g + 4 * d), d)
  BY DEF Hue
<1>3. s = IF d = 0 THEN 0 ELSE Round(100 * d, IF sum > 255 THEN 510 - sum ELSE sum)
  BY <1>1 DEF Saturation, Extremes, Channel
<1> HIDE DEF max, min, h, s, l, diff
<1>4. /\ c.r \in Int /\ c.g \in Int /\ c.b \in Int /\ max \in Int /\ min \in Int
      /\ c.r <= max /\ c.g <= max /\ c.b <= max /\ min <= c.r /\ min <= c.g /\ min <= c.b
      /\ v \in Channel /\ min <= v /\ v <= max
  BY <1>1 DEF Extremes, Channel
<1>5. CASE d = 0
  <2>1. h = 0 /\ s = 0 /\ v = max /\ min = max
    BY <1>2, <1>3, <1>4, <1>5 DEF Channel
  <2>2. l = Round(100 * (v + v), 510)
    BY <1>1, <2>1
  <2> HIDE DEF v
  <2>3. /\ -Tolerance <= HslChannel(n, 0, 0, l) - 300000 * v
        /\ HslChannel(n, 0, 0, l) - 300000 * v <= Tolerance
    BY <1>4, <2>2, GreyNear
  <2> QED  BY <2>1, <2>3 DEF diff
<1>6. CASE d # 0
  <2> DEFINE x == IF max = c.r THEN c.g - c.b + (IF c.g < c.b THEN 6 * d ELSE 0)
                  ELSE IF max = c.g THEN c.b - c.r + 2 * d
                  ELSE c.r - c.g + 4 * d
             p == IF sum > 255 THEN 510 - sum ELSE sum
             m == IF sum > 255 THEN 255 - max ELSE min
             q == Least(l, 100 - l)
             t == Wave(30 * n + h, 1)
             wave == Wave(30 * n * d + 60 * x, d)
  <2>1. x \in Int /\ d \in Nat \ {0} /\ h = Round(60 * x, d) /\ s = Round(100 * d, p) /\ max # min
    BY <1>2, <1>3, <1>4, <1>6
  <2>2. /\ Rounded(p, m, d, q, 510 * q - 100 * p, s, s * p - 100 * d)
        /\ l \in Int /\ 510 * l - 100 * sum \in {510 * q - 100 * p, -(510 * q - 100 * p)}
    BY <1>1, <2>1, LightnessError
  <2>3. /\ t \in -30 .. 30 /\ wave \in Int
        /\ t * d - wave \in Int /\ 2 * (t * d - wave) \in -d .. d
    <3> HIDE DEF x, d
    <3> QED  BY <1>1, <2>1, HueError
  <2>4. 60 * v = 30 * sum - wave
    <3>1. /\ 60 * c.r = 30 * (max + min) - Wave(60 * x, max - min)
          /\ 60 * c.g = 30 * (max + min) - Wave(240 * (max - min) + 60 * x, max - min)
          /\ 60 * c.b = 30 * (max + min) - Wave(120 * (max - min) + 60 * x, max - min)
      BY <1>1, <2>1, ExactHue
    <3> HIDE DEF x
    <3>2. /\ n = 0 => 30 * n * d + 60 * x = 60 * x
          /\ n = 8 => 30 * n * d + 60 * x = 240 * d + 60 * x
          /\ n = 4 => 30 * n * d + 60 * x = 120 * d + 60 * x
      BY <2>1
    <3> QED  BY <3>1, <3>2
  <2>5. HslChannel(n, h, s, l) = 255 * (3000 * l - s * q * t)
    BY <1>1, ChannelByWave
  <2> HIDE DEF p, m, q, t, wave, x, d, v, sum
  <2> DEFINE e == 510 * q - 100 * p
             f == s * p - 100 * d
             u == t * d - wave
  <2>6. sum \in Int
    BY <1>4 DEF sum
  <2>7. Rounded(p, m, d, q, e, s, f) /\ LightnessRounded(l, sum, e)
    BY <2>2, <2>6 DEF LightnessRounded
  <2>8. HueRounded(t, wave, d, u)
    BY <2>3 DEF HueRounded
  <2> HIDE DEF e, f, u
  <2>9. /\ -Tolerance <= 255 * (3000 * l - s * q * t) - 5000 * (30 * sum - wave)
        /\ 255 * (3000 * l - s * q * t) - 5000 * (30 * sum - wave) <= Tolerance
    BY <2>7, <2>8, ChannelError
  <2>10. 5000 * (30 * sum - wave) = 300000 * v
    BY <1>4, <2>3, <2>4, <2>6 DEF Channel
  <2> DEFINE back == 255 * (3000 * l - s * q * t)
  <2>11. -Tolerance <= back - 300000 * v /\ back - 300000 * v <= Tolerance
    BY <2>9, <2>10
  <2>12. diff = back - 300000 * v
    BY <2>5 DEF diff
  <2> HIDE DEF back
  <2> QED  BY <2>11, <2>12
<1> QED  BY <1>5, <1>6

----------------------------------------------------------------------------
\* The inductive invariant

\* The theme is the one of the colour last looked at; and while no callback is
\* due that is the colour behind the wallet
ThemeFollows ==
    /\ lastBg \notin {NoColour, UnreadColour} => theme = GenerateThemeFromBackground(lastBg)
    /\ ~ notified => lastBg = DominantBackgroundColor

IInv == TypeOK /\ ThemeFollows

\* The invariant holds at first.
LEMMA InitInvariant == Init => IInv
<1>1. 0 \in 0 .. MaxChanges
  BY ColourAssumption
<1>2. Init => TypeOK
  BY <1>1 DEF Init, TypeOK
<1>3. Init => ThemeFollows
  BY DEF Init, ThemeFollows
<1> QED  BY <1>2, <1>3 DEF IInv

\* What an observer may look at: a colour, or one it cannot read
LEMMA DominantColour ==
    ASSUME TypeOK
    PROVE  DominantBackgroundColor \in PageColours \cup {UnreadColour, Black, White}
  BY DEF TypeOK, DominantBackgroundColor, IsTheme

\* Black and white are colours, and the sentinels are not.
LEMMA Colours ==
    /\ PageColours \cup {Black, White} \subseteq Colour
    /\ NoColour \notin PageColours \cup {UnreadColour, Black, White}
    /\ UnreadColour \notin PageColours \cup {Black, White}
<1>1. Black \in Colour /\ White \in Colour
  BY DEF Black, White, Colour, Channel
<1> QED  BY <1>1, ColourAssumption

\* Every step keeps the invariant.
LEMMA StepInvariant == IInv /\ [Next]_vars => IInv'
<1> SUFFICES ASSUME IInv, [Next]_vars PROVE IInv'
  OBVIOUS
<1> USE DEF IInv
<1>1. CASE UpdateThemeFromBackground
  <2> DEFINE c == DominantBackgroundColor
  <2>1. c \in PageColours \cup {UnreadColour, Black, White}
    BY DominantColour
  <2>2. UNCHANGED <<background, changes, connected, painted>> /\ notified' = FALSE
    BY <1>1 DEF UpdateThemeFromBackground
  <2>3. DominantBackgroundColor' = c
    BY <2>2 DEF DominantBackgroundColor
  <2> HIDE DEF c
  <2>4. \/ c = lastBg /\ UNCHANGED <<lastBg, theme>>
        \/ c # lastBg /\ lastBg' = c /\ theme' = IF c = UnreadColour THEN theme ELSE GenerateThemeFromBackground(c)
    BY <1>1 DEF UpdateThemeFromBackground, c
  <2>5. ThemeFollows'
    BY <2>2, <2>3, <2>4 DEF ThemeFollows
  <2>6. theme' # NoTheme => IsTheme(theme')
    BY <2>1, <2>4, Colours, ThemeIsTheme DEF TypeOK
  <2> QED  BY <2>1, <2>2, <2>4, <2>5, <2>6 DEF TypeOK
<1>2. CASE Render
  BY <1>2 DEF Render, TypeOK, ThemeFollows
<1>3. CASE ConnectOrDisconnect
  BY <1>3 DEF ConnectOrDisconnect, TypeOK, ThemeFollows
<1>4. ASSUME NEW c \in PageColours \cup {UnreadColour}, PageChanges(c) PROVE IInv'
  <2>1. changes' \in 0 .. MaxChanges
    BY <1>4, ColourAssumption DEF PageChanges, TypeOK
  <2> QED  BY <1>4, <2>1 DEF PageChanges, TypeOK, ThemeFollows
<1>5. CASE UNCHANGED vars
  BY <1>5 DEF vars, TypeOK, ThemeFollows, DominantBackgroundColor
<1> QED  BY <1>1, <1>2, <1>3, <1>4, <1>5 DEF Next

----------------------------------------------------------------------------
\* The theorems

\* Every theme generateThemeFromBackground makes of one of the 2^24 colours, or
\* of its own --wallet-bg, has angles and percentages, though the code clamps
\* only two of the lightnesses.
THEOREM TypeCorrect == Spec => []TypeOK
<1>1. IInv => TypeOK
  BY DEF IInv
<1> QED  BY <1>1, InitInvariant, StepInvariant, PTL DEF Spec

\* When nothing is due the theme is that of the colour behind the wallet.
THEOREM SettledCorrect == Spec => []SettledThemeFits
<1>1. IInv => SettledThemeFits
  BY DominantColour, Colours DEF IInv, ThemeFollows, SettledThemeFits, Settled
<1> QED  BY <1>1, InitInvariant, StepInvariant, PTL DEF Spec

\* hsl() of what rgbToHsl returns is within 5 of 255 of every colour a page
\* can have, in each channel: the errors of the three roundings do not add up
\* to more.
THEOREM HslCorrect == Spec => []HslNamesTheColour
<1>1. IInv => HslNamesTheColour
  <2> SUFFICES ASSUME IInv, background # UnreadColour PROVE HslNamesTheColour
    BY DEF HslNamesTheColour
  <2> DEFINE h == Hue(background)
             s == Saturation(background)
             l == Lightness(background)
             Diff(n, v) == HslChannel(n, h, s, l) - 300000 * v
  <2>1. background \in Colour
    BY ColourAssumption DEF IInv, TypeOK
  <2>2. /\ -Tolerance <= Diff(0, background.r) /\ Diff(0, background.r) <= Tolerance
        /\ -Tolerance <= Diff(8, background.g) /\ Diff(8, background.g) <= Tolerance
        /\ -Tolerance <= Diff(4, background.b) /\ Diff(4, background.b) <= Tolerance
    BY <2>1, ColourNear
  <2>3. ASSUME NEW n \in {0, 4, 8}, NEW v \in Channel PROVE Diff(n, v) \in Int
    <3>1. h \in Angle /\ s \in Percent /\ l \in Int
      BY <2>1, HueIsAngle, SaturationIsPercent, LightnessLeavesRoom
    <3> HIDE DEF h, s, l
    <3>2. HslChannel(n, h, s, l) = 255 * (3000 * l - s * Least(l, 100 - l) * Wave(30 * n + h, 1))
      BY <3>1, ChannelByWave
    <3>3. Least(l, 100 - l) \in Int /\ Wave(30 * n + h, 1) \in Int /\ s \in Int
      BY <3>1 DEF Wave, Curve, Greatest, Least, Angle, Percent
    <3> QED  BY <3>1, <3>2, <3>3 DEF Channel
  <2>4. background.r \in Channel /\ background.g \in Channel /\ background.b \in Channel
    BY <2>1 DEF Colour
  <2>5. /\ Diff(0, background.r) \in -Tolerance .. Tolerance
        /\ Diff(8, background.g) \in -Tolerance .. Tolerance
        /\ Diff(4, background.b) \in -Tolerance .. Tolerance
    <3>1. ASSUME NEW z \in Int, -Tolerance <= z, z <= Tolerance PROVE z \in -Tolerance .. Tolerance
      <4>1. Tolerance \in Int
        BY DEF Tolerance
      <4> QED  BY <3>1, <4>1
    <3>2. /\ Diff(0, background.r) \in Int /\ Diff(8, background.g) \in Int
          /\ Diff(4, background.b) \in Int
      BY <2>3, <2>4
    <3> HIDE DEF Diff
    <3> QED  BY <2>2, <3>1, <3>2
  <2> QED  BY <2>5 DEF HslNamesTheColour
<1> QED  BY <1>1, InitInvariant, StepInvariant, PTL DEF Spec
=============================================================================
