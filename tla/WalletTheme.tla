---------------------------- MODULE WalletTheme ----------------------------
(***************************************************************************)
(* The theme of frontend/web/src/components/WalletManager.tsx.  An         *)
(* observer reads the background colour behind the wallet buttons and      *)
(* derives a theme from it.  One of the theme's colours, --wallet-bg, is   *)
(* the background of the buttons' own container while an account is        *)
(* connected, and the container is where the observer looks first: the     *)
(* theme then feeds on itself.                                             *)
(*                                                                         *)
(* A colour is what getComputedStyle reports: red, green, blue and, in     *)
(* tenths, alpha; or UnreadColour for a notation the code's regular        *)
(* expression does not match.  Arithmetic is exact where the code's is     *)
(* floating point: the two differ at most where a quotient is exactly half *)
(* way between two integers, or a luminance is exactly 0.4 (as that of     *)
(* rgb(102, 102, 102), which the code takes for dark).                     *)
(***************************************************************************)
EXTENDS Integers

CONSTANTS
    PageColours,  \* the colours of the page, [r, g, b, alpha]
    UnreadColour, \* a colour the regular expression does not match
    NoColour,     \* lastBgColorRef before the first look
    NoTheme,      \* the empty theme of useState({})
    MaxChanges    \* bound on changes of the page's background

Channel == 0 .. 255
Colour == [r : Channel, g : Channel, b : Channel, alpha : 1 .. 10]

ASSUME ColourAssumption ==
    /\ PageColours \subseteq Colour
    /\ UnreadColour \notin Colour /\ NoColour \notin Colour \cup {UnreadColour}
    /\ MaxChanges \in Nat

VARIABLES
    background, \* colour of the nearest painted ancestor of the container
    changes,    \* how often the background changed
    connected,  \* the account is not empty: the container has its class
    lastBg,     \* lastBgColorRef.current
    theme,      \* the React state
    painted,    \* the theme in the container's style attribute
    notified    \* an observer callback, or the first effect, is due

vars == <<background, changes, connected, lastBg, theme, painted, notified>>

----------------------------------------------------------------------------
\* Colour arithmetic

Least(a, b) == IF a < b THEN a ELSE b
Greatest(a, b) == IF a > b THEN a ELSE b
MaxChannel(c) == Greatest(c.r, Greatest(c.g, c.b))
MinChannel(c) == Least(c.r, Least(c.g, c.b))

\* Math.round of a quotient, d > 0: halves are rounded up
Round(n, d) == (2 * n + d) \div (2 * d)

\* Mutant: the sector of red below green has no turn of six
HueWithoutTurn(c) ==
    LET max == MaxChannel(c)
        d   == max - MinChannel(c)
    IN  CASE d = 0 -> 0
          [] d # 0 /\ max = c.r -> Round(60 * (c.g - c.b), d)
          [] d # 0 /\ max = c.g /\ max # c.r -> Round(60 * (c.b - c.r + 2 * d), d)
          [] OTHER -> Round(60 * (c.r - c.g + 4 * d), d)
\* Mutant: the offsets of the sectors of green and blue are swapped
HueWithSwappedSectors(c) ==
    LET max == MaxChannel(c)
        d   == max - MinChannel(c)
    IN  CASE d = 0 -> 0
          [] d # 0 /\ max = c.r -> Round(60 * (c.g - c.b + (IF c.g < c.b THEN 6 * d ELSE 0)), d)
          [] d # 0 /\ max = c.g /\ max # c.r -> Round(60 * (c.b - c.r + 4 * d), d)
          [] OTHER -> Round(60 * (c.r - c.g + 2 * d), d)
\* Degrees; 360, which CSS takes for 0, when the sector of red rounds up to it
Hue(c) ==
    LET max == MaxChannel(c)
        d   == max - MinChannel(c)
    IN  CASE d = 0 -> 0
          [] d # 0 /\ max = c.r -> Round(60 * (c.g - c.b + (IF c.g < c.b THEN 6 * d ELSE 0)), d)
          [] d # 0 /\ max = c.g /\ max # c.r -> Round(60 * (c.b - c.r + 2 * d), d)
          [] OTHER -> Round(60 * (c.r - c.g + 4 * d), d)

\* Per cent
Saturation(c) ==
    LET sum == MaxChannel(c) + MinChannel(c)
        d   == MaxChannel(c) - MinChannel(c)
    IN  CASE d = 0 -> 0
          [] d # 0 /\ sum > 255 -> Round(100 * d, 510 - sum)
          [] OTHER -> Round(100 * d, sum)
Lightness(c) == Round(100 * (MaxChannel(c) + MinChannel(c)), 510)

\* ITU-R BT.709 luminance below 0.4; a colour that is not matched is not dark
IsDark(c) == c # UnreadColour /\ 2126 * c.r + 7152 * c.g + 722 * c.b < 4000 * 255

Black == [r |-> 0, g |-> 0, b |-> 0, alpha |-> 3]
White == [r |-> 255, g |-> 255, b |-> 255, alpha |-> 3]

\* Mutant: the wallet's own background contrasts with the page's
InvertedTheme(c) ==
    LET dark == IsDark(c)
        l    == Lightness(c)
        Lighter(x) == IF dark THEN l + x ELSE l - x
    IN  [dark |-> dark, walletBg |-> IF dark THEN White ELSE Black,
         primaryHue |-> (Hue(c) + 30) % 360, hue |-> Hue(c),
         saturation |-> Least(Saturation(c) + 20, 100),
         button |-> IF dark THEN Least(l + 20, 95) ELSE Greatest(l - 20, 5),
         hover |-> IF dark THEN Least(l + 30, 98) ELSE Greatest(l - 30, 2),
         secondary |-> Lighter(10), secondaryHover |-> Lighter(15), border |-> Lighter(20),
         text |-> IF dark THEN 90 ELSE 10]
\* The theme: its hues, saturation and lightnesses
GenerateThemeFromBackground(c) ==
    LET dark == IsDark(c)
        l    == Lightness(c)
        Lighter(x) == IF dark THEN l + x ELSE l - x
    IN  [dark |-> dark, walletBg |-> IF dark THEN Black ELSE White,
         primaryHue |-> (Hue(c) + 30) % 360, hue |-> Hue(c),
         saturation |-> Least(Saturation(c) + 20, 100),
         button |-> IF dark THEN Least(l + 20, 95) ELSE Greatest(l - 20, 5),
         hover |-> IF dark THEN Least(l + 30, 98) ELSE Greatest(l - 30, 2),
         secondary |-> Lighter(10), secondaryHover |-> Lighter(15), border |-> Lighter(20),
         text |-> IF dark THEN 90 ELSE 10]

----------------------------------------------------------------------------
\* The class wallet-container paints --wallet-bg, which no theme leaves unset
DominantBackgroundColor ==
    IF connected /\ painted # NoTheme THEN painted.walletBg ELSE background

Init ==
    /\ background \in PageColours \cup {UnreadColour}
    /\ changes = 0
    /\ connected = FALSE
    /\ lastBg = NoColour
    /\ theme = NoTheme /\ painted = NoTheme
    /\ notified = TRUE

\* Mutant: the theme is generated once and then kept
UpdateOnce ==
    /\ notified /\ notified' = FALSE
    /\ LET c == DominantBackgroundColor
       IN  IF c = lastBg THEN UNCHANGED <<lastBg, theme>>
           ELSE /\ lastBg' = c
                /\ theme' = IF theme # NoTheme \/ c = UnreadColour THEN theme
                            ELSE GenerateThemeFromBackground(c)
    /\ UNCHANGED <<background, changes, connected, painted>>
\* updateThemeFromBackground: the colour is remembered before it is matched
UpdateThemeFromBackground ==
    /\ notified /\ notified' = FALSE
    /\ LET c == DominantBackgroundColor
       IN  IF c = lastBg THEN UNCHANGED <<lastBg, theme>>
           ELSE /\ lastBg' = c
                /\ theme' = IF c = UnreadColour THEN theme ELSE GenerateThemeFromBackground(c)
    /\ UNCHANGED <<background, changes, connected, painted>>

\* React writes the style attribute, which the observer watches
Render ==
    /\ painted # theme
    /\ painted' = theme
    /\ notified' = TRUE
    /\ UNCHANGED <<background, changes, connected, lastBg, theme>>

\* The account appears or goes, and with it the container's class
ConnectOrDisconnect ==
    /\ connected' = ~ connected
    /\ notified' = TRUE
    /\ UNCHANGED <<background, changes, lastBg, theme, painted>>

\* A style or class changes somewhere in the document
PageChanges(c) ==
    /\ changes < MaxChanges
    /\ changes' = changes + 1
    /\ background' = c
    /\ notified' = TRUE
    /\ UNCHANGED <<connected, lastBg, theme, painted>>

Next ==
    \/ UpdateThemeFromBackground
    \/ Render
    \/ ConnectOrDisconnect
    \/ \E c \in PageColours \cup {UnreadColour} : PageChanges(c)

\* The browser runs due callbacks, and React commits a state that was set
Spec == Init /\ [][Next]_vars /\ WF_vars(UpdateThemeFromBackground) /\ WF_vars(Render)

----------------------------------------------------------------------------
\* Properties

Angle == 0 .. 360
Percent == 0 .. 100

IsTheme(t) ==
    /\ t.dark \in BOOLEAN /\ t.walletBg \in {Black, White}
    /\ t.hue \in Angle /\ t.primaryHue \in Angle \ {360} /\ t.saturation \in Percent
    /\ {t.button, t.hover, t.secondary, t.secondaryHover, t.border} \subseteq Percent
    /\ IF t.dark THEN t.hover > t.button ELSE t.hover < t.button

\* The numbers of a theme are angles and percentages.  The code clamps the
\* lightnesses of the buttons only (lines 150-151); those of the account box and
\* the border (157-164) stay percentages all the same, and the hover colour of
\* a button is further from the background than the button's own.
TypeOK ==
    /\ background \in PageColours \cup {UnreadColour}
    /\ changes \in 0 .. MaxChanges
    /\ connected \in BOOLEAN /\ notified \in BOOLEAN
    /\ lastBg \in PageColours \cup {UnreadColour, NoColour, Black, White}
    /\ theme # NoTheme => IsTheme(theme)
    /\ painted # NoTheme => IsTheme(painted)

\* CSS reads hsl(h, s%, l%) back as this channel, times 300000: n is 0 for red,
\* 8 for green, 4 for blue
HslChannel(n, h, s, l) ==
    LET k == (30 * n + h) % 360
        t == Greatest(-30, Least(30, Least(k - 90, 270 - k)))
    IN  255 * (3000 * l - s * Least(l, 100 - l) * t)

\* Five of 255, in the unit of HslChannel
Tolerance == 5 * 300000

\* rgbToHsl names the colour it is given: read back by the CSS definition of
\* hsl() its result differs by no more than 5 of 255 in each channel, which is
\* what the rounding of the three numbers can make.
HslNamesTheColour ==
    background # UnreadColour =>
        LET Near(n, channel) ==
                HslChannel(n, Hue(background), Saturation(background), Lightness(background))
                - 300000 * channel \in -Tolerance .. Tolerance
        IN  Near(0, background.r) /\ Near(8, background.g) /\ Near(4, background.b)

Settled == ~ notified /\ painted = theme

\* When nothing is due the theme is the one of the colour behind the wallet,
\* whatever was painted, connected or changed in between, unless that colour
\* could not be read.  (While an account is connected that colour is the
\* theme's own --wallet-bg, not the page's.)
SettledThemeFits ==
    Settled =>
        /\ lastBg = DominantBackgroundColor
        /\ lastBg # UnreadColour => theme = GenerateThemeFromBackground(lastBg)

\* A theme that becomes its own background does not flicker for ever: once the
\* account stays and the page stops changing, the theme settles.
ThemeSettles == []<><<ConnectOrDisconnect>>_vars \/ <>[]Settled
=============================================================================
