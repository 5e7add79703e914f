------------------------------ MODULE MCRgbLink ------------------------------
EXTENDS RgbLink

Cfg(mode, num_pixels, brightness) ==
    [DefaultCfg EXCEPT !.mode = mode, !.num_pixels = num_pixels, !.brightness = brightness]

\* The effect that divides by the LEDs, on fewer than the controller starts with,
\* and the load on more than it has.
LinkConfigs == {Cfg(RgbMode_Rainbow, 5, One \div 2), Cfg(RgbMode_Load, 60, One)}
\* At most one register at a time holds what the image does not.
FewLost == \A r, s \in stale : r = s
ZeroOne == {0, One}
NoRaw == {}
\* A number that is no mode.
RawMode == {<<"mode", 6>>}
=============================================================================
