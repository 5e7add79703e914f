------------------------------ MODULE MCSysRgb ------------------------------
EXTENDS SysRgb

Cfg(mode, load_cpu, load_gpu, brightness) ==
    [DefaultCfg EXCEPT !.mode = mode, !.load_cpu = load_cpu,
                       !.load_gpu = load_gpu, !.brightness = brightness]

\* An autonomous mode, and Load and Temperature with choices of monitors.
MonitorModes ==
    {Cfg(RgbMode_Pulse, TRUE, FALSE, One)} \cup
    {Cfg(RgbMode_Load, c, g, One) : <<c, g>> \in
        {<<TRUE, FALSE>>, <<FALSE, TRUE>>, <<TRUE, TRUE>>}} \cup
    {Cfg(RgbMode_Temperature, TRUE, g, One) : g \in BOOLEAN}

\* Two modes that read no monitor.
Autonomous == {Cfg(RgbMode_Cycle, TRUE, FALSE, One \div 2),
               Cfg(RgbMode_Rainbow, TRUE, FALSE, One)}
Temperature == {Cfg(RgbMode_Temperature, TRUE, FALSE, One)}
ZeroOne == {0, One}
NoSamples == {0}
NoRaw == {}
=============================================================================
