---------------------------- MODULE MCRainGages ----------------------------
(* An hour of twelve seconds. Series that begin before and after the start of *)
(* the run, with records side by side and apart.                              *)
EXTENDS RainGages

Early == [x |-> <<-2, 2, 9>>, y |-> <<3, 6, 0>>]
Late == [x |-> <<4, 7, 13>>, y |-> <<6, 3, 9>>]
Steady == [x |-> <<0, 4, 8>>, y |-> <<3, 6, 12>>]

GageOn(source, table, type, interval, scale) ==
    [source |-> source, table |-> table, rain_type |-> type,
     interval |-> interval, scale |-> scale]

ModelOf(series, pool, gages) ==
    [tables |-> series, pool |-> pool, gages |-> gages, wet_step |-> 3, dry_step |-> 8,
     report_step |-> 4, duration |-> 13]

\* Two gages on one series, with another one to be had.
Shared == ModelOf(<<Late, Early>>, 2,
    <<GageOn("TIMESERIES", 1, "INTENSITY", 3, 1), GageOn("TIMESERIES", 1, "INTENSITY", 3, 2)>>)

\* A gage with a file beside one on the pool.
OwnFile == ModelOf(<<Early, Late>>, 1,
    <<GageOn("TIMESERIES", 1, "VOLUME", 4, 1), GageOn("FILE", 2, "VOLUME", 3, 1)>>)

Cumulative == ModelOf(<<Steady>>, 1, <<GageOn("TIMESERIES", 1, "CUMULATIVE", 4, 1)>>)

RainModels == {Shared, OwnFile, Cumulative}
============================================================================
