---------------------------- MODULE MCCountryCode ----------------------------
(* Four devices: caps, where two codes of one region have caps of their    *)
(* own, country files under a region map, a device with faults in its files, *)
(* and one without a main file.                                            *)
EXTENDS CountryCode, TLC

Cc(c) == [tag |-> "COUNTRY_CODE", value |-> c]
Entry(t, v) == [tag |-> t, value |-> v]

CapsDisk ==
  (<<"main">> :> [COUNTRY_CODE_CAP_FILE_LOCATION |-> <<"old", "new">>,
                  REGION_MAP_PATH |-> "regions",
                  UWB_COUNTRY_CODE_CAPS |-> <<Cc("US"), Entry("UWB_ENABLE", FALSE)>>] @@
   <<"regions">> :> [FCC |-> {"US", "CA"}] @@
   <<"uci">>  :> ("cal.uwb_disable" :> 1) @@
   <<"old">>  :> [VERSION |-> 1, UWB_COUNTRY_CODE_CAPS |-> <<Cc("US"), Entry("UWB_ENABLE", FALSE)>>] @@
   <<"new">>  :> [VERSION |-> 2,
     UWB_COUNTRY_CODE_CAPS |->
       <<Cc("US"), Entry("UWB_ENABLE", TRUE), Entry("TX_POWER", 2),
         Cc("CA"), Entry("UWB_ENABLE", TRUE), Entry("CHANNEL_9", FALSE), Entry("TX_POWER", -2),
         Cc("JP"), Entry("UWB_ENABLE", FALSE), Entry("CHANNEL_5", FALSE)>>])

Main(extra) ==
  [EXTRA_CONF_PATHS |-> extra, REGION_MAP_PATH |-> "regions", UWB_COUNTRY_CODE_CAPS |-> <<>>] @@ ("cal.uwb_disable" :> 0)

FileDisk ==
  (<<"main">>    :> Main(<<[path |-> "base", country |-> FALSE], [path |-> "gone", country |-> FALSE],
                           [path |-> "cc", country |-> TRUE]>>) @@
   <<"uci">>     :> ("cal.dc_suppress" :> 1) @@
   <<"regions">> :> [FCC |-> {"US", "CA", "00"}] @@
   <<"base">>    :> ("cal.ant1.ch9.tx_power" :> 2 @@ "cal.tx_pulse_shape" :> 1 @@
                     "cal.ddfs_tone_config" :> 1) @@
   <<"cc", "FCC">> :> ("cal.ant1.ch9.tx_power" :> 1 @@ "cal.dc_suppress" :> 0) @@
   <<"cc", "JP">>  :> ("cal.ant1.ch5.tx_power" :> 3 @@ "cal.restricted_channels" :> {5} @@ "cal.ddfs_enable" :> 1 @@
                       "cal.ddfs_tone_config" :> 2 @@ "cal.tx_pulse_shape" :> 2) @@
   <<"cc", "00">>  :> ("cal.restricted_channels" :> {5, 9}))

FaultDisk ==
  (<<"main">> :> Main(<<[path |-> "cc", country |-> TRUE]>>) @@
   <<"cc", "US">> :> ("cal.ddfs_enable" :> 1 @@ "cal.ant1.ch5.tx_power" :> Malformed) @@
   <<"cc", "JP">> :> ("cal.uwb_disable" :> 1))

MCDisks == {CapsDisk, FileDisk, FaultDisk, <<"uci">> :> ("cal.dc_suppress" :> 1)}
MCCodes == {"US", "CA", "JP", "00"}
MCUpper == {"US", "CA", "JP"}
MCPowers == {[channel |-> 5, power |-> 3], [channel |-> 9, power |-> 0]}
=============================================================================
