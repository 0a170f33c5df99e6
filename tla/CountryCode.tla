----------------------------- MODULE CountryCode -----------------------------
(***************************************************************************)
(* ANDROID_SET_COUNTRY_CODE: phNxpUciHal_handle_set_country_code and what  *)
(* it applies, from the files of NxpConfig, to the runtime settings of the *)
(* HAL and, by commands that may fail, to the calibration of the chip.     *)
(*                                                                         *)
(* The API thread handles the command under the lock that the other        *)
(* commands of the host need, so only opening, closing and the chip come   *)
(* between.  A calibration value is one number: one antenna per channel.   *)
(***************************************************************************)
EXTENDS NxpConfig

CONSTANTS
  Powers,     \* tx power calibrations the host may send: [channel, power]
  PowerRange, \* 2^16 in the code
  MaxOpens    \* bounds the number of opens

ASSUME PowerAssumption == /\ PowerRange \in Nat \ {0}
                          /\ Powers \subseteq [channel : {5, 6, 8, 9}, power : 0..(PowerRange - 1)]
                          /\ MaxOpens \in Nat

\* One entry of UWB_COUNTRY_CODE_CAPS.
Entries == [tag : {"COUNTRY_CODE"}, value : Codes]
             \cup [tag : {"UWB_ENABLE", "CHANNEL_5", "CHANNEL_9"}, value : BOOLEAN]
             \cup [tag : {"TX_POWER"}, value : Int]

TxPowerKeys == {"cal.ant1.ch5.tx_power", "cal.ant1.ch6.tx_power", "cal.ant1.ch8.tx_power",
                "cal.ant1.ch9.tx_power"}

Malformed == -3    \* a parameter of the wrong length
Default == -2      \* what the chip comes up with

ASSUME ValuesAssumption ==
  /\ "none" \notin Codes
  /\ \A d \in Disks : \A path \in DOMAIN d : \A name \in DOMAIN d[path] :
       /\ name = "UWB_COUNTRY_CODE_CAPS" => d[path][name] \in Seq(Entries)
       /\ name = "cal.restricted_channels" => d[path][name] \in SUBSET Nat
       /\ name \in TxPowerKeys => d[path][name] \in {Malformed} \cup 0..(PowerRange - 1)
       /\ name = "cal.ddfs_tone_config" => d[path][name] # Default

Restrictable == {5, 9}
cal_channels == <<5, 6, 8, 9>>
Channels == {5, 6, 8, 9}

VARIABLES
  api,         \* where the API thread is in the handler
  halStatus,
  opens,       \* number of opens so far
  country,     \* ghost: the last country set since the HAL was opened
  governing,   \* ghost: the last country that was loaded
  rt_settings, \* uwb_enable, restricted_channel_mask, tx_power_offset
  isCountryCodeMapCreated,
  conf_map,    \* the channels the caps of the country allow
  gtx_power,   \* the last tx power calibration seen on its way to the chip
  idx,         \* position in the caps, or in cal_channels
  found,       \* country_code_found; in the base band step: ddfs_enable
  chip,        \* the calibration of the chip
  asked,       \* ghost: the tx power the host has set, per channel, unless a file did since
  sent,        \* ghost: every command of this country has been answered well
  reported,    \* the channels of the last capability response for this country
  answer       \* the last response to ANDROID_SET_COUNTRY_CODE: UWB on

hal == <<halStatus, opens>>
applying == <<rt_settings, isCountryCodeMapCreated, conf_map, gtx_power, idx, found>>
ghosts == <<country, governing, asked, sent>>
host == <<reported, answer>>
vars == <<configVars, api, hal, applying, ghosts, host, chip>>

-----------------------------------------------------------------------------
NoCountry == "none"
NoPower == -1
Unknown == -4      \* a command for this channel has failed
Empty == [channel |-> 0, power |-> NoPower]

Zeroed == [uwb_enable |-> FALSE, restricted |-> {}, offset |-> 0]
Reset  == [uwb_enable |-> TRUE, restricted |-> {}, offset |-> 0]

FreshChip == [power |-> [ch \in Channels |-> Default], shape |-> Default,
              tone |-> Default, ddfs |-> FALSE, dc |-> FALSE]

TxPowerKey(ch) == CASE ch = 5 -> "cal.ant1.ch5.tx_power" [] ch = 6 -> "cal.ant1.ch6.tx_power"
                    [] ch = 8 -> "cal.ant1.ch8.tx_power" [] OTHER -> "cal.ant1.ch9.tx_power"

\* Mutant: The sum is not cut to sixteen bits.
NotCut(power, offset) == IF power + offset < 0 THEN 0 ELSE power + offset

\* phNxpUciHal_updateTxPower: negative powers are cut, large ones wrap.
Adjusted(power, offset) ==
  LET sum == power + offset
  IN  IF offset = 0 THEN power ELSE IF sum < 0 THEN 0 ELSE sum % PowerRange

updateTxPower(gtx, offset) ==
  IF gtx = Empty THEN gtx ELSE [gtx EXCEPT !.power = Adjusted(@, offset)]

\* A command ends well or not; one that ends badly may have been lost on its
\* way, or only its answer.
Sent(after, ok) ==
  /\ chip' \in IF ok THEN {after} ELSE {after, chip}
  /\ sent' = (sent /\ ok)

Send(after) == \E ok \in BOOLEAN : Sent(after, ok)

Answered(after, ch, power) ==
  \E ok \in BOOLEAN : /\ Sent(after, ok)
                       /\ asked' = [asked EXCEPT ![ch] = IF ok THEN power ELSE Unknown]

\* Every tx power calibration passes phNxpUciHal_parse on its way out, which
\* remembers it in gtx_power and adds the offset.
SendTxPower(calibration, offset, power) ==
  LET seen == updateTxPower(calibration, offset)
  IN  /\ gtx_power' = seen
      /\ Answered([chip EXCEPT !.power[seen.channel] = seen.power], seen.channel, power)

-----------------------------------------------------------------------------
Init ==
  /\ ConfigInit
  /\ api = "idle" /\ halStatus = "CLOSE" /\ opens = 0
  /\ country = NoCountry /\ governing = NoCountry
  /\ rt_settings = Zeroed
  /\ isCountryCodeMapCreated = FALSE
  /\ conf_map = {}
  /\ gtx_power = Empty
  /\ idx = 1 /\ found = FALSE
  /\ chip = FreshChip
  /\ asked = [ch \in Channels |-> NoPower]
  /\ sent = TRUE
  /\ reported = {} /\ answer = FALSE

\* phNxpUciHal_open up to the reset of the chip in coreInitialization.  The
\* globals of the caps and the remembered tx power are not reset.
Open ==
  /\ halStatus = "CLOSE" /\ opens < MaxOpens
  /\ NxpConfig_Init
  /\ rt_settings' = Zeroed
  /\ opens' = opens + 1
  /\ \/ /\ halStatus' = "OPEN"
        /\ chip' = FreshChip
        /\ asked' = [ch \in Channels |-> NoPower]
        /\ sent' = TRUE
        /\ reported' = {}
     \/ UNCHANGED <<halStatus, chip, asked, sent, reported>>   \* the transport fails
  /\ UNCHANGED <<api, country, governing, isCountryCodeMapCreated, conf_map, gtx_power, idx, found,
                 answer>>

Close ==
  /\ api = "idle" /\ halStatus = "OPEN"
  /\ halStatus' = "CLOSE"
  /\ rt_settings' = Zeroed
  /\ NxpConfig_Deinit
  /\ country' = NoCountry
  /\ UNCHANGED <<api, opens, governing, isCountryCodeMapCreated, conf_map, gtx_power, idx, found,
                 chip, asked, sent, host>>

-----------------------------------------------------------------------------
(* The handler.  A command of the wrong length counts as country "00".  A  *)
(* code of the region that is loaded already loads nothing: the settings   *)
(* stay those of the code that was loaded.                                 *)

handle_set_country_code(c) ==
  /\ api = "idle" /\ halStatus = "OPEN"
  /\ country' = c
  /\ NxpConfig_SetCountryCode(c)
  /\ IF sameRegion(c)
     THEN api' = "answer" /\ UNCHANGED <<governing, sent>>
     ELSE api' = "load" /\ governing' = c /\ sent' = TRUE
  /\ reported' = {}
  /\ UNCHANGED <<hal, applying, asked, answer, chip>>

Caps == value("UWB_COUNTRY_CODE_CAPS")
capsProvided == find("UWB_COUNTRY_CODE_CAPS") /\ Caps # <<>>

\* Mutant: The file alone decides.
AnyCode ==
  [uwb_enable |-> GetNum("cal.uwb_disable", 0) = 0,
   restricted |-> GetNum("cal.restricted_channels", {}),
   offset     |-> 0]

\* With caps the settings are reset; without, restrictions apply unless a map
\* exists already.
restrictions ==
  [uwb_enable |-> GetNum("cal.uwb_disable", 0) = 0 /\ country \in ValidCodes,
   restricted |-> GetNum("cal.restricted_channels", {}),
   offset     |-> 0]

Load ==
  /\ api = "load"
  /\ idx' = 1
  /\ found' = FALSE
  /\ IF capsProvided
     THEN /\ isCountryCodeMapCreated' = FALSE
          /\ rt_settings' = Reset
          /\ api' = "caps"
     ELSE /\ UNCHANGED isCountryCodeMapCreated
          /\ rt_settings' = IF isCountryCodeMapCreated THEN rt_settings ELSE restrictions
          /\ api' = IF ~isCountryCodeMapCreated /\ rt_settings'.uwb_enable
                    THEN "power" ELSE "answer"
  /\ UNCHANGED <<configVars, hal, conf_map, gtx_power, ghosts, host, chip>>

\* One entry of phNxpUciHal_applyCountryCaps.
withEntry(rt, tlv) ==
  CASE tlv.tag = "UWB_ENABLE" -> [rt EXCEPT !.uwb_enable = tlv.value]
    [] tlv.tag = "CHANNEL_5" /\ ~tlv.value -> [rt EXCEPT !.restricted = @ \cup {5}]
    [] tlv.tag = "CHANNEL_9" /\ ~tlv.value -> [rt EXCEPT !.restricted = @ \cup {9}]
    [] tlv.tag = "TX_POWER" -> [rt EXCEPT !.offset = tlv.value]
    [] OTHER -> rt

\* Mutant: The code of the next country does not end the entries of this one.
FoundForEver ==
  /\ api = "caps" /\ idx <= Len(Caps)
  /\ idx' = idx + 1
  /\ rt_settings' = IF found THEN withEntry(rt_settings, Caps[idx]) ELSE rt_settings
  /\ found' = (found \/ (Caps[idx].tag = "COUNTRY_CODE" /\ Caps[idx].value = country))
  /\ api' = IF found /\ Caps[idx].tag = "TX_POWER" THEN "offset" ELSE "caps"
  /\ UNCHANGED <<configVars, hal, isCountryCodeMapCreated, conf_map, gtx_power, ghosts, host, chip>>

applyCountryCaps ==
  /\ api = "caps" /\ idx <= Len(Caps)
  /\ idx' = idx + 1
  /\ rt_settings' = IF found THEN withEntry(rt_settings, Caps[idx]) ELSE rt_settings
  /\ found' = IF Caps[idx].tag = "COUNTRY_CODE" THEN Caps[idx].value = country ELSE found
  /\ api' = IF found /\ Caps[idx].tag = "TX_POWER" THEN "offset" ELSE "caps"
  /\ UNCHANGED <<configVars, hal, isCountryCodeMapCreated, conf_map, gtx_power, ghosts, host, chip>>

\* The remembered calibration is adjusted and sent, and adjusted on its way.
setCalibParamTxPower ==
  /\ api = "offset"
  /\ LET updated == updateTxPower(gtx_power, rt_settings.offset)
         seen    == updateTxPower(updated, rt_settings.offset)
     IN  IF gtx_power = Empty THEN UNCHANGED <<chip, sent, asked>>
         ELSE Answered([chip EXCEPT !.power[seen.channel] = seen.power],
                       seen.channel, asked[seen.channel])
  /\ gtx_power' = Empty
  /\ api' = "caps"
  /\ UNCHANGED <<configVars, hal, rt_settings, isCountryCodeMapCreated, conf_map, idx, found,
                 country, governing, host>>

\* Mutant: Channel 9 is not masked.
OnlyChannel5 ==
  /\ api = "caps" /\ idx > Len(Caps)
  /\ rt_settings' = [rt_settings EXCEPT !.uwb_enable = @ /\ country \in ValidCodes]
  /\ conf_map' = Channels \ (rt_settings.restricted \cap {5})
  /\ isCountryCodeMapCreated' = TRUE
  /\ api' = "answer"
  /\ UNCHANGED <<configVars, hal, gtx_power, idx, found, ghosts, host, chip>>

capsApplied ==
  /\ api = "caps" /\ idx > Len(Caps)
  /\ rt_settings' = [rt_settings EXCEPT !.uwb_enable = @ /\ country \in ValidCodes]
  /\ conf_map' = Channels \ (rt_settings.restricted \cap Restrictable)
  /\ isCountryCodeMapCreated' = TRUE
  /\ api' = "answer"
  /\ UNCHANGED <<configVars, hal, gtx_power, idx, found, ghosts, host, chip>>

-----------------------------------------------------------------------------
(* The calibrations of the files, when there are no caps.                   *)

extcal_do_tx_power ==
  /\ api = "power"
  /\ LET ch  == cal_channels[idx]
         key == TxPowerKey(ch)
     IN  \/ /\ ~find(key)
            /\ UNCHANGED <<gtx_power, chip, sent, asked>>
         \/ /\ find(key) /\ value(key) = Malformed
            /\ sent' = FALSE
            /\ UNCHANGED <<gtx_power, chip, asked>>
         \/ /\ find(key) /\ value(key) # Malformed
            /\ SendTxPower([channel |-> ch, power |-> value(key)], rt_settings.offset, NoPower)
  /\ IF idx < Len(cal_channels)
     THEN idx' = idx + 1 /\ UNCHANGED api
     ELSE api' = "shape" /\ UNCHANGED idx
  /\ UNCHANGED <<configVars, hal, rt_settings, isCountryCodeMapCreated, conf_map, found,
                 country, governing, host>>

extcal_do_tx_pulse_shape ==
  /\ api = "shape"
  /\ IF find("cal.tx_pulse_shape") THEN Send([chip EXCEPT !.shape = value("cal.tx_pulse_shape")])
     ELSE UNCHANGED <<chip, sent>>
  /\ api' = "tone"
  /\ UNCHANGED <<configVars, hal, applying, country, governing, asked, host>>

\* Mutant: A failed tone configuration is ignored.
ToneIgnored ==
  /\ api = "tone"
  /\ found' = (GetNum("cal.ddfs_enable", 0) = 1 /\ find("cal.ddfs_tone_config"))
  /\ IF found' THEN Send([chip EXCEPT !.tone = value("cal.ddfs_tone_config")])
     ELSE UNCHANGED <<chip, sent>>
  /\ api' = "baseband"
  /\ UNCHANGED <<configVars, hal, rt_settings, isCountryCodeMapCreated, conf_map, gtx_power, idx,
                 country, governing, asked, host>>

\* DDFS is asked for only when the chip has taken a tone configuration.
ddfsToneConfig ==
  /\ api = "tone"
  /\ IF GetNum("cal.ddfs_enable", 0) = 1 /\ find("cal.ddfs_tone_config")
     THEN \E ok \in BOOLEAN : /\ Sent([chip EXCEPT !.tone = value("cal.ddfs_tone_config")], ok)
                             /\ found' = ok
     ELSE found' = FALSE /\ UNCHANGED <<chip, sent>>
  /\ api' = "baseband"
  /\ UNCHANGED <<configVars, hal, rt_settings, isCountryCodeMapCreated, conf_map, gtx_power, idx,
                 country, governing, asked, host>>

txBaseBandControl ==
  /\ api = "baseband"
  /\ Send([chip EXCEPT !.ddfs = found, !.dc = GetNum("cal.dc_suppress", 0) = 1])
  /\ api' = "answer"
  /\ UNCHANGED <<configVars, hal, applying, country, governing, asked, host>>

Answer ==
  /\ api = "answer"
  /\ answer' = rt_settings.uwb_enable
  /\ api' = "idle"
  /\ UNCHANGED <<configVars, hal, applying, ghosts, reported, chip>>

-----------------------------------------------------------------------------
(* Commands of the host that meet what the country has set.                 *)

\* SET_CALIBRATION of a tx power.
processCalibParamTxPowerPerAntenna(calibration) ==
  /\ api = "idle" /\ halStatus = "OPEN"
  /\ SendTxPower(calibration, rt_settings.offset, calibration.power)
  /\ UNCHANGED <<configVars, api, hal, rt_settings, isCountryCodeMapCreated, conf_map, idx, found,
                 country, governing, host>>

\* CORE_GET_CAPS_INFO of a chip that supports every channel.
getCapsInfo ==
  /\ api = "idle" /\ halStatus = "OPEN"
  /\ reported' = IF isCountryCodeMapCreated THEN Channels \cap conf_map ELSE Channels
  /\ UNCHANGED <<configVars, api, hal, applying, ghosts, answer, chip>>

Next ==
  \/ Open \/ Close
  \/ \E c \in Codes : handle_set_country_code(c)
  \/ Load \/ applyCountryCaps \/ setCalibParamTxPower \/ capsApplied
  \/ extcal_do_tx_power \/ extcal_do_tx_pulse_shape \/ ddfsToneConfig \/ txBaseBandControl
  \/ Answer
  \/ \E calibration \in Powers : processCalibParamTxPowerPerAntenna(calibration)
  \/ getCapsInfo

Spec == Init /\ [][Next]_vars

-----------------------------------------------------------------------------
(* What the files say, without the cascade: the reference.                  *)

File(d, path) == IF path \in DOMAIN d THEN d[path] ELSE NoParams
MainFile(d)   == File(d, <<"main">>)
Named(d, parameter, default) ==
  IF parameter \in DOMAIN MainFile(d) THEN MainFile(d)[parameter] ELSE default

RegionMap(d) ==
  IF "REGION_MAP_PATH" \in DOMAIN MainFile(d)
  THEN File(d, <<MainFile(d)["REGION_MAP_PATH"]>>) ELSE NoParams

RegionOf(d, c) ==
  LET mine == {r \in DOMAIN RegionMap(d) : c \in RegionMap(d)[r] \cap UpperCodes}
  IN  IF mine = {} THEN c ELSE CHOOSE r \in mine : TRUE

\* The first of the newest caps files.
CapsFile(d) ==
  LET places == Named(d, "COUNTRY_CODE_CAP_FILE_LOCATION", <<>>)
      at(i)  == File(d, <<places[i]>>)
      dated  == {i \in DOMAIN places : "VERSION" \in DOMAIN at(i) /\ at(i)["VERSION"] >= 0}
      newest == {i \in dated : \A j \in dated :
                   /\ at(j)["VERSION"] <= at(i)["VERSION"]
                   /\ at(j)["VERSION"] = at(i)["VERSION"] => i <= j}
  IN  IF newest = {} THEN NoParams ELSE at(CHOOSE i \in newest : TRUE)

ExtraFile(d, region, i) ==
  LET template == Named(d, "EXTRA_CONF_PATHS", <<>>)[i]
  IN  File(d, IF template.country THEN <<template.path, region>> ELSE <<template.path>>)

Extras(d, region, name) ==
  {i \in DOMAIN Named(d, "EXTRA_CONF_PATHS", <<>>) : name \in DOMAIN ExtraFile(d, region, i)}

\* The newest caps file, else the extra file with the highest number that has
\* the parameter, else the main file, else the UCI file: a set of at most one
\* value.  Without a main file nothing is loaded.
Says(d, c, name) ==
  LET extras == Extras(d, RegionOf(d, c), name)
      last   == CHOOSE i \in extras : \A j \in extras : j <= i
      uci    == File(d, <<"uci">>)
  IN  IF ~isValid(MainFile(d)) THEN {}
      ELSE IF name \in DOMAIN CapsFile(d) THEN {CapsFile(d)[name]}
      ELSE IF extras # {} THEN {ExtraFile(d, RegionOf(d, c), last)[name]}
      ELSE IF name \in DOMAIN MainFile(d) THEN {MainFile(d)[name]}
      ELSE IF name \in DOMAIN uci THEN {uci[name]}
      ELSE {}

CapsOf(d, c) == Says(d, c, "UWB_COUNTRY_CODE_CAPS") \ {<<>>}

\* The entries of a country are those after its code and before the next.
EntriesOf(list, c) ==
  {k \in DOMAIN list : \E j \in 1..(k - 1) :
     /\ list[j].tag = "COUNTRY_CODE" /\ list[j].value = c
     /\ \A between \in (j + 1)..k : list[between].tag # "COUNTRY_CODE"}

\* A channel is restricted when any entry says so; UWB is off when the last
\* entry about it says so.
DeniedBy(list, own, tag) == {k \in own : list[k].tag = tag /\ ~list[k].value}
Disabled(list, own) ==
  \E k \in DeniedBy(list, own, "UWB_ENABLE") :
    \A l \in own : list[l].tag = "UWB_ENABLE" => l <= k
RestrictedBy(list, own) ==
  {ch \in Restrictable :
     DeniedBy(list, own, IF ch = 5 THEN "CHANNEL_5" ELSE "CHANNEL_9") # {}}

PolicyOf(d, c) ==
  LET caps == CapsOf(d, c)
      list == CHOOSE l \in caps : TRUE
  IN  IF caps # {}
      THEN [enabled    |-> c \in ValidCodes /\ ~Disabled(list, EntriesOf(list, c)),
            restricted |-> RestrictedBy(list, EntriesOf(list, c))]
      ELSE [enabled    |-> c \in ValidCodes /\ Says(d, c, "cal.uwb_disable") \subseteq {0},
            restricted |-> UNION Says(d, c, "cal.restricted_channels")]

\* Other files are named by the main file (config/README.md:19, 67, 87), and the
\* empty code, which stands for no country, is not used.
ASSUME NamesAssumption ==
  /\ "" \notin Codes
  /\ \A d \in Disks :
       /\ \A path \in DOMAIN d \ {<<"main">>} :
            DOMAIN d[path] \cap {"COUNTRY_CODE_CAP_FILE_LOCATION", "REGION_MAP_PATH"} = {}
       /\ \A path \in DOMAIN d : "" \notin DOMAIN d[path]
       /\ \A path \in DOMAIN d :
            /\ "VERSION" \in DOMAIN d[path] => d[path]["VERSION"] \in Int
            /\ "COUNTRY_CODE_CAP_FILE_LOCATION" \in DOMAIN d[path] =>
                 d[path]["COUNTRY_CODE_CAP_FILE_LOCATION"] \in Seq(STRING)

Policy == INSTANCE CountryPolicy WITH
  Codes     <- Codes,
  Devices   <- Disks,
  PolicyOf  <- PolicyOf,
  RegionOf  <- RegionOf,
  device    <- disk,
  country   <- country,
  governing <- governing,
  working   <- api # "idle",
  settings  <- IF api = "idle"
              THEN [enabled |-> rt_settings.uwb_enable, restricted |-> rt_settings.restricted]
              ELSE [enabled |-> FALSE, restricted |-> {-1}],
  answer    <- answer

-----------------------------------------------------------------------------
(* Properties.                                                             *)

Calibrations == 0..(PowerRange - 1)
Steps == {"idle", "load", "caps", "offset", "power", "shape", "tone", "baseband", "answer"}

\* The type of the variables; a tx power on the chip fits its sixteen bits
\* whatever offset the country adds (phNxpUciHal_updateTxPower).
TypeOK ==
  /\ api \in Steps /\ halStatus \in {"CLOSE", "OPEN"} /\ opens \in 0..MaxOpens
  /\ country \in Codes \cup {NoCountry} /\ governing \in Codes \cup {NoCountry}
  /\ rt_settings \in [uwb_enable : BOOLEAN, restricted : SUBSET Nat, offset : Int]
  /\ isCountryCodeMapCreated \in BOOLEAN /\ found \in BOOLEAN
  /\ sent \in BOOLEAN /\ answer \in BOOLEAN
  /\ conf_map \subseteq Channels /\ reported \subseteq Channels
  /\ idx \in Nat \ {0}
  /\ gtx_power \in {Empty} \cup [channel : Channels, power : Calibrations]
  /\ chip.power \in [Channels -> Calibrations \cup {Default}]
  /\ asked \in [Channels -> Calibrations \cup {NoPower, Unknown}]

\* Whatever countries were set before, over however many opens, the answer to
\* ANDROID_SET_COUNTRY_CODE and the settings left behind are those the files
\* give for the last country, or for the first of its region since another
\* region was set (the cascade, the rereading of the country's files, the scan
\* of the caps): the abstract specification.
PolicySpec == Policy!Spec

\* No country code but a valid one leaves UWB on.
UwbOnlyForValidCountry ==
  api = "idle" /\ rt_settings.uwb_enable => country \in ValidCodes

\* A capability response never offers a channel that the caps deny the country
\* loaded last and the HAL would block, also when the HAL was closed and opened
\* since, which keeps the map but not the settings.
CapsWithinRestrictions ==
  api = "idle" /\ governing # NoCountry /\ CapsOf(disk, governing) # {} =>
    reported \cap PolicyOf(disk, governing).restricted = {}

\* DDFS is never on in a chip that has no tone configuration, whichever of the
\* two commands failed.
DdfsHasTone == chip.ddfs => chip.tone # Default

Calibrated ==
  /\ api = "idle" /\ halStatus = "OPEN" /\ country # NoCountry
  /\ sent /\ rt_settings.uwb_enable /\ ~isCountryCodeMapCreated

\* When every command was answered well, the chip has each tx power and the
\* pulse shape that the files give for the last country, except where the host
\* has set another power since, and DDFS and DC suppression are on exactly when
\* they say so.  Where they give no power or shape nothing is sent, and the chip
\* may keep an earlier country's.
ChipMatchesFiles ==
  Calibrated =>
    LET says(name) == Says(disk, country, name)
    IN  /\ \A ch \in Channels :
             asked[ch] = NoPower => says(TxPowerKey(ch)) \subseteq {chip.power[ch]}
        /\ says("cal.tx_pulse_shape") \subseteq {chip.shape}
        /\ chip.ddfs <=> 1 \in says("cal.ddfs_enable") /\ says("cal.ddfs_tone_config") # {}
        /\ chip.ddfs => says("cal.ddfs_tone_config") = {chip.tone}
        /\ chip.dc <=> 1 \in says("cal.dc_suppress")

=============================================================================
