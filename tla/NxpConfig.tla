------------------------------ MODULE NxpConfig ------------------------------
(***************************************************************************)
(* The cascade of configuration files of phNxpConfig.cc: which files are   *)
(* read, when they are read again, and which of them answers a lookup.     *)
(*                                                                         *)
(* A file is what readConfig makes of its text: a function from parameter  *)
(* names to values.  Paths are tuples: <<p>> is a file, <<p, r>> the file  *)
(* that a path p with "<country>" in it stands for when the region is r.   *)
(***************************************************************************)
EXTENDS Integers, Sequences, FiniteSets

CONSTANTS
  Disks,       \* the file systems a device may be delivered with
  Codes,       \* two-letter codes the host may send
  ValidCodes,  \* those is_valid_country_code accepts
  UpperCodes   \* those made of two upper-case letters

ASSUME CodesAssumption == UpperCodes \subseteq ValidCodes /\ ValidCodes \subseteq Codes

\* No parameter or region is named like an invalid code, and the file of one
\* country holds no table of all.
ASSUME DisksAssumption ==
  \A d \in Disks : \A path \in DOMAIN d :
    /\ path \in Seq(STRING)
    /\ "EXTRA_CONF_PATHS" \in DOMAIN d[path] =>
         d[path]["EXTRA_CONF_PATHS"] \in Seq([path : STRING, country : BOOLEAN])
    /\ DOMAIN d[path] \cap (Codes \ ValidCodes) = {}
    /\ Len(path) = 2 => "UWB_COUNTRY_CODE_CAPS" \notin DOMAIN d[path]

VARIABLES
  disk,            \* the file system of this device
  mMainConfig,     \* libuwb-nxp.conf
  mUciConfig,      \* libuwb-uci.conf
  mExtraConfig,    \* EXTRA_CONF_PATH_[1..10], in this order
  mCapsConfig,     \* the libuwb-countrycode.conf with the highest VERSION
  mRegionMap,      \* region |-> its country codes
  mCurRegionCode

files == <<mMainConfig, mUciConfig, mExtraConfig, mCapsConfig, mRegionMap>>
configVars == <<disk, files, mCurRegionCode>>

-----------------------------------------------------------------------------
(* One file.                                                               *)

NoParams == [name \in {} |-> name]

isValid(map) == DOMAIN map # {}

\* The previous content is dropped before the file is opened.
readConfig(path) == IF path \in DOMAIN disk THEN disk[path] ELSE NoParams

\* A path with "<country>" in it is read when a country is set.
CUwbNxpConfig(template) ==
  [path    |-> template.path,
   country |-> template.country,
   map     |-> IF template.country THEN NoParams ELSE readConfig(<<template.path>>)]

setCountry(config, region) ==
  IF config.country
  THEN [config EXCEPT !.map = readConfig(<<config.path, region>>)]
  ELSE config

-----------------------------------------------------------------------------
(* The cascade.  A lookup takes the first layer that has the parameter.     *)

\* Mutant: the first extra file wins.
FirstExtra(caps, extra, main, uci) ==
  <<caps>> \o [i \in 1..Len(extra) |-> extra[i].map] \o <<main, uci>>

Layers(caps, extra, main, uci) ==
  <<caps>> \o [i \in 1..Len(extra) |-> extra[Len(extra) + 1 - i].map] \o <<main, uci>>

Hits(layers, name) == {i \in DOMAIN layers : name \in DOMAIN layers[i]}

valueIn(layers, name) ==
  LET first == CHOOSE i \in Hits(layers, name) : \A j \in Hits(layers, name) : i <= j
  IN  layers[first][name]

Cascade == Layers(mCapsConfig, mExtraConfig, mMainConfig, mUciConfig)

find(name) == Hits(Cascade, name) # {}
value(name) == valueIn(Cascade, name)

\* The numeric parameters have a default that the caller puts in first.
GetNum(name, default) == IF find(name) THEN value(name) ELSE default

-----------------------------------------------------------------------------
(* Loading.                                                                *)

\* The first of the files with the highest version above -1, if there is one.
PickCaps(locations) ==
  LET version(i) == LET map == readConfig(<<locations[i]>>)
                    IN  IF "VERSION" \in DOMAIN map THEN map["VERSION"] ELSE -2
      best == {i \in DOMAIN locations :
                 /\ version(i) > -1
                 /\ \A j \in DOMAIN locations : version(j) <= version(i)
                 /\ \A j \in 1..(i - 1) : version(j) < version(i)}
  IN  IF best = {} THEN NoParams
      ELSE readConfig(<<locations[CHOOSE i \in best : TRUE]>>)

\* Tokens that are no two upper-case letters are left out; regions that are
\* there already get the new codes in addition.
loadMapping(map, file) ==
  [region \in DOMAIN map \cup DOMAIN file |->
     (IF region \in DOMAIN map THEN map[region] ELSE {})
       \cup (IF region \in DOMAIN file THEN file[region] \cap UpperCodes ELSE {})]

xlateCountryCode(code) ==
  LET regions == {r \in DOMAIN mRegionMap : code \in mRegionMap[r]}
  IN  IF regions = {} THEN code ELSE CHOOSE r \in regions : TRUE

\* Those with neither a country nor a parameter, which the code leaves out,
\* answer no lookup.
ExtraConfigs(main) ==
  LET all == IF "EXTRA_CONF_PATHS" \in DOMAIN main THEN main["EXTRA_CONF_PATHS"] ELSE <<>>
  IN  [i \in 1..Len(all) |-> CUwbNxpConfig(all[i])]

NxpConfig_Init ==
  LET main   == readConfig(<<"main">>)
      uci    == readConfig(<<"uci">>)
      extra  == mExtraConfig \o ExtraConfigs(main)
      before == Layers(mCapsConfig, extra, main, mUciConfig')
      picked == IF Hits(before, "COUNTRY_CODE_CAP_FILE_LOCATION") = {} THEN NoParams
                ELSE PickCaps(valueIn(before, "COUNTRY_CODE_CAP_FILE_LOCATION"))
      layers == Layers(mCapsConfig', extra, main, mUciConfig')
      region == IF Hits(layers, "REGION_MAP_PATH") = {} THEN NoParams
                ELSE readConfig(<<valueIn(layers, "REGION_MAP_PATH")>>)
  IN  /\ IF isValid(main)
         THEN /\ mMainConfig' = main
              /\ mUciConfig' = IF isValid(uci) THEN uci ELSE mUciConfig
              /\ mExtraConfig' = extra
              /\ mCapsConfig' = IF isValid(picked) THEN picked ELSE mCapsConfig
              /\ mRegionMap' = loadMapping(mRegionMap, region)
         ELSE UNCHANGED files
      /\ UNCHANGED <<disk, mCurRegionCode>>

NxpConfig_Deinit ==
  /\ mMainConfig' = NoParams
  /\ mUciConfig' = NoParams
  /\ mExtraConfig' = <<>>
  /\ mCapsConfig' = NoParams
  /\ mRegionMap' = NoParams
  /\ mCurRegionCode' = ""
  /\ UNCHANGED disk

\* The files of the country are read again only when the region changes.
sameRegion(code) == xlateCountryCode(code) = mCurRegionCode

NxpConfig_SetCountryCode(code) ==
  LET region == xlateCountryCode(code)
  IN  /\ mCurRegionCode' = region
      /\ mExtraConfig' = IF sameRegion(code) THEN mExtraConfig
                         ELSE [i \in DOMAIN mExtraConfig |-> setCountry(mExtraConfig[i], region)]
      /\ UNCHANGED <<disk, mMainConfig, mUciConfig, mCapsConfig, mRegionMap>>

ConfigInit ==
  /\ disk \in Disks
  /\ mMainConfig = NoParams
  /\ mUciConfig = NoParams
  /\ mExtraConfig = <<>>
  /\ mCapsConfig = NoParams
  /\ mRegionMap = NoParams
  /\ mCurRegionCode = ""
=============================================================================
