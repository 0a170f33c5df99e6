---------------------------- MODULE CountryProofs ----------------------------
(***************************************************************************)
(* Theorems about CountryCode: its type invariant, that only a valid       *)
(* country leaves UWB on, and that DDFS is never on without its tone.      *)
(***************************************************************************)
EXTENDS CountryCode, SequenceTheorems, WellFoundedInduction, TLAPS

CapsName == "UWB_COUNTRY_CODE_CAPS"

\* What reading a file may give.
Contents == {NoParams} \cup UNION {{d[path] : path \in DOMAIN d} : d \in Disks}

Configs == [path : STRING, country : BOOLEAN, map : Contents]

\* The loaded files: every layer was read from the disk, no file of a single
\* country holds caps, and regions have no invalid codes.
FilesInv ==
  /\ disk \in Disks
  /\ mMainConfig \in Contents /\ mUciConfig \in Contents /\ mCapsConfig \in Contents
  /\ mExtraConfig \in Seq(Configs)
  /\ \A i \in DOMAIN mExtraConfig :
       mExtraConfig[i].country => CapsName \notin DOMAIN mExtraConfig[i].map
  /\ \A r \in DOMAIN mRegionMap : mRegionMap[r] \subseteq UpperCodes /\ r \notin Codes \ ValidCodes

-----------------------------------------------------------------------------
(* The cascade.                                                             *)

LEMMA Reading ==
  ASSUME disk \in Disks, NEW path
  PROVE  readConfig(path) \in Contents
BY DEF readConfig, Contents

LEMMA CountryReading ==
  ASSUME disk \in Disks, NEW path, NEW region
  PROVE  CapsName \notin DOMAIN readConfig(<<path, region>>)
<1>1. CASE <<path, region>> \in DOMAIN disk
  <2>1. Len(<<path, region>>) = 2
    OBVIOUS
  <2> QED BY <1>1, <2>1, DisksAssumption DEF readConfig, CapsName
<1>2. CASE <<path, region>> \notin DOMAIN disk
  BY <1>2 DEF readConfig, NoParams
<1> QED BY <1>1, <1>2

\* The layers in their order, with n extra files.
Stacked(layers, n, caps, extra, main, uci) ==
  /\ layers \in Seq(Contents) /\ n \in Nat
  /\ DOMAIN layers = 1..(n + 3)
  /\ layers[1] = caps /\ layers[n + 2] = main /\ layers[n + 3] = uci
  /\ \A i \in 2..(n + 1) : layers[i] = extra[n + 2 - i].map

LEMMA LayersShape ==
  ASSUME NEW caps \in Contents, NEW extra \in Seq(Configs), NEW main \in Contents,
         NEW uci \in Contents
  PROVE  Stacked(Layers(caps, extra, main, uci), Len(extra), caps, extra, main, uci)
<1> DEFINE n == Len(extra)
           layers == Layers(caps, extra, main, uci)
<1> DEFINE maps == [i \in 1..n |-> extra[n + 1 - i].map]
<1>1. n \in Nat /\ \A i \in 1..n : extra[i] \in Configs
  BY LenProperties, ElementOfSeq
<1>2. maps \in Seq(Contents) /\ Len(maps) = n
  <2>1. \A i \in 1..n : extra[n + 1 - i].map \in Contents
    BY <1>1 DEF Configs
  <2>2. maps \in [1..n -> Contents]
    BY <2>1
  <2> QED BY <1>1, <2>2
<1>3. <<caps>> \in Seq(Contents) /\ <<main, uci>> \in Seq(Contents)
  OBVIOUS
<1> DEFINE rest == maps \o <<main, uci>>
<1> HIDE DEF maps
<1>4. /\ rest \in Seq(Contents) /\ Len(rest) = n + 2
      /\ \A i \in 1..(n + 2) : rest[i] = IF i <= n THEN maps[i] ELSE <<main, uci>>[i - n]
  BY <1>1, <1>2, <1>3, ConcatProperties
<1> HIDE DEF rest
<1>5. /\ <<caps>> \o rest \in Seq(Contents) /\ Len(<<caps>> \o rest) = n + 3
      /\ \A i \in 1..(n + 3) :
           (<<caps>> \o rest)[i] = IF i <= 1 THEN <<caps>>[i] ELSE rest[i - 1]
  BY <1>1, <1>3, <1>4, ConcatProperties
<1>6. Layers(caps, extra, main, uci) = <<caps>> \o rest
  <2>1. Layers(caps, extra, main, uci) = (<<caps>> \o maps) \o <<main, uci>>
    BY DEF Layers, maps
  <2>2. (<<caps>> \o maps) \o <<main, uci>> = <<caps>> \o (maps \o <<main, uci>>)
    BY <1>2, <1>3, ConcatAssociative
  <2> QED BY <2>1, <2>2 DEF rest
<1> HIDE DEF layers, n
<1>7. layers \in Seq(Contents) /\ DOMAIN layers = 1..(n + 3)
  BY <1>1, <1>5, <1>6, LenProperties DEF layers
<1>8. layers[1] = caps
  BY <1>1, <1>5, <1>6 DEF layers
<1>9. layers[n + 2] = main /\ layers[n + 3] = uci
  <2>1. layers[n + 2] = rest[n + 1] /\ layers[n + 3] = rest[n + 2]
    BY <1>1, <1>5, <1>6 DEF layers
  <2>2. rest[n + 1] = <<main, uci>>[1] /\ rest[n + 2] = <<main, uci>>[2]
    BY <1>1, <1>4
  <2> QED BY <2>1, <2>2
<1>10. ASSUME NEW i \in 2..(n + 1) PROVE layers[i] = extra[n + 2 - i].map
  <2>1. layers[i] = rest[i - 1]
    BY <1>1, <1>5, <1>6 DEF layers
  <2>2. rest[i - 1] = maps[i - 1]
    BY <1>1, <1>4
  <2>3. maps[i - 1] = extra[n + 1 - (i - 1)].map
    BY <1>1 DEF maps
  <2>4. n + 1 - (i - 1) = n + 2 - i
    BY <1>1
  <2> QED BY <2>1, <2>2, <2>3, <2>4
<1> QED BY <1>1, <1>7, <1>8, <1>9, <1>10 DEF Stacked, layers, n

LEMMA Smallest ==
  ASSUME NEW T, T \subseteq Nat, T # {}
  PROVE  \E x \in T : \A y \in T : x <= y
<1> DEFINE less == {ss \in Nat \X Nat : ss[1] < ss[2]}
<1>1. IsWellFoundedOn(less, Nat)
  BY NatLessThanWellFounded DEF OpToRel
<1> HIDE DEF less
<1>2. PICK x \in T : \A y \in T : ~ (<<y, x>> \in less)
  BY <1>1, WFMin
<1>3. ASSUME NEW y \in T PROVE x <= y
  <2>1. <<y, x>> \notin less
    BY <1>2
  <2> QED BY <2>1 DEF less
<1> QED BY <1>3

\* A lookup that hits returns what the file of the first hit says.
LEMMA Lookup ==
  ASSUME NEW layers \in Seq(Contents), NEW name, Hits(layers, name) # {}
  PROVE  LET first == CHOOSE i \in Hits(layers, name) : \A j \in Hits(layers, name) : i <= j
         IN  /\ first \in Hits(layers, name)
             /\ layers[first] \in Contents /\ name \in DOMAIN layers[first]
             /\ valueIn(layers, name) = layers[first][name]
<1> DEFINE hits == Hits(layers, name)
           first == CHOOSE i \in hits : \A j \in hits : i <= j
<1>1. hits \subseteq 1..Len(layers) /\ Len(layers) \in Nat
  BY LenProperties DEF Hits
<1>2. \E i \in hits : \A j \in hits : i <= j
  BY <1>1, Smallest
<1>3. first \in hits
  BY <1>2
<1>4. layers[first] \in Contents /\ name \in DOMAIN layers[first]
  BY <1>1, <1>3, ElementOfSeq DEF Hits
<1> QED BY <1>3, <1>4 DEF valueIn

LEMMA Found ==
  ASSUME FilesInv, NEW name, find(name)
  PROVE  \E f \in Contents : name \in DOMAIN f /\ value(name) = f[name]
<1>1. Cascade \in Seq(Contents)
  BY LayersShape DEF Cascade, FilesInv, Stacked
<1> QED BY <1>1, Lookup DEF find, value

\* What a lookup of a typed parameter may return.
LEMMA Values ==
  ASSUME NEW f \in Contents, NEW name \in DOMAIN f
  PROVE  /\ name = CapsName => f[name] \in Seq(Entries)
         /\ name = "cal.restricted_channels" => f[name] \in SUBSET Nat
         /\ name \in TxPowerKeys => f[name] \in {Malformed} \cup 0..(PowerRange - 1)
         /\ name = "cal.ddfs_tone_config" => f[name] # Default
<1>1. f # NoParams
  <2>1. DOMAIN NoParams = {}
    BY DEF NoParams
  <2> QED BY <2>1
<1>2. PICK d \in Disks : \E path \in DOMAIN d : f = d[path]
  BY <1>1 DEF Contents
<1> QED BY <1>2, ValuesAssumption DEF CapsName

LEMMA CapsTyped ==
  ASSUME FilesInv, capsProvided
  PROVE  Caps \in Seq(Entries)
BY Found, Values DEF capsProvided, Caps, CapsName

LEMMA RestrictedTyped ==
  ASSUME FilesInv
  PROVE  GetNum("cal.restricted_channels", {}) \in SUBSET Nat
<1>1. CASE find("cal.restricted_channels")
  BY <1>1, Found, Values DEF GetNum
<1>2. CASE ~find("cal.restricted_channels")
  BY <1>2 DEF GetNum
<1> QED BY <1>1, <1>2

LEMMA PowersTyped ==
  ASSUME FilesInv, NEW name \in TxPowerKeys, find(name), value(name) # Malformed
  PROVE  value(name) \in 0..(PowerRange - 1)
BY Found, Values

-----------------------------------------------------------------------------
(* Opening, closing and setting a country.                                  *)

LEMMA ExtraTyped ==
  ASSUME disk \in Disks, NEW main \in Contents
  PROVE  /\ ExtraConfigs(main) \in Seq(Configs)
         /\ \A i \in DOMAIN ExtraConfigs(main) :
              ExtraConfigs(main)[i].country => CapsName \notin DOMAIN ExtraConfigs(main)[i].map
<1> DEFINE all == IF "EXTRA_CONF_PATHS" \in DOMAIN main THEN main["EXTRA_CONF_PATHS"] ELSE <<>>
           Templates == [path : STRING, country : BOOLEAN]
<1>1. all \in Seq(Templates)
  <2>1. CASE "EXTRA_CONF_PATHS" \in DOMAIN main
    <3>1. PICK d \in Disks : \E path \in DOMAIN d : main = d[path]
      BY <2>1 DEF Contents, NoParams
    <3> QED BY <2>1, <3>1, DisksAssumption
  <2>2. CASE "EXTRA_CONF_PATHS" \notin DOMAIN main
    BY <2>2
  <2> QED BY <2>1, <2>2
<1>2. ExtraConfigs(main) = [i \in 1..Len(all) |-> CUwbNxpConfig(all[i])]
  BY DEF ExtraConfigs
<1> HIDE DEF all
<1>3. Len(all) \in Nat /\ \A i \in 1..Len(all) : all[i] \in Templates
  BY <1>1, LenProperties, ElementOfSeq
<1>4. ASSUME NEW template \in Templates
      PROVE  /\ CUwbNxpConfig(template) \in Configs
             /\ CUwbNxpConfig(template).country => CapsName \notin DOMAIN CUwbNxpConfig(template).map
  <2>1. NoParams \in Contents /\ readConfig(<<template.path>>) \in Contents
    BY Reading DEF Contents
  <2>2. CapsName \notin DOMAIN NoParams
    BY DEF NoParams
  <2> QED BY <2>1, <2>2 DEF CUwbNxpConfig, Configs
<1>5. \A i \in 1..Len(all) : CUwbNxpConfig(all[i]) \in Configs
  BY <1>3, <1>4
<1>6. ExtraConfigs(main) \in [1..Len(all) -> Configs]
  BY <1>2, <1>5
<1>7. ExtraConfigs(main) \in Seq(Configs) /\ DOMAIN ExtraConfigs(main) = 1..Len(all)
  BY <1>3, <1>6
<1> QED BY <1>2, <1>3, <1>4, <1>7

\* An added sequence of extra files keeps what FilesInv says of the extra files.
LEMMA ExtraAppended ==
  ASSUME NEW old \in Seq(Configs), NEW new \in Seq(Configs),
         \A i \in DOMAIN old : old[i].country => CapsName \notin DOMAIN old[i].map,
         \A i \in DOMAIN new : new[i].country => CapsName \notin DOMAIN new[i].map
  PROVE  /\ old \o new \in Seq(Configs)
         /\ \A i \in DOMAIN (old \o new) :
              (old \o new)[i].country => CapsName \notin DOMAIN (old \o new)[i].map
<1> DEFINE both == old \o new
<1>1. Len(old) \in Nat /\ Len(new) \in Nat
      /\ DOMAIN old = 1..Len(old) /\ DOMAIN new = 1..Len(new)
  BY LenProperties
<1>2. /\ both \in Seq(Configs) /\ Len(both) = Len(old) + Len(new)
      /\ \A i \in 1..(Len(old) + Len(new)) :
           both[i] = IF i <= Len(old) THEN old[i] ELSE new[i - Len(old)]
  BY ConcatProperties
<1>3. DOMAIN both = 1..(Len(old) + Len(new))
  BY <1>2, LenProperties
<1> HIDE DEF both
<1>4. ASSUME NEW i \in DOMAIN both, both[i].country PROVE CapsName \notin DOMAIN both[i].map
  <2>1. CASE i <= Len(old)
    <3>1. i \in DOMAIN old /\ both[i] = old[i]
      BY <1>1, <1>2, <1>3, <2>1
    <3> QED BY <1>4, <3>1
  <2>2. CASE ~(i <= Len(old))
    <3>1. i - Len(old) \in DOMAIN new /\ both[i] = new[i - Len(old)]
      BY <1>1, <1>2, <1>3, <2>2
    <3> QED BY <1>4, <3>1
  <2> QED BY <2>1, <2>2
<1> QED BY <1>2, <1>4 DEF both

LEMMA RegionsLoaded ==
  ASSUME NEW map, NEW file \in Contents,
         \A r \in DOMAIN map : map[r] \subseteq UpperCodes /\ r \notin Codes \ ValidCodes
  PROVE  LET loaded == loadMapping(map, file)
         IN  \A r \in DOMAIN loaded :
               loaded[r] \subseteq UpperCodes /\ r \notin Codes \ ValidCodes
<1>1. DOMAIN file \cap (Codes \ ValidCodes) = {}
  <2>1. CASE file = NoParams
    BY <2>1 DEF NoParams
  <2>2. CASE file # NoParams
    <3>1. PICK d \in Disks : \E path \in DOMAIN d : file = d[path]
      BY <2>2 DEF Contents
    <3> QED BY <3>1, DisksAssumption
  <2> QED BY <2>1, <2>2
<1> QED BY <1>1 DEF loadMapping

LEMMA OpenKeepsFiles == FilesInv /\ NxpConfig_Init => FilesInv'
<1> SUFFICES ASSUME FilesInv, NxpConfig_Init PROVE FilesInv'
  OBVIOUS
<1> USE DEF FilesInv
<1>1. CASE UNCHANGED files
  <2>1. disk' = disk
    BY DEF NxpConfig_Init
  <2> QED BY <1>1, <2>1 DEF files
<1>2. CASE ~UNCHANGED files
  <2> DEFINE main == readConfig(<<"main">>)
             extra == mExtraConfig \o ExtraConfigs(main)
  <2>1. NoParams \in Contents
    BY DEF Contents
  <2>2. \A path : readConfig(path) \in Contents
    BY Reading
  <2>3. disk' = disk /\ mMainConfig' = main /\ mExtraConfig' = extra
    BY <1>2 DEF NxpConfig_Init
  <2>4. mMainConfig' \in Contents
    BY <2>2, <2>3
  <2>5. mUciConfig' \in Contents
    BY <1>2, <2>2 DEF NxpConfig_Init
  <2>6. \A locations : PickCaps(locations) \in Contents
    BY <2>1, <2>2 DEF PickCaps
  <2>7. mCapsConfig' \in Contents
    BY <1>2, <2>1, <2>6 DEF NxpConfig_Init
  <2>8. /\ extra \in Seq(Configs)
        /\ \A i \in DOMAIN extra : extra[i].country => CapsName \notin DOMAIN extra[i].map
    BY <2>2, ExtraTyped, ExtraAppended
  <2>9. \E file \in Contents : mRegionMap' = loadMapping(mRegionMap, file)
    BY <1>2, <2>1, <2>2 DEF NxpConfig_Init
  <2>10. \A r \in DOMAIN mRegionMap' :
           mRegionMap'[r] \subseteq UpperCodes /\ r \notin Codes \ ValidCodes
    BY <2>9, RegionsLoaded
  <2> QED BY <2>3, <2>4, <2>5, <2>7, <2>8, <2>10
<1> QED BY <1>1, <1>2

LEMMA NoFiles ==
  /\ NoParams \in Contents /\ DOMAIN NoParams = {}
  /\ <<>> \in Seq(Configs) /\ DOMAIN <<>> = {}
BY EmptySeq, LenProperties DEF NoParams, Contents

LEMMA CloseKeepsFiles == FilesInv /\ NxpConfig_Deinit => FilesInv'
<1> SUFFICES ASSUME FilesInv, NxpConfig_Deinit PROVE FilesInv'
  OBVIOUS
<1>1. /\ disk' \in Disks
      /\ mMainConfig' \in Contents /\ mUciConfig' \in Contents /\ mCapsConfig' \in Contents
      /\ mExtraConfig' \in Seq(Configs) /\ DOMAIN mExtraConfig' = {} /\ DOMAIN mRegionMap' = {}
  BY NoFiles DEF FilesInv, NxpConfig_Deinit
<1> QED BY <1>1 DEF FilesInv

\* The files of a country are read again one by one.
LEMMA CountryFiles ==
  ASSUME FilesInv, NEW c, NxpConfig_SetCountryCode(c)
  PROVE  /\ mExtraConfig' \in Seq(Configs) /\ Len(mExtraConfig') = Len(mExtraConfig)
         /\ \A i \in 1..Len(mExtraConfig) :
              \/ mExtraConfig'[i] = mExtraConfig[i]
              \/ /\ mExtraConfig[i].country /\ mExtraConfig'[i].country
                 /\ CapsName \notin DOMAIN mExtraConfig[i].map
                 /\ CapsName \notin DOMAIN mExtraConfig'[i].map
<1> USE DEF FilesInv
<1>1. CASE mExtraConfig' = mExtraConfig
  BY <1>1
<1>2. CASE mExtraConfig' # mExtraConfig
  <2>1. PICK region : mExtraConfig' = [i \in DOMAIN mExtraConfig |-> setCountry(mExtraConfig[i], region)]
    BY <1>2 DEF NxpConfig_SetCountryCode
  <2>2. Len(mExtraConfig) \in Nat /\ DOMAIN mExtraConfig = 1..Len(mExtraConfig)
        /\ \A i \in 1..Len(mExtraConfig) : mExtraConfig[i] \in Configs
    BY LenProperties, ElementOfSeq
  <2>3. ASSUME NEW i \in 1..Len(mExtraConfig)
        PROVE  /\ setCountry(mExtraConfig[i], region) \in Configs
               /\ \/ setCountry(mExtraConfig[i], region) = mExtraConfig[i]
                  \/ /\ mExtraConfig[i].country /\ setCountry(mExtraConfig[i], region).country
                     /\ CapsName \notin DOMAIN mExtraConfig[i].map
                     /\ CapsName \notin DOMAIN setCountry(mExtraConfig[i], region).map
    <3>1. mExtraConfig[i] \in Configs
      BY <2>2
    <3>2. CASE ~mExtraConfig[i].country
      BY <3>1, <3>2 DEF setCountry
    <3>3. CASE mExtraConfig[i].country
      <4> DEFINE read == readConfig(<<mExtraConfig[i].path, region>>)
      <4>1. read \in Contents /\ CapsName \notin DOMAIN read
        BY Reading, CountryReading
      <4>2. setCountry(mExtraConfig[i], region) = [mExtraConfig[i] EXCEPT !.map = read]
        BY <3>3 DEF setCountry
      <4> HIDE DEF read
      <4>3. CapsName \notin DOMAIN mExtraConfig[i].map
        BY <2>2, <3>3
      <4> QED BY <3>1, <3>3, <4>1, <4>2, <4>3 DEF Configs
    <3> QED BY <3>2, <3>3
  <2>4. mExtraConfig' \in [1..Len(mExtraConfig) -> Configs]
    BY <2>1, <2>2, <2>3
  <2>5. mExtraConfig' \in Seq(Configs) /\ Len(mExtraConfig') = Len(mExtraConfig)
    BY <2>2, <2>4
  <2> QED BY <2>1, <2>2, <2>3, <2>5
<1> QED BY <1>1, <1>2

LEMMA CountryKeepsFiles ==
  ASSUME FilesInv, NEW c, NxpConfig_SetCountryCode(c)
  PROVE  FilesInv'
<1>1. /\ UNCHANGED <<disk, mMainConfig, mUciConfig, mCapsConfig, mRegionMap>>
  BY DEF NxpConfig_SetCountryCode
<1>2. DOMAIN mExtraConfig = 1..Len(mExtraConfig) /\ DOMAIN mExtraConfig' = 1..Len(mExtraConfig)
  BY CountryFiles, LenProperties DEF FilesInv
<1> QED BY <1>1, <1>2, CountryFiles DEF FilesInv

-----------------------------------------------------------------------------
(* Caps that a file provides stay provided, and the same, for every country.*)

LEMMA CapsKept ==
  ASSUME FilesInv, NEW c, NxpConfig_SetCountryCode(c)
  PROVE  capsProvided' <=> capsProvided
<1> DEFINE n == Len(mExtraConfig)
           before == Cascade
           after == Cascade'
<1>1. FilesInv'
  BY CountryKeepsFiles
<1>2. UNCHANGED <<mMainConfig, mUciConfig, mCapsConfig>>
  BY DEF NxpConfig_SetCountryCode
<1>3. Stacked(before, n, mCapsConfig, mExtraConfig, mMainConfig, mUciConfig)
  BY LayersShape DEF Cascade, FilesInv
<1>4. Len(mExtraConfig') = n
  BY CountryFiles
<1>5. Stacked(after, n, mCapsConfig, mExtraConfig', mMainConfig, mUciConfig)
  <2>1. after = Layers(mCapsConfig, mExtraConfig', mMainConfig, mUciConfig)
    BY <1>2 DEF Cascade
  <2>2. mExtraConfig' \in Seq(Configs)
    BY CountryFiles
  <2>3. mCapsConfig \in Contents /\ mMainConfig \in Contents /\ mUciConfig \in Contents
    BY DEF FilesInv
  <2> HIDE DEF after
  <2> QED BY <1>4, <2>1, <2>2, <2>3, LayersShape
<1> USE DEF Stacked
<1> HIDE DEF before, after
<1>6. ASSUME NEW i \in 1..(n + 3)
      PROVE  \/ after[i] = before[i]
             \/ CapsName \notin DOMAIN after[i] /\ CapsName \notin DOMAIN before[i]
  <2>1. CASE i \in {1, n + 2, n + 3}
    BY <1>3, <1>5, <2>1
  <2>2. CASE i \in 2..(n + 1)
    <3>1. n + 2 - i \in 1..n
      BY <1>3, <2>2
    <3>2. before[i] = mExtraConfig[n + 2 - i].map /\ after[i] = mExtraConfig'[n + 2 - i].map
      BY <1>3, <1>5, <2>2
    <3> QED BY <3>1, <3>2, CountryFiles
  <2> QED BY <1>3, <2>1, <2>2
<1>7. Hits(after, CapsName) = Hits(before, CapsName)
  BY <1>3, <1>5, <1>6 DEF Hits
<1>8. find(CapsName)' <=> find(CapsName)
  BY <1>7 DEF find, before, after
<1>9. ASSUME find(CapsName) PROVE value(CapsName)' = value(CapsName)
  <2> DEFINE first == CHOOSE i \in Hits(before, CapsName) :
                        \A j \in Hits(before, CapsName) : i <= j
  <2>1. before \in Seq(Contents)
    BY <1>3
  <2>2. first \in Hits(before, CapsName) /\ valueIn(before, CapsName) = before[first][CapsName]
    BY <1>9, <2>1, Lookup DEF find, before
  <2>3. valueIn(after, CapsName) = after[first][CapsName]
    BY <1>7 DEF valueIn
  <2>4. after[first] = before[first]
    BY <1>3, <1>6, <2>2 DEF Hits
  <2> QED BY <2>2, <2>3, <2>4 DEF value, before, after
<1> QED BY <1>8, <1>9 DEF capsProvided, Caps, CapsName

-----------------------------------------------------------------------------
(* Types.                                                                   *)

ChipInv == /\ DOMAIN chip = {"power", "shape", "tone", "ddfs", "dc"}
           /\ chip.power \in [Channels -> Calibrations \cup {Default}]

\* The position in the list of channels while their powers are sent.
IdxInv == api = "power" => idx \in 1..4

CapsInv == api \in {"caps", "offset"} => capsProvided

\* The handler works on an open HAL.
WorkingOpen == api # "idle" => halStatus = "OPEN"

Typed == FilesInv /\ TypeOK /\ ChipInv /\ IdxInv /\ CapsInv /\ WorkingOpen

LEMMA AdjustedTyped ==
  ASSUME NEW power \in Calibrations, NEW offset \in Int
  PROVE  Adjusted(power, offset) \in Calibrations
<1>1. power + offset \in Int /\ PowerRange \in Nat \ {0}
  BY PowerAssumption DEF Calibrations
<1>2. CASE offset = 0
  BY <1>2 DEF Adjusted
<1>3. CASE offset # 0 /\ power + offset < 0
  BY <1>1, <1>3 DEF Adjusted, Calibrations
<1>4. CASE offset # 0 /\ ~(power + offset < 0)
  <2>1. (power + offset) % PowerRange \in 0..(PowerRange - 1)
    BY <1>1
  <2> QED BY <1>4, <2>1 DEF Adjusted, Calibrations
<1> QED BY <1>2, <1>3, <1>4

LEMMA UpdatedTyped ==
  ASSUME NEW gtx \in [channel : Channels, power : Calibrations], NEW offset \in Int
  PROVE  /\ updateTxPower(gtx, offset) \in [channel : Channels, power : Calibrations]
         /\ updateTxPower(gtx, offset).channel = gtx.channel
<1>1. gtx # Empty
  BY DEF Empty, Channels
<1>2. updateTxPower(gtx, offset) = [gtx EXCEPT !.power = Adjusted(gtx.power, offset)]
  BY <1>1 DEF updateTxPower
<1>3. Adjusted(gtx.power, offset) \in Calibrations
  BY AdjustedTyped
<1> QED BY <1>2, <1>3

\* What a command may leave in the chip.
LEMMA PowerSet ==
  ASSUME ChipInv, NEW ch \in Channels, NEW power \in Calibrations,
         chip' \in {chip, [chip EXCEPT !.power[ch] = power]}
  PROVE  ChipInv'
<1>1. CASE chip' = chip
  BY <1>1 DEF ChipInv
<1>2. CASE chip' = [chip EXCEPT !.power[ch] = power]
  <2>1. DOMAIN chip' = DOMAIN chip /\ chip'.power = [chip.power EXCEPT ![ch] = power]
    BY <1>2 DEF ChipInv
  <2> QED BY <2>1 DEF ChipInv
<1> QED BY <1>1, <1>2

LEMMA TxPowerSent ==
  ASSUME TypeOK, ChipInv, NEW calibration \in [channel : Channels, power : Calibrations],
         NEW power \in Calibrations \cup {NoPower},
         SendTxPower(calibration, rt_settings.offset, power)
  PROVE  /\ gtx_power' \in [channel : Channels, power : Calibrations]
         /\ asked' \in [Channels -> Calibrations \cup {NoPower, Unknown}]
         /\ sent' \in BOOLEAN /\ ChipInv'
<1> DEFINE seen == updateTxPower(calibration, rt_settings.offset)
<1>1. seen \in [channel : Channels, power : Calibrations]
  BY UpdatedTyped DEF TypeOK
<1>2. gtx_power' = seen
  BY DEF SendTxPower
<1>3. PICK ok \in BOOLEAN :
        /\ Sent([chip EXCEPT !.power[seen.channel] = seen.power], ok)
        /\ asked' = [asked EXCEPT ![seen.channel] = IF ok THEN power ELSE Unknown]
  BY DEF SendTxPower, Answered
<1> HIDE DEF seen
<1>4. asked' \in [Channels -> Calibrations \cup {NoPower, Unknown}]
  BY <1>1, <1>3 DEF TypeOK
<1>5. sent' \in BOOLEAN
  BY <1>3 DEF Sent, TypeOK
<1>6. chip' \in {chip, [chip EXCEPT !.power[seen.channel] = seen.power]}
  BY <1>3 DEF Sent
<1>7. ChipInv'
  BY <1>1, <1>6, PowerSet
<1> QED BY <1>1, <1>2, <1>4, <1>5, <1>7

\* A command that sets something else leaves the powers alone.
LEMMA OtherSet ==
  ASSUME ChipInv, NEW field \in {"shape", "tone", "ddfs", "dc"}, NEW setting,
         chip' \in {chip, [chip EXCEPT ![field] = setting]}
  PROVE  ChipInv'
BY DEF ChipInv

RtSettings == [uwb_enable : BOOLEAN, restricted : SUBSET Nat, offset : Int]

LEMMA SettingsCleared == Zeroed \in RtSettings /\ Reset \in RtSettings
BY DEF Zeroed, Reset, RtSettings

LEMMA TypeInit == Init => Typed
<1> SUFFICES ASSUME Init PROVE Typed
  OBVIOUS
<1>1. FilesInv
  BY NoFiles DEF FilesInv, Init, ConfigInit
<1>2. TypeOK
  <2>1. rt_settings \in RtSettings
    BY SettingsCleared DEF Init
  <2>2. chip.power \in [Channels -> Calibrations \cup {Default}]
    BY DEF Init, FreshChip
  <2>3. asked \in [Channels -> Calibrations \cup {NoPower, Unknown}]
    BY DEF Init
  <2>4. opens \in 0..MaxOpens /\ idx \in Nat \ {0}
    BY PowerAssumption DEF Init
  <2>5. /\ isCountryCodeMapCreated \in BOOLEAN /\ found \in BOOLEAN
        /\ sent \in BOOLEAN /\ answer \in BOOLEAN
    BY DEF Init
  <2>6. /\ api \in Steps /\ halStatus \in {"CLOSE", "OPEN"} /\ country \in Codes \cup {NoCountry}
        /\ governing \in Codes \cup {NoCountry}
        /\ conf_map \subseteq Channels /\ reported \subseteq Channels
        /\ gtx_power \in {Empty} \cup [channel : Channels, power : Calibrations]
    BY DEF Init, Steps
  <2> QED BY <2>1, <2>2, <2>3, <2>4, <2>5, <2>6 DEF TypeOK, RtSettings
<1>3. ChipInv /\ IdxInv /\ CapsInv /\ WorkingOpen
  BY <1>2 DEF ChipInv, IdxInv, CapsInv, WorkingOpen, FreshChip, Init, TypeOK
<1> QED BY <1>1, <1>2, <1>3 DEF Typed

\* Most steps leave the files and what they provide alone.
LEMMA SameFiles ==
  ASSUME FilesInv, UNCHANGED configVars
  PROVE  FilesInv' /\ (capsProvided' <=> capsProvided)
BY DEF FilesInv, configVars, files, capsProvided, Caps, find, value, Cascade

\* The steps of the API thread that touch neither the chip nor its history.
LEMMA ChipKept ==
  ASSUME Typed, UNCHANGED <<chip, asked, sent>>
  PROVE  /\ ChipInv' /\ sent' \in BOOLEAN
         /\ asked' \in [Channels -> Calibrations \cup {NoPower, Unknown}]
BY DEF Typed, TypeOK, ChipInv

LEMMA OpenTyped == Typed /\ Open => Typed'
<1> SUFFICES ASSUME Typed, Open PROVE Typed'
  OBVIOUS
<1> USE DEF Typed
<1>1. FilesInv'
  BY OpenKeepsFiles DEF Open
<1>2. ChipInv'
  BY DEF Open, ChipInv, FreshChip
<1>3. TypeOK'
  <2>1. rt_settings' \in RtSettings
    BY SettingsCleared DEF Open
  <2>2. asked' \in [Channels -> Calibrations \cup {NoPower, Unknown}]
    BY DEF Open, TypeOK
  <2>3. chip'.power \in [Channels -> Calibrations \cup {Default}]
    BY <1>2 DEF ChipInv
  <2>4. opens' \in 0..MaxOpens
    BY PowerAssumption DEF Open, TypeOK
  <2> QED BY <2>1, <2>2, <2>3, <2>4 DEF Open, TypeOK, RtSettings
<1>4. IdxInv' /\ CapsInv' /\ WorkingOpen'
  BY DEF Open, IdxInv, CapsInv, WorkingOpen
<1> QED BY <1>1, <1>2, <1>3, <1>4

LEMMA CloseTyped == Typed /\ Close => Typed'
<1> SUFFICES ASSUME Typed, Close PROVE Typed'
  OBVIOUS
<1> USE DEF Typed
<1>1. FilesInv'
  BY CloseKeepsFiles DEF Close
<1>2. rt_settings' \in RtSettings
  BY SettingsCleared DEF Close
<1>3. TypeOK' /\ ChipInv' /\ IdxInv' /\ CapsInv' /\ WorkingOpen'
  BY <1>2 DEF Close, TypeOK, ChipInv, IdxInv, CapsInv, WorkingOpen, RtSettings, host
<1> QED BY <1>1, <1>3

LEMMA HandleTyped == ASSUME Typed, NEW c \in Codes, handle_set_country_code(c) PROVE Typed'
<1> USE DEF Typed, handle_set_country_code
<1>1. FilesInv'
  BY CountryKeepsFiles
<1>2. TypeOK'
  BY DEF TypeOK, Steps, hal, applying
<1>3. ChipInv' /\ IdxInv' /\ CapsInv' /\ WorkingOpen'
  BY DEF ChipInv, IdxInv, CapsInv, WorkingOpen, hal, applying
<1> QED BY <1>1, <1>2, <1>3

LEMMA LoadTyped == Typed /\ Load => Typed'
<1> SUFFICES ASSUME Typed, Load PROVE Typed'
  OBVIOUS
<1> USE DEF Typed
<1>1. FilesInv' /\ (capsProvided' <=> capsProvided)
  BY SameFiles DEF Load
<1>2. restrictions \in RtSettings
  BY RestrictedTyped DEF restrictions, RtSettings
<1>3. rt_settings' \in RtSettings
  BY <1>2, SettingsCleared DEF Load, TypeOK, RtSettings
<1>4. TypeOK'
  <2>1. isCountryCodeMapCreated' \in BOOLEAN /\ found' \in BOOLEAN
    BY DEF Load, TypeOK
  <2>2. api' \in Steps /\ idx' \in Nat \ {0}
    BY DEF Load, Steps
  <2>3. UNCHANGED <<hal, conf_map, gtx_power, ghosts, host, chip>>
    BY DEF Load
  <2> QED BY <1>3, <2>1, <2>2, <2>3 DEF TypeOK, RtSettings, hal, ghosts, host
<1>5. ChipInv' /\ IdxInv' /\ CapsInv' /\ WorkingOpen'
  BY <1>1 DEF Load, ChipInv, IdxInv, CapsInv, WorkingOpen, hal
<1> QED BY <1>1, <1>4, <1>5

LEMMA EntryTyped ==
  ASSUME NEW rt \in RtSettings, NEW tlv \in Entries
  PROVE  withEntry(rt, tlv) \in RtSettings
BY DEF withEntry, RtSettings, Entries

LEMMA ApplyTyped == Typed /\ applyCountryCaps => Typed'
<1> SUFFICES ASSUME Typed, applyCountryCaps PROVE Typed'
  OBVIOUS
<1> USE DEF Typed
<1>1. FilesInv' /\ (capsProvided' <=> capsProvided)
  BY SameFiles DEF applyCountryCaps
<1>2. Caps \in Seq(Entries)
  BY CapsTyped DEF CapsInv, applyCountryCaps
<1>3. idx \in 1..Len(Caps)
  BY <1>2, LenProperties DEF applyCountryCaps, TypeOK
<1>4. Caps[idx] \in Entries
  BY <1>2, <1>3, ElementOfSeq
<1>5. rt_settings' \in RtSettings
  BY <1>4, EntryTyped DEF applyCountryCaps, TypeOK, RtSettings
<1>6. TypeOK'
  <2>1. found' \in BOOLEAN
    BY DEF applyCountryCaps, TypeOK
  <2>2. api' \in Steps /\ idx' \in Nat \ {0}
    BY DEF applyCountryCaps, Steps, TypeOK
  <2>3. UNCHANGED <<hal, isCountryCodeMapCreated, conf_map, gtx_power, ghosts, host, chip>>
    BY DEF applyCountryCaps
  <2> QED BY <1>5, <2>1, <2>2, <2>3 DEF TypeOK, RtSettings, hal, ghosts, host
<1>7. ChipInv' /\ IdxInv' /\ CapsInv' /\ WorkingOpen'
  BY <1>1 DEF applyCountryCaps, ChipInv, IdxInv, CapsInv, WorkingOpen, hal
<1> QED BY <1>1, <1>6, <1>7

LEMMA OffsetTyped == Typed /\ setCalibParamTxPower => Typed'
<1> SUFFICES ASSUME Typed, setCalibParamTxPower PROVE Typed'
  OBVIOUS
<1> USE DEF Typed
<1>1. FilesInv' /\ (capsProvided' <=> capsProvided)
  BY SameFiles DEF setCalibParamTxPower
<1>2. /\ ChipInv' /\ sent' \in BOOLEAN
      /\ asked' \in [Channels -> Calibrations \cup {NoPower, Unknown}]
  <2>1. CASE gtx_power = Empty
    BY <2>1, ChipKept DEF setCalibParamTxPower
  <2>2. CASE gtx_power # Empty
    <3> DEFINE updated == updateTxPower(gtx_power, rt_settings.offset)
               seen    == updateTxPower(updated, rt_settings.offset)
    <3>1. updated \in [channel : Channels, power : Calibrations]
      BY <2>2, UpdatedTyped DEF TypeOK
    <3>2. seen \in [channel : Channels, power : Calibrations]
      BY <3>1, UpdatedTyped DEF TypeOK
    <3>3. Answered([chip EXCEPT !.power[seen.channel] = seen.power],
                   seen.channel, asked[seen.channel])
      BY <2>2 DEF setCalibParamTxPower
    <3> HIDE DEF updated, seen
    <3>4. PICK ok \in BOOLEAN :
            /\ Sent([chip EXCEPT !.power[seen.channel] = seen.power], ok)
            /\ asked' = [asked EXCEPT ![seen.channel] = IF ok THEN asked[seen.channel] ELSE Unknown]
      BY <3>3 DEF Answered
    <3>5. asked' \in [Channels -> Calibrations \cup {NoPower, Unknown}]
      BY <3>2, <3>4 DEF TypeOK
    <3>6. chip' \in {chip, [chip EXCEPT !.power[seen.channel] = seen.power]} /\ sent' \in BOOLEAN
      BY <3>4 DEF Sent, TypeOK
    <3> QED BY <3>2, <3>5, <3>6, PowerSet
  <2> QED BY <2>1, <2>2
<1>3. TypeOK'
  BY <1>2 DEF setCalibParamTxPower, TypeOK, Steps, ChipInv, hal, host
<1>4. IdxInv' /\ CapsInv' /\ WorkingOpen'
  BY <1>1 DEF setCalibParamTxPower, IdxInv, CapsInv, WorkingOpen, hal
<1> QED BY <1>1, <1>2, <1>3, <1>4

LEMMA AppliedTyped == Typed /\ capsApplied => Typed'
<1> SUFFICES ASSUME Typed, capsApplied PROVE Typed'
  OBVIOUS
<1> USE DEF Typed
<1>1. FilesInv'
  BY SameFiles DEF capsApplied
<1>2. rt_settings' \in RtSettings
  BY DEF capsApplied, TypeOK, RtSettings
<1>3. TypeOK'
  BY <1>2 DEF capsApplied, TypeOK, Steps, RtSettings, hal, ghosts, host
<1>4. ChipInv' /\ IdxInv' /\ CapsInv' /\ WorkingOpen'
  BY DEF capsApplied, ChipInv, IdxInv, CapsInv, WorkingOpen, hal
<1> QED BY <1>1, <1>3, <1>4

LEMMA TxPowerTyped == Typed /\ extcal_do_tx_power => Typed'
<1> SUFFICES ASSUME Typed, extcal_do_tx_power PROVE Typed'
  OBVIOUS
<1> USE DEF Typed
<1> DEFINE ch  == cal_channels[idx]
           key == TxPowerKey(ch)
<1>1. FilesInv'
  BY SameFiles DEF extcal_do_tx_power
<1>2. ch \in Channels /\ key \in TxPowerKeys
  BY DEF extcal_do_tx_power, IdxInv, cal_channels, Channels, TxPowerKey, TxPowerKeys
<1>3. /\ ChipInv' /\ sent' \in BOOLEAN
      /\ asked' \in [Channels -> Calibrations \cup {NoPower, Unknown}]
      /\ gtx_power' \in {Empty} \cup [channel : Channels, power : Calibrations]
  <2>1. CASE UNCHANGED <<gtx_power, chip, asked>> /\ sent' \in {sent, FALSE}
    BY <2>1 DEF TypeOK, ChipInv
  <2>2. CASE /\ find(key) /\ value(key) # Malformed
             /\ SendTxPower([channel |-> ch, power |-> value(key)], rt_settings.offset, NoPower)
    <3>1. value(key) \in Calibrations
      BY <1>2, <2>2, PowersTyped DEF Calibrations
    <3> QED BY <1>2, <2>2, <3>1, TxPowerSent
  <2> QED BY <2>1, <2>2 DEF extcal_do_tx_power
<1>4. idx' \in Nat \ {0} /\ IdxInv'
  BY DEF extcal_do_tx_power, TypeOK, IdxInv, cal_channels
<1>5. TypeOK'
  BY <1>3, <1>4 DEF extcal_do_tx_power, TypeOK, Steps, ChipInv, hal, host
<1>6. CapsInv' /\ WorkingOpen'
  BY DEF extcal_do_tx_power, CapsInv, WorkingOpen, hal
<1> QED BY <1>1, <1>3, <1>4, <1>5, <1>6

LEMMA ShapeTyped == Typed /\ extcal_do_tx_pulse_shape => Typed'
<1> SUFFICES ASSUME Typed, extcal_do_tx_pulse_shape PROVE Typed'
  OBVIOUS
<1> USE DEF Typed
<1>1. FilesInv'
  BY SameFiles DEF extcal_do_tx_pulse_shape
<1>2. ChipInv' /\ sent' \in BOOLEAN
  BY DEF extcal_do_tx_pulse_shape, Send, Sent, TypeOK, ChipInv
<1>3. TypeOK'
  BY <1>2 DEF extcal_do_tx_pulse_shape, TypeOK, Steps, ChipInv, hal, applying, host
<1>4. IdxInv' /\ CapsInv' /\ WorkingOpen'
  BY DEF extcal_do_tx_pulse_shape, IdxInv, CapsInv, WorkingOpen, hal
<1> QED BY <1>1, <1>2, <1>3, <1>4

LEMMA ToneTyped == Typed /\ ddfsToneConfig => Typed'
<1> SUFFICES ASSUME Typed, ddfsToneConfig PROVE Typed'
  OBVIOUS
<1> USE DEF Typed
<1>1. FilesInv'
  BY SameFiles DEF ddfsToneConfig
<1>2. ChipInv' /\ sent' \in BOOLEAN /\ found' \in BOOLEAN
  BY DEF ddfsToneConfig, Sent, TypeOK, ChipInv
<1>3. TypeOK'
  BY <1>2 DEF ddfsToneConfig, TypeOK, Steps, ChipInv, hal, host
<1>4. IdxInv' /\ CapsInv' /\ WorkingOpen'
  BY DEF ddfsToneConfig, IdxInv, CapsInv, WorkingOpen, hal
<1> QED BY <1>1, <1>2, <1>3, <1>4

LEMMA BaseBandTyped == Typed /\ txBaseBandControl => Typed'
<1> SUFFICES ASSUME Typed, txBaseBandControl PROVE Typed'
  OBVIOUS
<1> USE DEF Typed
<1>1. FilesInv'
  BY SameFiles DEF txBaseBandControl
<1>2. ChipInv' /\ sent' \in BOOLEAN
  BY DEF txBaseBandControl, Send, Sent, TypeOK, ChipInv
<1>3. TypeOK'
  BY <1>2 DEF txBaseBandControl, TypeOK, Steps, ChipInv, hal, applying, host
<1>4. IdxInv' /\ CapsInv' /\ WorkingOpen'
  BY DEF txBaseBandControl, IdxInv, CapsInv, WorkingOpen, hal
<1> QED BY <1>1, <1>2, <1>3, <1>4

LEMMA AnswerTyped == Typed /\ Answer => Typed'
<1> SUFFICES ASSUME Typed, Answer PROVE Typed'
  OBVIOUS
<1> USE DEF Typed
<1>1. FilesInv'
  BY SameFiles DEF Answer
<1>2. answer' \in BOOLEAN
  BY DEF Answer, TypeOK
<1>3. TypeOK' /\ ChipInv' /\ IdxInv' /\ CapsInv' /\ WorkingOpen'
  BY <1>2 DEF Answer, TypeOK, ChipInv, IdxInv, CapsInv, WorkingOpen, Steps, hal, applying, ghosts
<1> QED BY <1>1, <1>3

LEMMA ProcessTyped ==
  ASSUME Typed, NEW calibration \in Powers, processCalibParamTxPowerPerAntenna(calibration)
  PROVE  Typed'
<1> USE DEF Typed
<1>1. FilesInv'
  BY SameFiles DEF processCalibParamTxPowerPerAntenna
<1>2. /\ calibration \in [channel : Channels, power : Calibrations]
      /\ calibration.power \in Calibrations
  BY PowerAssumption DEF Channels, Calibrations
<1>3. /\ ChipInv' /\ sent' \in BOOLEAN
      /\ asked' \in [Channels -> Calibrations \cup {NoPower, Unknown}]
      /\ gtx_power' \in [channel : Channels, power : Calibrations]
  BY <1>2, TxPowerSent DEF processCalibParamTxPowerPerAntenna
<1>4. TypeOK'
  BY <1>3 DEF processCalibParamTxPowerPerAntenna, TypeOK, ChipInv, hal, host
<1>5. IdxInv' /\ CapsInv' /\ WorkingOpen'
  BY DEF processCalibParamTxPowerPerAntenna, IdxInv, CapsInv, WorkingOpen, hal
<1> QED BY <1>1, <1>3, <1>4, <1>5

LEMMA GetCapsTyped == Typed /\ getCapsInfo => Typed'
<1> SUFFICES ASSUME Typed, getCapsInfo PROVE Typed'
  OBVIOUS
<1> USE DEF Typed
<1>1. FilesInv'
  BY SameFiles DEF getCapsInfo
<1>2. TypeOK' /\ ChipInv' /\ IdxInv' /\ CapsInv' /\ WorkingOpen'
  BY DEF getCapsInfo, TypeOK, ChipInv, IdxInv, CapsInv, WorkingOpen, hal, applying, ghosts
<1> QED BY <1>1, <1>2

LEMMA TypeStep == Typed /\ [Next]_vars => Typed'
<1> SUFFICES ASSUME Typed, [Next]_vars PROVE Typed'
  OBVIOUS
<1>1. CASE UNCHANGED vars
  <2>1. FilesInv' /\ (capsProvided' <=> capsProvided)
    BY <1>1, SameFiles DEF vars, Typed
  <2> QED BY <1>1, <2>1 DEF vars, Typed, TypeOK, ChipInv, IdxInv, CapsInv, WorkingOpen,
                            hal, applying, ghosts, host
<1> QED BY <1>1, OpenTyped, CloseTyped, HandleTyped, LoadTyped, ApplyTyped, OffsetTyped,
           AppliedTyped, TxPowerTyped, ShapeTyped, ToneTyped, BaseBandTyped, AnswerTyped,
           ProcessTyped, GetCapsTyped DEF Next

\* The variables keep their types; no offset of a country makes a tx power
\* leave its sixteen bits, on the host's calibrations or on the files'.
THEOREM TypeCorrect == Spec => []TypeOK
<1>1. Typed => TypeOK
  BY DEF Typed
<1> QED BY <1>1, TypeInit, TypeStep, PTL DEF Spec

-----------------------------------------------------------------------------
(* Only a valid country leaves UWB on.  Two things could go wrong: the      *)
(* files are not read again for a code of the same region, so the settings  *)
(* of another code stay; and restrictions are not applied while a caps map  *)
(* of an earlier country exists.  The invariant says that the region        *)
(* determines whether a code is valid, and that whoever has UWB on and a    *)
(* caps map has caps, for every country.                                    *)

Judged == api \notin {"load", "caps", "offset"}

CountryInv ==
  /\ country = NoCountry => api = "idle" /\ ~rt_settings.uwb_enable
  /\ halStatus = "CLOSE" => country = NoCountry
  /\ country # NoCountry => mCurRegionCode = xlateCountryCode(country)
  /\ isCountryCodeMapCreated /\ rt_settings.uwb_enable => capsProvided
  /\ Judged /\ rt_settings.uwb_enable => country \in ValidCodes

IInv == Typed /\ CountryInv

LEMMA Regions ==
  ASSUME FilesInv, NEW c \in Codes
  PROVE  IF c \in ValidCodes THEN xlateCountryCode(c) \notin Codes \ ValidCodes
         ELSE xlateCountryCode(c) = c
<1>1. CASE c \in ValidCodes
  BY <1>1 DEF FilesInv, xlateCountryCode
<1>2. CASE c \notin ValidCodes
  <2>1. {r \in DOMAIN mRegionMap : c \in mRegionMap[r]} = {}
    BY <1>2, CodesAssumption DEF FilesInv
  <2> QED BY <1>2, <2>1 DEF xlateCountryCode
<1> QED BY <1>1, <1>2

\* A code of the same region as a valid one is valid.
LEMMA SameRegionValid ==
  ASSUME FilesInv, NEW c \in Codes, NEW d \in ValidCodes,
         xlateCountryCode(c) = xlateCountryCode(d)
  PROVE  c \in ValidCodes
BY Regions, CodesAssumption

LEMMA CountryInit == Init => CountryInv
BY DEF Init, CountryInv, Zeroed, NoCountry

\* Steps that leave the settings, the country and the files alone.
LEMMA SettingsKept ==
  ASSUME IInv, Judged, Judged', api # "idle" \/ api' = "idle",
         UNCHANGED <<configVars, halStatus, country, rt_settings, isCountryCodeMapCreated>>
  PROVE  CountryInv'
<1>1. capsProvided' <=> capsProvided
  BY SameFiles DEF IInv, Typed
<1>2. xlateCountryCode(country)' = xlateCountryCode(country) /\ mCurRegionCode' = mCurRegionCode
  BY DEF xlateCountryCode, configVars, files
<1>3. country = NoCountry => api = "idle"
  BY DEF IInv, CountryInv
<1> QED BY <1>1, <1>2, <1>3 DEF IInv, CountryInv

LEMMA HandleCountry ==
  ASSUME IInv, NEW c \in Codes, handle_set_country_code(c)
  PROVE  CountryInv'
<1> USE DEF handle_set_country_code
<1>1. FilesInv /\ FilesInv' /\ (capsProvided' <=> capsProvided)
  BY CountryKeepsFiles, CapsKept DEF IInv, Typed
<1>2. country' = c /\ c # NoCountry
  BY ValuesAssumption DEF NoCountry
<1>3. mCurRegionCode' = xlateCountryCode(c) /\ xlateCountryCode(c)' = xlateCountryCode(c)
  BY DEF NxpConfig_SetCountryCode, xlateCountryCode
<1>4. UNCHANGED <<halStatus, rt_settings, isCountryCodeMapCreated>> /\ halStatus = "OPEN"
  BY DEF hal, applying
<1>5. ASSUME Judged', rt_settings'.uwb_enable PROVE c \in ValidCodes
  <2>1. sameRegion(c)
    BY <1>5 DEF Judged
  <2>2. country \in ValidCodes /\ country # NoCountry
    BY <1>4, <1>5 DEF IInv, CountryInv, Judged
  <2>3. xlateCountryCode(c) = xlateCountryCode(country)
    BY <2>1, <2>2 DEF sameRegion, IInv, CountryInv
  <2> QED BY <1>1, <2>2, <2>3, SameRegionValid
<1> QED BY <1>1, <1>2, <1>3, <1>4, <1>5 DEF IInv, CountryInv

LEMMA LoadCountry == IInv /\ Load => CountryInv'
<1> SUFFICES ASSUME IInv, Load PROVE CountryInv'
  OBVIOUS
<1>1. capsProvided' <=> capsProvided
  BY SameFiles DEF IInv, Typed, Load
<1>2. /\ xlateCountryCode(country)' = xlateCountryCode(country)
      /\ UNCHANGED <<mCurRegionCode, country, halStatus>>
  BY DEF xlateCountryCode, configVars, files, Load, ghosts, hal
<1>3. country # NoCountry
  BY DEF Load, IInv, CountryInv
<1>4. CASE capsProvided
  BY <1>1, <1>2, <1>3, <1>4 DEF Load, IInv, CountryInv, Judged
<1>5. CASE ~capsProvided
  <2>1. CASE isCountryCodeMapCreated
    BY <1>1, <1>2, <1>3, <1>5, <2>1 DEF Load, IInv, CountryInv
  <2>2. CASE ~isCountryCodeMapCreated
    <3>1. rt_settings'.uwb_enable => country \in ValidCodes
      <4>1. rt_settings' = restrictions
        BY <1>5, <2>2 DEF Load
      <4>2. restrictions.uwb_enable <=> GetNum("cal.uwb_disable", 0) = 0 /\ country \in ValidCodes
        BY DEF restrictions
      <4> QED BY <4>1, <4>2
    <3>2. isCountryCodeMapCreated' = isCountryCodeMapCreated
      BY <1>5 DEF Load
    <3> QED BY <1>2, <1>3, <2>2, <3>1, <3>2 DEF IInv, CountryInv
  <2> QED BY <2>1, <2>2
<1> QED BY <1>4, <1>5

\* While the caps are scanned the country is known and has caps.
LEMMA CapsCountry ==
  ASSUME IInv, api \in {"caps", "offset"},
         UNCHANGED <<configVars, country, halStatus>>,
         Judged' /\ rt_settings'.uwb_enable => country \in ValidCodes
  PROVE  CountryInv'
<1>1. capsProvided'
  BY SameFiles DEF IInv, Typed, CapsInv
<1>2. xlateCountryCode(country)' = xlateCountryCode(country) /\ mCurRegionCode' = mCurRegionCode
  BY DEF xlateCountryCode, configVars, files
<1>3. country # NoCountry
  BY DEF IInv, CountryInv
<1> QED BY <1>1, <1>2, <1>3 DEF IInv, CountryInv

LEMMA CountryStep == IInv /\ [Next]_vars => CountryInv'
<1> SUFFICES ASSUME IInv, [Next]_vars PROVE CountryInv'
  OBVIOUS
<1> USE DEF Judged
<1>1. CASE Open
  <2>1. country = NoCountry /\ api' = "idle" /\ country' = country /\ ~rt_settings'.uwb_enable
    BY <1>1 DEF Open, IInv, CountryInv, Zeroed
  <2> QED BY <2>1 DEF CountryInv
<1>2. CASE Close
  <2>1. country' = NoCountry /\ api' = "idle" /\ ~rt_settings'.uwb_enable
    BY <1>2 DEF Close, Zeroed
  <2> QED BY <2>1 DEF CountryInv
<1>3. ASSUME NEW c \in Codes, handle_set_country_code(c) PROVE CountryInv'
  BY <1>3, HandleCountry
<1>4. CASE Load
  BY <1>4, LoadCountry
<1>5. CASE applyCountryCaps
  BY <1>5, CapsCountry DEF applyCountryCaps, ghosts, hal
<1>6. CASE setCalibParamTxPower
  BY <1>6, CapsCountry DEF setCalibParamTxPower, hal
<1>7. CASE capsApplied
  <2>1. rt_settings'.uwb_enable => country \in ValidCodes
    BY <1>7 DEF capsApplied, IInv, Typed, TypeOK
  <2> QED BY <1>7, <2>1, CapsCountry DEF capsApplied, ghosts, hal
<1>8. CASE extcal_do_tx_power
  BY <1>8, SettingsKept DEF extcal_do_tx_power, hal
<1>9. CASE extcal_do_tx_pulse_shape
  BY <1>9, SettingsKept DEF extcal_do_tx_pulse_shape, hal, applying
<1>10. CASE ddfsToneConfig
  BY <1>10, SettingsKept DEF ddfsToneConfig, hal
<1>11. CASE txBaseBandControl
  BY <1>11, SettingsKept DEF txBaseBandControl, hal, applying
<1>12. CASE Answer
  BY <1>12, SettingsKept DEF Answer, hal, applying, ghosts
<1>13. ASSUME NEW calibration \in Powers, processCalibParamTxPowerPerAntenna(calibration)
       PROVE  CountryInv'
  BY <1>13, SettingsKept DEF processCalibParamTxPowerPerAntenna, hal
<1>14. CASE getCapsInfo
  BY <1>14, SettingsKept DEF getCapsInfo, hal, applying, ghosts
<1>15. CASE UNCHANGED vars
  <2>1. capsProvided' <=> capsProvided
    BY <1>15, SameFiles DEF vars, IInv, Typed
  <2>2. xlateCountryCode(country)' = xlateCountryCode(country) /\ mCurRegionCode' = mCurRegionCode
    BY <1>15 DEF xlateCountryCode, vars, configVars, files, ghosts
  <2> QED BY <1>15, <2>1, <2>2 DEF vars, IInv, CountryInv, hal, applying, ghosts
<1> QED BY <1>1, <1>2, <1>3, <1>4, <1>5, <1>6, <1>7, <1>8, <1>9, <1>10, <1>11, <1>12, <1>13,
           <1>14, <1>15 DEF Next

\* Whatever codes the host sends, over any number of opens and any files, UWB
\* is left on only for a valid country (the checks of
\* phNxpUciHal_handle_set_country_code).
THEOREM OnlyValidCountries == Spec => []UwbOnlyForValidCountry
<1>1. Init => IInv
  BY TypeInit, CountryInit DEF IInv
<1>2. IInv /\ [Next]_vars => IInv'
  BY TypeStep, CountryStep DEF IInv
<1>3. IInv => UwbOnlyForValidCountry
  BY DEF IInv, CountryInv, UwbOnlyForValidCountry, Judged
<1> QED BY <1>1, <1>2, <1>3, PTL DEF Spec

-----------------------------------------------------------------------------
(* DDFS and its tone configuration are two commands, either of which may    *)
(* fail, or be carried out and reported as failed.                          *)

ToneInv ==
  /\ chip.ddfs => chip.tone # Default
  /\ api = "baseband" /\ found => chip.tone # Default

LEMMA ToneInit == Init => ToneInv
BY DEF Init, FreshChip, ToneInv

\* Steps that leave tone and DDFS alone and do not lead to "baseband".
LEMMA ToneKept ==
  ASSUME ToneInv, api' # "baseband",
         chip'.ddfs = chip.ddfs, chip'.tone = chip.tone
  PROVE  ToneInv'
BY DEF ToneInv

LEMMA PowerOnly ==
  ASSUME ChipInv, NEW ch, NEW power, NEW ok, Sent([chip EXCEPT !.power[ch] = power], ok)
  PROVE  chip'.ddfs = chip.ddfs /\ chip'.tone = chip.tone
BY DEF ChipInv, Sent

LEMMA SentPowerOnly ==
  ASSUME ChipInv, NEW calibration, NEW power,
         SendTxPower(calibration, rt_settings.offset, power)
  PROVE  chip'.ddfs = chip.ddfs /\ chip'.tone = chip.tone
BY PowerOnly DEF SendTxPower, Answered

LEMMA ToneConfigured == Typed /\ ToneInv /\ ddfsToneConfig => ToneInv'
<1> SUFFICES ASSUME Typed, ToneInv, ddfsToneConfig PROVE ToneInv'
  OBVIOUS
<1> DEFINE asks == GetNum("cal.ddfs_enable", 0) = 1 /\ find("cal.ddfs_tone_config")
           tone == value("cal.ddfs_tone_config")
<1>1. CASE ~asks
  BY <1>1 DEF ddfsToneConfig, ToneInv
<1>2. CASE asks
  <2>1. tone # Default
    BY <1>2, Found, Values DEF Typed
  <2>2. PICK ok \in BOOLEAN : Sent([chip EXCEPT !.tone = tone], ok) /\ found' = ok
    BY <1>2 DEF ddfsToneConfig
  <2> HIDE DEF tone
  <2>3. chip' \in {chip, [chip EXCEPT !.tone = tone]} /\ (ok => chip' = [chip EXCEPT !.tone = tone])
    BY <2>2 DEF Sent
  <2>4. [chip EXCEPT !.tone = tone].tone = tone /\ [chip EXCEPT !.tone = tone].ddfs = chip.ddfs
    BY DEF Typed, ChipInv
  <2> QED BY <2>1, <2>2, <2>3, <2>4 DEF ToneInv
<1> QED BY <1>1, <1>2

LEMMA ToneStep == Typed /\ ToneInv /\ [Next]_vars => ToneInv'
<1> SUFFICES ASSUME Typed, ToneInv, [Next]_vars PROVE ToneInv'
  OBVIOUS
<1>1. CASE Open
  BY <1>1 DEF Open, ToneInv, FreshChip, WorkingOpen, Typed
<1>2. CASE Close
  BY <1>2 DEF Close, ToneInv
<1>3. ASSUME NEW c \in Codes, handle_set_country_code(c) PROVE ToneInv'
  BY <1>3 DEF handle_set_country_code, ToneInv
<1>4. CASE Load
  BY <1>4, ToneKept DEF Load
<1>5. CASE applyCountryCaps
  BY <1>5, ToneKept DEF applyCountryCaps
<1>6. CASE setCalibParamTxPower
  <2>1. chip'.ddfs = chip.ddfs /\ chip'.tone = chip.tone
    BY <1>6, PowerOnly DEF setCalibParamTxPower, Answered, Typed
  <2> QED BY <1>6, <2>1, ToneKept DEF setCalibParamTxPower
<1>7. CASE capsApplied
  BY <1>7, ToneKept DEF capsApplied
<1>8. CASE extcal_do_tx_power
  <2>1. chip'.ddfs = chip.ddfs /\ chip'.tone = chip.tone
    BY <1>8, SentPowerOnly DEF extcal_do_tx_power, Typed
  <2>2. api' # "baseband"
    BY <1>8 DEF extcal_do_tx_power
  <2> QED BY <2>1, <2>2, ToneKept
<1>9. CASE extcal_do_tx_pulse_shape
  <2>1. chip'.ddfs = chip.ddfs /\ chip'.tone = chip.tone
    BY <1>9 DEF extcal_do_tx_pulse_shape, Send, Sent, Typed, ChipInv
  <2> QED BY <1>9, <2>1, ToneKept DEF extcal_do_tx_pulse_shape
<1>10. CASE ddfsToneConfig
  BY <1>10, ToneConfigured
<1>11. CASE txBaseBandControl
  <2>1. /\ chip'.tone = chip.tone
        /\ chip'.ddfs \in {chip.ddfs, found}
    BY <1>11 DEF txBaseBandControl, Send, Sent, Typed, ChipInv
  <2> QED BY <1>11, <2>1 DEF txBaseBandControl, ToneInv
<1>12. CASE Answer
  BY <1>12, ToneKept DEF Answer
<1>13. ASSUME NEW calibration \in Powers, processCalibParamTxPowerPerAntenna(calibration)
       PROVE  ToneInv'
  <2>1. chip'.ddfs = chip.ddfs /\ chip'.tone = chip.tone
    BY <1>13, SentPowerOnly DEF processCalibParamTxPowerPerAntenna, Typed
  <2> QED BY <1>13, <2>1, ToneKept DEF processCalibParamTxPowerPerAntenna
<1>14. CASE getCapsInfo
  BY <1>14, ToneKept DEF getCapsInfo
<1>15. CASE UNCHANGED vars
  BY <1>15 DEF vars, applying, ToneInv
<1> QED BY <1>1, <1>2, <1>3, <1>4, <1>5, <1>6, <1>7, <1>8, <1>9, <1>10, <1>11, <1>12, <1>13,
           <1>14, <1>15 DEF Next

\* Whatever the files ask for and whichever commands fail, the chip never has
\* DDFS on without a tone configuration (extcal_do_tx_base_band asks for DDFS
\* only when the tone configuration was taken).
THEOREM ToneBeforeDdfs == Spec => []DdfsHasTone
<1>1. Init => Typed /\ ToneInv
  BY TypeInit, ToneInit
<1>2. Typed /\ ToneInv /\ [Next]_vars => (Typed /\ ToneInv)'
  BY TypeStep, ToneStep
<1>3. ToneInv => DdfsHasTone
  BY DEF ToneInv, DdfsHasTone
<1> QED BY <1>1, <1>2, <1>3, PTL DEF Spec
=============================================================================
