---------------------------- MODULE PolicyProofs ----------------------------
(***************************************************************************)
(* Theorems about CountryCode and what its files say: CountryCode          *)
(* implements CountryPolicy, the capabilities offered are those of the     *)
(* country, and the chip has the calibration of the files.                 *)
(***************************************************************************)
EXTENDS CountryProofs

LocationName == "COUNTRY_CODE_CAP_FILE_LOCATION"
RegionMapName == "REGION_MAP_PATH"

Template == [path : STRING, country : BOOLEAN]
Templates == Named(disk, "EXTRA_CONF_PATHS", <<>>)
Uci == File(disk, <<"uci">>)

\* What an extra file holds while the region is r; "" before any country.
ExtraMap(d, template, r) ==
  IF ~template.country THEN File(d, <<template.path>>)
  ELSE IF r = "" THEN NoParams ELSE File(d, <<template.path, r>>)

IsRegion(r) == r # ""

AsRead(d, config, template, r) ==
  /\ config.path = template.path /\ config.country = template.country
  /\ config.map = ExtraMap(d, template, r)

\* An open that failed leaves its extra files before those of the next open,
\* so the last ones are in the order of the main file and the others repeat.
ExtrasAre(d, extra, templates, r) ==
  LET n == Len(templates)
      m == Len(extra)
  IN  /\ n <= m
      /\ \A i \in 1..n : AsRead(d, extra[m - n + i], templates[i], r)
      /\ \A i \in 1..m : \E j \in 1..n : AsRead(d, extra[i], templates[j], r)

ExtrasLoaded == ExtrasAre(disk, mExtraConfig, Templates, mCurRegionCode)

MapLoaded ==
  \A c \in Codes : {r \in DOMAIN mRegionMap : c \in mRegionMap[r]}
                     = {r \in DOMAIN RegionMap(disk) : c \in RegionMap(disk)[r] \cap UpperCodes}

NothingLoaded ==
  /\ mMainConfig = NoParams /\ mUciConfig = NoParams /\ mCapsConfig = NoParams
  /\ mExtraConfig = <<>> /\ mRegionMap = NoParams

AllLoaded ==
  IF isValid(MainFile(disk))
  THEN /\ mMainConfig = MainFile(disk)
       /\ mCapsConfig = CapsFile(disk)
       /\ IF isValid(Uci) THEN mUciConfig = Uci ELSE ~isValid(mUciConfig)
       /\ ExtrasLoaded
       /\ MapLoaded
  ELSE NothingLoaded

\* The loaded files are those of the disk, for the region of the last country.
LoadInv ==
  /\ halStatus = "OPEN" => AllLoaded
  /\ halStatus = "CLOSE" => mCurRegionCode = "" /\ (NothingLoaded \/ AllLoaded)

-----------------------------------------------------------------------------
(* One file.                                                                *)

LEMMA FileRead == \A path : File(disk, path) = readConfig(path)
BY DEF File, readConfig

LEMMA MainRead == MainFile(disk) = readConfig(<<"main">>)
BY FileRead DEF MainFile

LEMMA NothingThere == DOMAIN NoParams = {} /\ ~isValid(NoParams)
BY DEF NoParams, isValid

\* A parameter that only the main file may have.
MainOnly(f, name) ==
  name \in DOMAIN f => name \in DOMAIN MainFile(disk) /\ f[name] = MainFile(disk)[name]

LEMMA ReadMainOnly ==
  ASSUME disk \in Disks, NEW path, NEW name \in {LocationName, RegionMapName}
  PROVE  MainOnly(readConfig(path), name) /\ MainOnly(NoParams, name)
<1>1. CASE path = <<"main">>
  BY <1>1, MainRead, NothingThere DEF MainOnly
<1>2. CASE path # <<"main">>
  <2>1. CASE path \in DOMAIN disk
    <3>1. path \in DOMAIN disk \ {<<"main">>}
      BY <1>2, <2>1
    <3>2. DOMAIN disk[path] \cap {LocationName, RegionMapName} = {}
      BY <3>1, NamesAssumption DEF LocationName, RegionMapName
    <3>3. readConfig(path) = disk[path]
      BY <2>1 DEF readConfig
    <3> QED BY <3>2, <3>3, NothingThere DEF MainOnly
  <2>2. CASE path \notin DOMAIN disk
    BY <2>2, NothingThere DEF MainOnly, readConfig
  <2> QED BY <2>1, <2>2
<1> QED BY <1>1, <1>2

LEMMA TemplatesTyped ==
  ASSUME disk \in Disks
  PROVE  /\ Templates \in Seq(Template) /\ Len(Templates) \in Nat
         /\ DOMAIN Templates = 1..Len(Templates)
         /\ \A i \in 1..Len(Templates) : Templates[i] \in Template
<1>1. Templates \in Seq(Template)
  <2>1. CASE "EXTRA_CONF_PATHS" \in DOMAIN MainFile(disk)
    <3>1. <<"main">> \in DOMAIN disk /\ MainFile(disk) = disk[<<"main">>]
      BY <2>1, NothingThere DEF MainFile, File
    <3>2. disk[<<"main">>]["EXTRA_CONF_PATHS"] \in Seq(Template)
      BY <2>1, <3>1, DisksAssumption DEF Template
    <3> QED BY <2>1, <3>1, <3>2 DEF Templates, Named
  <2>2. CASE "EXTRA_CONF_PATHS" \notin DOMAIN MainFile(disk)
    BY <2>2 DEF Templates, Named
  <2> QED BY <2>1, <2>2
<1> HIDE DEF Templates
<1> QED BY <1>1, LenProperties, ElementOfSeq

\* The scan of the locations picks the first of the newest files.
LEMMA PickedCaps ==
  ASSUME disk \in Disks
  PROVE  CapsFile(disk) = IF LocationName \in DOMAIN MainFile(disk)
                          THEN PickCaps(MainFile(disk)[LocationName]) ELSE NoParams
<1> DEFINE places == Named(disk, LocationName, <<>>)
           at(i)  == File(disk, <<places[i]>>)
           dated  == {i \in DOMAIN places : "VERSION" \in DOMAIN at(i) /\ at(i)["VERSION"] >= 0}
           newest == {i \in dated : \A j \in dated :
                        /\ at(j)["VERSION"] <= at(i)["VERSION"]
                        /\ at(j)["VERSION"] = at(i)["VERSION"] => i <= j}
<1>0. CapsFile(disk) = IF newest = {} THEN NoParams ELSE at(CHOOSE i \in newest : TRUE)
  BY DEF CapsFile, LocationName
<1>1. CASE LocationName \notin DOMAIN MainFile(disk)
  <2>1. places = <<>>
    BY <1>1 DEF Named
  <2>2. newest = {}
    BY <2>1
  <2> QED BY <1>0, <1>1, <2>2
<1>2. CASE LocationName \in DOMAIN MainFile(disk)
  <2> DEFINE version(i) == LET map == readConfig(<<places[i]>>)
                           IN  IF "VERSION" \in DOMAIN map THEN map["VERSION"] ELSE -2
             best == {i \in DOMAIN places :
                        /\ version(i) > -1
                        /\ \A j \in DOMAIN places : version(j) <= version(i)
                        /\ \A j \in 1..(i - 1) : version(j) < version(i)}
  <2>1. places = MainFile(disk)[LocationName]
    BY <1>2 DEF Named
  <2>2. places \in Seq(STRING)
    <3>1. <<"main">> \in DOMAIN disk /\ MainFile(disk) = disk[<<"main">>]
      BY <1>2, NothingThere DEF MainFile, File
    <3> QED BY <1>2, <2>1, <3>1, NamesAssumption DEF LocationName
  <2>3. PickCaps(places) = IF best = {} THEN NoParams
                           ELSE readConfig(<<places[CHOOSE i \in best : TRUE]>>)
    BY DEF PickCaps
  <2>4. \A i : at(i) = readConfig(<<places[i]>>)
    BY FileRead
  <2>5. ASSUME NEW i
        PROVE  /\ version(i) \in Int
               /\ "VERSION" \in DOMAIN at(i) => version(i) = at(i)["VERSION"]
               /\ "VERSION" \notin DOMAIN at(i) => version(i) = -2
    <3>1. at(i) = readConfig(<<places[i]>>)
      BY <2>4
    <3>2. CASE "VERSION" \in DOMAIN readConfig(<<places[i]>>)
      <4>1. <<places[i]>> \in DOMAIN disk /\ readConfig(<<places[i]>>) = disk[<<places[i]>>]
        BY <3>2, NothingThere DEF readConfig
      <4>2. readConfig(<<places[i]>>)["VERSION"] \in Int
        BY <3>2, <4>1, NamesAssumption
      <4> QED BY <3>1, <3>2, <4>2
    <3>3. CASE "VERSION" \notin DOMAIN readConfig(<<places[i]>>)
      BY <3>1, <3>3
    <3> QED BY <3>2, <3>3
  <2>6. DOMAIN places = 1..Len(places) /\ Len(places) \in Nat
    BY <2>2, LenProperties
  <2> HIDE DEF places, at, version
  <2>7. dated = {i \in DOMAIN places : version(i) > -1}
    BY <2>5
  <2>8. newest = {i \in dated : \A j \in dated :
                    version(j) <= version(i) /\ (version(j) = version(i) => i <= j)}
    BY <2>5
  <2> HIDE DEF dated, newest
  <2>9. newest = best
    <3>1. ASSUME NEW i \in newest PROVE i \in best
      <4>1. i \in DOMAIN places /\ version(i) > -1
        BY <2>7, <2>8, <3>1
      <4>2. ASSUME NEW j \in DOMAIN places
            PROVE  version(j) <= version(i) /\ (version(j) = version(i) => i <= j)
        <5>1. CASE j \in dated
          BY <2>8, <3>1, <5>1
        <5>2. CASE j \notin dated
          BY <2>5, <2>7, <4>1, <5>2
        <5> QED BY <5>1, <5>2
      <4>3. ASSUME NEW j \in 1..(i - 1) PROVE version(j) < version(i)
        <5>1. j \in DOMAIN places /\ ~(i <= j)
          BY <2>6, <4>1
        <5> QED BY <2>5, <4>2, <5>1
      <4> QED BY <4>1, <4>2, <4>3
    <3>2. ASSUME NEW i \in best PROVE i \in newest
      <4>1. i \in dated
        BY <2>7
      <4>2. ASSUME NEW j \in dated, version(j) = version(i) PROVE i <= j
        <5>1. j \in 1..Len(places) /\ i \in 1..Len(places)
          BY <2>6, <2>7
        <5>2. j \notin 1..(i - 1)
          BY <2>5, <4>2
        <5> QED BY <5>1, <5>2, <2>6
      <4>3. \A j \in dated : version(j) <= version(i)
        BY <2>7
      <4> QED BY <2>8, <4>1, <4>2, <4>3
    <3> QED BY <3>1, <3>2
  <2> QED BY <1>0, <1>2, <2>1, <2>3, <2>4, <2>9
<1> QED BY <1>1, <1>2


LEMMA CapsRead ==
  ASSUME disk \in Disks
  PROVE  \/ CapsFile(disk) = NoParams
         \/ \E path : CapsFile(disk) = readConfig(path) /\ isValid(readConfig(path))
<1> DEFINE places == Named(disk, LocationName, <<>>)
           at(i)  == File(disk, <<places[i]>>)
           dated  == {i \in DOMAIN places : "VERSION" \in DOMAIN at(i) /\ at(i)["VERSION"] >= 0}
           newest == {i \in dated : \A j \in dated :
                        /\ at(j)["VERSION"] <= at(i)["VERSION"]
                        /\ at(j)["VERSION"] = at(i)["VERSION"] => i <= j}
           pick == CHOOSE i \in newest : TRUE
<1>1. CapsFile(disk) = IF newest = {} THEN NoParams ELSE at(pick)
  BY DEF CapsFile, LocationName
<1>2. at(pick) = readConfig(<<places[pick]>>)
  BY FileRead
<1>3. CASE newest # {}
  <2>1. pick \in newest
    BY <1>3
  <2>2. "VERSION" \in DOMAIN at(pick)
    BY <2>1
  <2> HIDE DEF newest, at, pick
  <2> QED BY <1>1, <1>2, <1>3, <2>2 DEF isValid
<1> QED BY <1>1, <1>3

\* A lookup of a parameter that only the main file has.
LEMMA NamedLookup ==
  ASSUME disk \in Disks, NEW name, NEW caps \in Contents, NEW extra \in Seq(Configs),
         NEW uci \in Contents,
         MainOnly(caps, name), MainOnly(uci, name),
         \A i \in 1..Len(extra) : MainOnly(extra[i].map, name)
  PROVE  LET layers == Layers(caps, extra, MainFile(disk), uci)
         IN  /\ Hits(layers, name) # {} <=> name \in DOMAIN MainFile(disk)
             /\ Hits(layers, name) # {} => valueIn(layers, name) = MainFile(disk)[name]
<1> DEFINE layers == Layers(caps, extra, MainFile(disk), uci)
           n == Len(extra)
<1>1. MainFile(disk) \in Contents
  BY MainRead, Reading
<1>2. Stacked(layers, n, caps, extra, MainFile(disk), uci)
  BY <1>1, LayersShape
<1> HIDE DEF layers, n
<1>3. ASSUME NEW i \in DOMAIN layers PROVE MainOnly(layers[i], name)
  <2>1. CASE i \in {1, n + 2, n + 3}
    BY <1>2, <2>1 DEF Stacked, MainOnly
  <2>2. CASE i \in 2..(n + 1)
    <3>1. n + 2 - i \in 1..n /\ layers[i] = extra[n + 2 - i].map
      BY <1>2, <2>2 DEF Stacked
    <3> QED BY <3>1 DEF n
  <2> QED BY <1>2, <2>1, <2>2 DEF Stacked
<1>4. Hits(layers, name) # {} => name \in DOMAIN MainFile(disk)
  BY <1>3 DEF Hits, MainOnly
<1>5. name \in DOMAIN MainFile(disk) => Hits(layers, name) # {}
  <2>1. n + 2 \in DOMAIN layers /\ layers[n + 2] = MainFile(disk)
    BY <1>2 DEF Stacked
  <2> QED BY <2>1 DEF Hits
<1>6. ASSUME Hits(layers, name) # {} PROVE valueIn(layers, name) = MainFile(disk)[name]
  <2> DEFINE first == CHOOSE i \in Hits(layers, name) : \A j \in Hits(layers, name) : i <= j
  <2>1. layers \in Seq(Contents)
    BY <1>2 DEF Stacked
  <2>2. first \in Hits(layers, name) /\ valueIn(layers, name) = layers[first][name]
    BY <1>6, <2>1, Lookup
  <2> HIDE DEF first
  <2> QED BY <1>3, <2>2 DEF Hits, MainOnly
<1> QED BY <1>4, <1>5, <1>6 DEF layers

-----------------------------------------------------------------------------
(* Opening.                                                                 *)

\* The extra files of the main file, as an open reads them.
LEMMA FreshExtras ==
  ASSUME disk \in Disks
  PROVE  LET extra == ExtraConfigs(MainFile(disk))
         IN  /\ extra \in Seq(Configs) /\ Len(extra) = Len(Templates)
             /\ \A i \in 1..Len(Templates) : AsRead(disk, extra[i], Templates[i], "")
<1> DEFINE extra == ExtraConfigs(MainFile(disk))
<1>1. extra \in Seq(Configs)
  BY MainRead, Reading, ExtraTyped
<1>2. extra = [i \in 1..Len(Templates) |-> CUwbNxpConfig(Templates[i])]
  BY DEF ExtraConfigs, Templates, Named
<1>3. Len(extra) = Len(Templates)
  BY <1>2, TemplatesTyped
<1>4. \A template \in Template : AsRead(disk, CUwbNxpConfig(template), template, "")
  BY FileRead DEF AsRead, CUwbNxpConfig, ExtraMap, Template
<1>5. ASSUME NEW i \in 1..Len(Templates) PROVE AsRead(disk, extra[i], Templates[i], "")
  <2>1. extra[i] = CUwbNxpConfig(Templates[i]) /\ Templates[i] \in Template
    BY <1>2, TemplatesTyped
  <2> HIDE DEF extra
  <2> QED BY <1>4, <2>1
<1> QED BY <1>1, <1>3, <1>5

LEMMA ExtraMainOnly ==
  ASSUME disk \in Disks, NEW config, NEW template, NEW r, AsRead(disk, config, template, r),
         NEW name \in {LocationName, RegionMapName}
  PROVE  MainOnly(config.map, name)
BY ReadMainOnly, FileRead DEF AsRead, ExtraMap

LEMMA MapKept ==
  ASSUME disk \in Disks,
         MapLoaded \/ mRegionMap = NoParams,
         mRegionMap' = loadMapping(mRegionMap, RegionMap(disk)), disk' = disk
  PROVE  MapLoaded'
<1>1. ASSUME NEW c \in Codes
      PROVE  {r \in DOMAIN mRegionMap' : c \in mRegionMap'[r]}
               = {r \in DOMAIN RegionMap(disk) : c \in RegionMap(disk)[r] \cap UpperCodes}
  <2> DEFINE file == RegionMap(disk)
             mine == {r \in DOMAIN file : c \in file[r] \cap UpperCodes}
             loaded == loadMapping(mRegionMap, file)
  <2>1. {r \in DOMAIN mRegionMap : c \in mRegionMap[r]} \in {{}, mine}
    BY NothingThere DEF MapLoaded
  <2>2. DOMAIN loaded = DOMAIN mRegionMap \cup DOMAIN file
    BY DEF loadMapping
  <2>3. ASSUME NEW r \in DOMAIN loaded
        PROVE  c \in loaded[r] <=> \/ r \in DOMAIN mRegionMap /\ c \in mRegionMap[r]
                                   \/ r \in DOMAIN file /\ c \in file[r] \cap UpperCodes
    BY DEF loadMapping
  <2> HIDE DEF file, loaded
  <2>4. {r \in DOMAIN loaded : c \in loaded[r]}
          = {r \in DOMAIN mRegionMap : c \in mRegionMap[r]} \cup mine
    BY <2>2, <2>3
  <2>5. mRegionMap' = loaded
    BY DEF loaded, file
  <2> QED BY <2>1, <2>4, <2>5 DEF file
<1> QED BY <1>1 DEF MapLoaded

LEMMA ExtrasAppended ==
  ASSUME NEW d, NEW r, NEW old \in Seq(Configs), NEW fresh \in Seq(Configs),
         NEW templates \in Seq(Template), Len(fresh) = Len(templates),
         \A i \in 1..Len(templates) : AsRead(d, fresh[i], templates[i], r),
         old = <<>> \/ ExtrasAre(d, old, templates, r)
  PROVE  old \o fresh \in Seq(Configs) /\ ExtrasAre(d, old \o fresh, templates, r)
<1> DEFINE n == Len(templates)
           m == Len(old)
           both == old \o fresh
<1>1. n \in Nat /\ m \in Nat
  BY LenProperties
<1>2. /\ both \in Seq(Configs) /\ Len(both) = m + n
      /\ \A i \in 1..(m + n) : both[i] = IF i <= m THEN old[i] ELSE fresh[i - m]
  <2>1. /\ both \in Seq(Configs) /\ Len(both) = Len(old) + Len(fresh)
        /\ \A i \in 1..(Len(old) + Len(fresh)) :
             both[i] = IF i <= Len(old) THEN old[i] ELSE fresh[i - Len(old)]
    BY ConcatProperties
  <2> HIDE DEF both
  <2> QED BY <2>1
<1>3. \A i \in 1..m : \E j \in 1..n : AsRead(d, old[i], templates[j], r)
  BY DEF ExtrasAre
<1>4. \A i \in 1..n : AsRead(d, fresh[i], templates[i], r)
  OBVIOUS
<1> HIDE DEF both, n, m
<1>5. ASSUME NEW i \in 1..n PROVE AsRead(d, both[(m + n) - n + i], templates[i], r)
  <2>1. /\ m + i \in 1..(m + n) /\ ~(m + i <= m) /\ (m + i) - m = i
        /\ (m + n) - n + i = m + i
    BY <1>1
  <2> QED BY <1>2, <1>4, <2>1
<1>6. ASSUME NEW i \in 1..(m + n)
      PROVE  \E j \in 1..n : AsRead(d, both[i], templates[j], r)
  <2>1. CASE i <= m
    <3>1. i \in 1..m /\ both[i] = old[i]
      BY <1>1, <1>2, <2>1
    <3> QED BY <1>3, <3>1
  <2>2. CASE ~(i <= m)
    <3>1. i - m \in 1..n /\ both[i] = fresh[i - m]
      BY <1>1, <1>2, <2>2
    <3> QED BY <1>4, <3>1
  <2> QED BY <2>1, <2>2
<1>7. n <= m + n
  BY <1>1
<1> QED BY <1>2, <1>5, <1>6, <1>7 DEF ExtrasAre, both, n

\* An open loads everything, also after one that failed.
LEMMA OpenLoads ==
  ASSUME FilesInv, FilesInv', mCurRegionCode = "", NothingLoaded \/ AllLoaded, NxpConfig_Init
  PROVE  AllLoaded' /\ mCurRegionCode' = ""
<1> DEFINE main == MainFile(disk)
           extra == mExtraConfig \o ExtraConfigs(main)
           before == Layers(mCapsConfig, extra, main, mUciConfig')
           picked == IF Hits(before, LocationName) = {} THEN NoParams
                     ELSE PickCaps(valueIn(before, LocationName))
           layers == Layers(mCapsConfig', extra, main, mUciConfig')
           region == IF Hits(layers, RegionMapName) = {} THEN NoParams
                     ELSE readConfig(<<valueIn(layers, RegionMapName)>>)
<1>1. disk \in Disks /\ disk' = disk /\ mCurRegionCode' = ""
  BY DEF NxpConfig_Init, FilesInv
<1>2. main = readConfig(<<"main">>) /\ Uci = readConfig(<<"uci">>)
  BY MainRead, FileRead DEF Uci
<1>3. MainFile(disk)' = main /\ Templates' = Templates /\ Uci' = Uci
      /\ CapsFile(disk)' = CapsFile(disk)
  BY <1>1 DEF Templates, Uci
<1>4. CASE ~isValid(main)
  <2>1. UNCHANGED files
    BY <1>2, <1>4 DEF NxpConfig_Init
  <2>2. NothingLoaded
    BY <1>4 DEF AllLoaded
  <2>3. NothingLoaded'
    BY <2>1, <2>2 DEF files, NothingLoaded
  <2> QED BY <1>1, <1>3, <1>4, <2>3 DEF AllLoaded
<1>5. CASE isValid(main)
  <2>1. /\ mMainConfig' = main
        /\ mUciConfig' = IF isValid(Uci) THEN Uci ELSE mUciConfig
        /\ mExtraConfig' = extra
        /\ mCapsConfig' = IF isValid(picked) THEN picked ELSE mCapsConfig
        /\ mRegionMap' = loadMapping(mRegionMap, region)
    BY <1>2, <1>5 DEF NxpConfig_Init, LocationName, RegionMapName
  <2>2. /\ NothingLoaded \/ (AllLoaded /\ mCapsConfig = CapsFile(disk))
        /\ mCapsConfig \in {NoParams, CapsFile(disk)}
        /\ isValid(Uci) \/ ~isValid(mUciConfig)
        /\ mExtraConfig = <<>> \/ ExtrasAre(disk, mExtraConfig, Templates, "")
        /\ mRegionMap = NoParams \/ MapLoaded
    BY <1>5, NothingThere DEF AllLoaded, NothingLoaded, ExtrasLoaded
  <2>3. /\ mUciConfig' \in Contents
        /\ IF isValid(Uci) THEN mUciConfig' = Uci ELSE ~isValid(mUciConfig')
    BY <2>1, <2>2 DEF FilesInv
  <2>4. extra \in Seq(Configs) /\ ExtrasAre(disk, extra, Templates, "")
    BY <1>1, <2>2, FreshExtras, TemplatesTyped, ExtrasAppended DEF FilesInv
  <2> HIDE DEF extra
  <2>5. ASSUME NEW name \in {LocationName, RegionMapName}
        PROVE  /\ MainOnly(mUciConfig', name) /\ MainOnly(CapsFile(disk), name)
               /\ MainOnly(NoParams, name)
               /\ \A i \in 1..Len(extra) : MainOnly(extra[i].map, name)
    <3>1. MainOnly(Uci, name) /\ MainOnly(CapsFile(disk), name) /\ MainOnly(NoParams, name)
      BY <1>1, <1>2, CapsRead, ReadMainOnly
    <3>2. MainOnly(mUciConfig', name)
      BY <2>3, <3>1 DEF MainOnly, isValid
    <3>3. ASSUME NEW i \in 1..Len(extra) PROVE MainOnly(extra[i].map, name)
      BY <1>1, <2>4, ExtraMainOnly DEF ExtrasAre
    <3> QED BY <3>1, <3>2, <3>3
  <2>6. CapsFile(disk) \in Contents /\ NoParams \in Contents
    BY <1>1, CapsRead, Reading, NoFiles
  <2>7. picked = CapsFile(disk)
    <3>1. mCapsConfig \in Contents /\ MainOnly(mCapsConfig, LocationName)
      BY <2>2, <2>5, <2>6
    <3>2. /\ Hits(before, LocationName) # {} <=> LocationName \in DOMAIN main
          /\ Hits(before, LocationName) # {} => valueIn(before, LocationName) = main[LocationName]
      BY <1>1, <2>3, <2>4, <2>5, <3>1, NamedLookup
    <3> HIDE DEF before
    <3> QED BY <1>1, <3>2, PickedCaps
  <2>8. mCapsConfig' = CapsFile(disk)
    <3>1. isValid(CapsFile(disk)) \/ CapsFile(disk) = NoParams
      BY <1>1, CapsRead
    <3> HIDE DEF picked
    <3> QED BY <2>1, <2>2, <2>7, <3>1
  <2>9. region = RegionMap(disk)
    <3>1. /\ Hits(layers, RegionMapName) # {} <=> RegionMapName \in DOMAIN main
          /\ Hits(layers, RegionMapName) # {} =>
               valueIn(layers, RegionMapName) = main[RegionMapName]
      BY <1>1, <2>3, <2>4, <2>5, <2>6, <2>8, NamedLookup
    <3> HIDE DEF layers
    <3> QED BY <3>1, FileRead DEF RegionMap, RegionMapName
  <2>10. MapLoaded'
    <3> HIDE DEF region
    <3> QED BY <1>1, <2>1, <2>2, <2>9, MapKept
  <2>11. ExtrasLoaded'
    BY <1>1, <1>3, <2>1, <2>4 DEF ExtrasLoaded
  <2> QED BY <1>1, <1>3, <1>5, <2>1, <2>3, <2>8, <2>10, <2>11 DEF AllLoaded
<1> QED BY <1>1, <1>4, <1>5

-----------------------------------------------------------------------------
(* Setting a country.                                                       *)

\* The region map gives every code its region.
LEMMA RegionRight ==
  ASSUME FilesInv, AllLoaded, NEW c \in Codes
  PROVE  xlateCountryCode(c) = RegionOf(disk, c) /\ IsRegion(RegionOf(disk, c))
<1> DEFINE mine == {r \in DOMAIN RegionMap(disk) : c \in RegionMap(disk)[r] \cap UpperCodes}
           regions == {r \in DOMAIN mRegionMap : c \in mRegionMap[r]}
<1>1. RegionOf(disk, c) = IF mine = {} THEN c ELSE CHOOSE r \in mine : TRUE
  BY DEF RegionOf
<1>2. xlateCountryCode(c) = IF regions = {} THEN c ELSE CHOOSE r \in regions : TRUE
  BY DEF xlateCountryCode
<1>3. regions = mine
  <2>1. CASE isValid(MainFile(disk))
    BY <2>1 DEF AllLoaded, MapLoaded
  <2>2. CASE ~isValid(MainFile(disk))
    <3>1. mRegionMap = NoParams
      BY <2>2 DEF AllLoaded, NothingLoaded
    <3>2. RegionMap(disk) = NoParams
      BY <2>2 DEF RegionMap, isValid
    <3> QED BY <3>1, <3>2, NothingThere
  <2> QED BY <2>1, <2>2
<1>4. "" \notin mine
  <2>1. \A path : "" \notin DOMAIN readConfig(path)
    BY NamesAssumption, NothingThere DEF readConfig, FilesInv
  <2>2. RegionMap(disk) = NoParams \/ \E path : RegionMap(disk) = readConfig(path)
    BY FileRead DEF RegionMap
  <2> QED BY <2>1, <2>2, NothingThere
<1>5. c # ""
  BY NamesAssumption
<1> HIDE DEF mine, regions
<1>6. CASE mine = {}
  BY <1>1, <1>2, <1>3, <1>5, <1>6 DEF IsRegion
<1>7. CASE mine # {}
  <2>1. (CHOOSE r \in mine : TRUE) \in mine
    BY <1>7
  <2> QED BY <1>1, <1>2, <1>3, <1>4, <1>7, <2>1 DEF IsRegion
<1> QED BY <1>6, <1>7

LEMMA ReadAgain ==
  ASSUME NEW config \in Configs, NEW template \in Template, NEW old, NEW r,
         AsRead(disk, config, template, old), IsRegion(r)
  PROVE  AsRead(disk, setCountry(config, r), template, r)
<1>1. CASE ~config.country
  BY <1>1 DEF AsRead, ExtraMap, setCountry
<1>2. CASE config.country
  <2> DEFINE read == readConfig(<<config.path, r>>)
  <2>1. setCountry(config, r) = [config EXCEPT !.map = read]
    BY <1>2 DEF setCountry
  <2>2. read = File(disk, <<template.path, r>>)
    BY FileRead DEF AsRead
  <2> HIDE DEF read
  <2>3. /\ setCountry(config, r).path = config.path
        /\ setCountry(config, r).country = config.country
        /\ setCountry(config, r).map = read
    BY <2>1 DEF Configs
  <2> QED BY <1>2, <2>2, <2>3 DEF AsRead, ExtraMap, IsRegion
<1> QED BY <1>1, <1>2

LEMMA Tabulated ==
  ASSUME NEW m \in Nat, NEW f, f = [i \in 1..m |-> f[i]]
  PROVE  Len(f) = m
OBVIOUS

LEMMA LastOnes ==
  ASSUME NEW n \in Nat, NEW m \in Nat, n <= m, NEW i \in 1..n
  PROVE  m - n + i \in 1..m
OBVIOUS

LEMMA ExtrasReread ==
  ASSUME disk \in Disks, NEW extra \in Seq(Configs), NEW old, NEW r, IsRegion(r),
         ExtrasAre(disk, extra, Templates, old)
  PROVE  ExtrasAre(disk, [i \in DOMAIN extra |-> setCountry(extra[i], r)], Templates, r)
<1> DEFINE n == Len(Templates)
           m == Len(extra)
           again == [i \in DOMAIN extra |-> setCountry(extra[i], r)]
<1>1. /\ n \in Nat /\ m \in Nat /\ DOMAIN extra = 1..m
      /\ \A i \in 1..n : Templates[i] \in Template
      /\ \A i \in 1..m : extra[i] \in Configs
  BY TemplatesTyped, LenProperties, ElementOfSeq
<1>2. Len(again) = m /\ \A i \in 1..m : again[i] = setCountry(extra[i], r)
  <2>1. again = [i \in 1..m |-> setCountry(extra[i], r)]
    BY <1>1
  <2>2. m \in Nat
    BY <1>1
  <2> HIDE DEF m, again
  <2>3. again = [i \in 1..m |-> again[i]]
    BY <2>1
  <2>4. Len(again) = m
    BY <2>2, <2>3, Tabulated
  <2> QED BY <2>1, <2>4
<1>3. /\ n <= m
      /\ \A i \in 1..n : AsRead(disk, extra[m - n + i], Templates[i], old)
      /\ \A i \in 1..m : \E j \in 1..n : AsRead(disk, extra[i], Templates[j], old)
  BY DEF ExtrasAre
<1> HIDE DEF n, m, again
<1>4. ASSUME NEW i \in 1..n PROVE AsRead(disk, again[m - n + i], Templates[i], r)
  <2>1. n \in Nat /\ m \in Nat /\ n <= m
    BY <1>1, <1>3
  <2>2. m - n + i \in 1..m
    BY <2>1, LastOnes
  <2> QED BY <1>1, <1>2, <1>3, <2>2, ReadAgain
<1>5. ASSUME NEW i \in 1..m PROVE \E j \in 1..n : AsRead(disk, again[i], Templates[j], r)
  <2>1. PICK j \in 1..n : AsRead(disk, extra[i], Templates[j], old)
    BY <1>3
  <2>2. AsRead(disk, again[i], Templates[j], r)
    BY <1>1, <1>2, <2>1, ReadAgain
  <2> QED BY <2>2
<1> QED BY <1>2, <1>3, <1>4, <1>5 DEF ExtrasAre, again, n

LEMMA CountryLoads ==
  ASSUME FilesInv, AllLoaded, NEW c \in Codes, NxpConfig_SetCountryCode(c)
  PROVE  AllLoaded' /\ mCurRegionCode' = RegionOf(disk, c)
<1> DEFINE r == xlateCountryCode(c)
<1>1. UNCHANGED <<disk, mMainConfig, mUciConfig, mCapsConfig, mRegionMap>> /\ mCurRegionCode' = r
  BY DEF NxpConfig_SetCountryCode
<1>2. r = RegionOf(disk, c) /\ IsRegion(r)
  BY RegionRight
<1>3. mExtraConfig' = IF r = mCurRegionCode THEN mExtraConfig
                      ELSE [i \in DOMAIN mExtraConfig |-> setCountry(mExtraConfig[i], r)]
  BY DEF NxpConfig_SetCountryCode, sameRegion
<1>4. UNCHANGED <<MainFile(disk), Templates, Uci, CapsFile(disk), RegionMap(disk)>>
  BY <1>1 DEF Templates, Uci
<1> HIDE DEF r
<1>5. CASE ~isValid(MainFile(disk))
  <2>1. NothingLoaded
    BY <1>5 DEF AllLoaded
  <2>2. mExtraConfig' \in Seq(Configs) /\ Len(mExtraConfig') = 0
    BY <2>1, CountryFiles DEF NothingLoaded
  <2>3. mExtraConfig' = <<>>
    BY <2>2, EmptySeq
  <2> QED BY <1>1, <1>2, <1>4, <1>5, <2>1, <2>3 DEF AllLoaded, NothingLoaded
<1>6. CASE isValid(MainFile(disk))
  <2>1. ExtrasLoaded
    BY <1>6 DEF AllLoaded
  <2>2. ExtrasAre(disk, mExtraConfig', Templates, r)
    BY <1>2, <1>3, <2>1, ExtrasReread DEF ExtrasLoaded, FilesInv
  <2>3. ExtrasLoaded'
    BY <1>1, <1>4, <2>2 DEF ExtrasLoaded
  <2>4. MapLoaded'
    BY <1>1, <1>4, <1>6 DEF AllLoaded, MapLoaded
  <2> QED BY <1>1, <1>2, <1>4, <1>6, <2>3, <2>4 DEF AllLoaded
<1> QED BY <1>5, <1>6

LEMMA LoadedKept ==
  ASSUME UNCHANGED configVars
  PROVE  (AllLoaded' <=> AllLoaded) /\ (NothingLoaded' <=> NothingLoaded)
<1>1. UNCHANGED <<disk, mMainConfig, mUciConfig, mExtraConfig, mCapsConfig, mRegionMap,
                  mCurRegionCode>>
  BY DEF configVars, files
<1>2. UNCHANGED <<MainFile(disk), Templates, Uci, CapsFile(disk), RegionMap(disk)>>
  BY <1>1 DEF Templates, Uci
<1>3. (ExtrasLoaded' <=> ExtrasLoaded) /\ (MapLoaded' <=> MapLoaded)
  BY <1>1, <1>2 DEF ExtrasLoaded, MapLoaded
<1> QED BY <1>1, <1>2, <1>3 DEF AllLoaded, NothingLoaded

LEMMA LoadInit == Init => LoadInv
BY DEF Init, ConfigInit, LoadInv, NothingLoaded

LEMMA LoadKept ==
  ASSUME LoadInv, UNCHANGED <<configVars, halStatus>>
  PROVE  LoadInv'
<1>1. mCurRegionCode' = mCurRegionCode
  BY DEF configVars
<1> QED BY <1>1, LoadedKept DEF LoadInv

LEMMA LoadStep == Typed /\ Typed' /\ LoadInv /\ [Next]_vars => LoadInv'
<1> SUFFICES ASSUME Typed, Typed', LoadInv, [Next]_vars PROVE LoadInv'
  OBVIOUS
<1>1. CASE Open
  BY <1>1, OpenLoads DEF Open, Typed, LoadInv
<1>2. CASE Close
  BY <1>2 DEF Close, NxpConfig_Deinit, LoadInv, NothingLoaded
<1>3. ASSUME NEW c \in Codes, handle_set_country_code(c) PROVE LoadInv'
  <2>1. AllLoaded'
    BY <1>3, CountryLoads DEF handle_set_country_code, LoadInv, Typed
  <2> QED BY <1>3, <2>1 DEF handle_set_country_code, hal, LoadInv
<1>4. CASE UNCHANGED <<configVars, halStatus>>
  BY <1>4, LoadKept
<1>5. CASE Load \/ applyCountryCaps \/ setCalibParamTxPower \/ capsApplied
  BY <1>4, <1>5 DEF Load, applyCountryCaps, setCalibParamTxPower, capsApplied, hal
<1>6. CASE \/ extcal_do_tx_power \/ extcal_do_tx_pulse_shape \/ ddfsToneConfig \/ txBaseBandControl
           \/ Answer \/ getCapsInfo
  BY <1>4, <1>6 DEF extcal_do_tx_power, extcal_do_tx_pulse_shape, ddfsToneConfig,
       txBaseBandControl, Answer, getCapsInfo, hal
<1>7. ASSUME NEW calibration \in Powers, processCalibParamTxPowerPerAntenna(calibration)
      PROVE  LoadInv'
  BY <1>4, <1>7 DEF processCalibParamTxPowerPerAntenna, hal
<1>8. CASE UNCHANGED vars
  BY <1>4, <1>8 DEF vars, hal
<1> QED BY <1>1, <1>2, <1>3, <1>5, <1>6, <1>7, <1>8 DEF Next

-----------------------------------------------------------------------------
(* The cascade answers a lookup with what the files say.                    *)

LEMMA Biggest ==
  ASSUME NEW n \in Nat, NEW T, T \subseteq 1..n, T # {}
  PROVE  \E x \in T : \A y \in T : y <= x
<1> DEFINE down == {n - x : x \in T}
<1>1. down \subseteq Nat /\ down # {}
  <2>1. \A x \in T : n - x \in Nat
    OBVIOUS
  <2> QED BY <2>1
<1>2. PICK least \in down : \A y \in down : least <= y
  BY <1>1, Smallest
<1>3. PICK x \in T : least = n - x
  OBVIOUS
<1>4. ASSUME NEW y \in T PROVE y <= x
  <2>1. n - x <= n - y
    BY <1>2, <1>3
  <2>2. x \in 1..n /\ y \in 1..n
    OBVIOUS
  <2> QED BY <2>1, <2>2
<1> QED BY <1>4

LEMMA FirstHit ==
  ASSUME NEW layers \in Seq(Contents), NEW name, NEW p \in Hits(layers, name),
         \A q \in Hits(layers, name) : p <= q
  PROVE  valueIn(layers, name) = layers[p][name]
<1> DEFINE first == CHOOSE i \in Hits(layers, name) : \A j \in Hits(layers, name) : i <= j
<1>1. first \in Hits(layers, name) /\ \A j \in Hits(layers, name) : first <= j
  OBVIOUS
<1>2. Hits(layers, name) \subseteq Nat
  BY LenProperties DEF Hits
<1> HIDE DEF first
<1>3. first = p
  BY <1>1, <1>2
<1> QED BY <1>3 DEF valueIn, first

LEMMA LastExtra ==
  ASSUME NEW n \in Nat, NEW m \in Nat, n <= m, NEW last \in 1..n
  PROVE  /\ m - n + last \in 1..m /\ m + 2 - (m - n + last) = n + 2 - last
         /\ \A q \in 2..(m + 1) : q < n + 2 - last =>
              \E i \in 1..n : last < i /\ m + 2 - q = m - n + i
<1>1. ASSUME NEW q \in 2..(m + 1), q < n + 2 - last
      PROVE  \E i \in 1..n : last < i /\ m + 2 - q = m - n + i
  <2>1. n + 2 - q \in 1..n /\ last < n + 2 - q /\ m + 2 - q = m - n + (n + 2 - q)
    BY <1>1
  <2> QED BY <2>1
<1> QED BY <1>1

\* What the layers hold, for a lookup of one parameter.
LEMMA LayersLoaded ==
  ASSUME FilesInv, AllLoaded, isValid(MainFile(disk)), NEW name,
         NEW r, IsRegion(r), mCurRegionCode = r
  PROVE  LET n == Len(Templates)
             m == Len(mExtraConfig)
             hits == Hits(Cascade, name)
             extras == Extras(disk, r, name)
         IN  /\ n \in Nat /\ m \in Nat /\ n <= m /\ extras \subseteq 1..n
             /\ Cascade \in Seq(Contents) /\ hits \subseteq 1..(m + 3)
             /\ 1 \in hits <=> name \in DOMAIN CapsFile(disk)
             /\ Cascade[1] = CapsFile(disk)
             /\ \A i \in 1..n : /\ m + 2 - (m - n + i) \in hits <=> i \in extras
                                /\ Cascade[m + 2 - (m - n + i)] = ExtraFile(disk, r, i)
             /\ extras = {} => \A q \in 2..(m + 1) : q \notin hits
             /\ m + 2 \in hits <=> name \in DOMAIN MainFile(disk)
             /\ Cascade[m + 2] = MainFile(disk)
             /\ m + 3 \in hits <=> name \in DOMAIN Uci
             /\ name \in DOMAIN Uci => Cascade[m + 3] = Uci
<1> DEFINE n == Len(Templates)
           m == Len(mExtraConfig)
           layers == Cascade
           hits == Hits(layers, name)
           extras == Extras(disk, r, name)
<1>0. DOMAIN Templates = 1..n
  BY TemplatesTyped DEF FilesInv
<1>1. n \in Nat /\ m \in Nat
  BY TemplatesTyped, LenProperties DEF FilesInv
<1>2. Stacked(layers, m, mCapsConfig, mExtraConfig, mMainConfig, mUciConfig)
  BY LayersShape DEF Cascade, FilesInv
<1>3. /\ mMainConfig = MainFile(disk) /\ mCapsConfig = CapsFile(disk)
      /\ IF isValid(Uci) THEN mUciConfig = Uci ELSE ~isValid(mUciConfig)
      /\ ExtrasAre(disk, mExtraConfig, Templates, r)
  BY DEF AllLoaded, ExtrasLoaded
<1>4. /\ n <= m
      /\ \A i \in 1..n : mExtraConfig[m - n + i].map = ExtraMap(disk, Templates[i], r)
      /\ \A i \in 1..m : \E j \in 1..n : mExtraConfig[i].map = ExtraMap(disk, Templates[j], r)
  BY <1>3 DEF ExtrasAre, AsRead
<1>5. \A i : ExtraFile(disk, r, i) = ExtraMap(disk, Templates[i], r)
  BY DEF ExtraFile, ExtraMap, Templates, IsRegion
<1>6. extras = {i \in 1..n : name \in DOMAIN ExtraMap(disk, Templates[i], r)}
  <2>1. extras = {i \in 1..n : name \in DOMAIN ExtraFile(disk, r, i)}
    BY <1>0 DEF Extras, Templates
  <2> QED BY <1>5, <2>1
<1>7. hits = {q \in 1..(m + 3) : name \in DOMAIN layers[q]}
  BY <1>2 DEF Hits, Stacked
<1> HIDE DEF n, m, layers, hits, extras
<1>8. /\ layers \in Seq(Contents)
      /\ layers[1] = mCapsConfig /\ layers[m + 2] = mMainConfig /\ layers[m + 3] = mUciConfig
      /\ \A q \in 2..(m + 1) : layers[q] = mExtraConfig[m + 2 - q].map
  BY <1>2 DEF Stacked
<1>9. 1 \in hits <=> name \in DOMAIN CapsFile(disk)
  <2>1. 1 \in 1..(m + 3)
    BY <1>1
  <2> QED BY <1>3, <1>7, <1>8, <2>1
<1>10. m + 2 \in hits <=> name \in DOMAIN MainFile(disk)
  <2>1. m + 2 \in 1..(m + 3)
    BY <1>1
  <2> QED BY <1>3, <1>7, <1>8, <2>1
<1>11. /\ m + 3 \in hits <=> name \in DOMAIN Uci
       /\ name \in DOMAIN Uci => layers[m + 3] = Uci
  <2>1. m + 3 \in 1..(m + 3)
    BY <1>1
  <2> QED BY <1>3, <1>7, <1>8, <2>1 DEF isValid
<1>12. ASSUME NEW i \in 1..n
       PROVE  /\ m + 2 - (m - n + i) \in hits <=> i \in extras
              /\ layers[m + 2 - (m - n + i)] = ExtraFile(disk, r, i)
  <2> DEFINE q == m + 2 - (m - n + i)
  <2>1. q \in 2..(m + 1) /\ q \in 1..(m + 3) /\ m + 2 - q = m - n + i
    BY <1>1, <1>4
  <2> HIDE DEF q
  <2>2. layers[q] = ExtraMap(disk, Templates[i], r)
    BY <1>4, <1>8, <2>1
  <2> QED BY <1>5, <1>6, <1>7, <2>1, <2>2 DEF q
<1>13. ASSUME extras = {}, NEW q \in 2..(m + 1) PROVE q \notin hits
  <2>1. m + 2 - q \in 1..m
    BY <1>1
  <2>2. PICK j \in 1..n : mExtraConfig[m + 2 - q].map = ExtraMap(disk, Templates[j], r)
    BY <1>4, <2>1
  <2>3. name \notin DOMAIN layers[q]
    BY <1>6, <1>8, <1>13, <2>2
  <2> QED BY <1>7, <2>3
<1>14. extras \subseteq 1..n /\ hits \subseteq 1..(m + 3)
  BY <1>6, <1>7
<1> QED BY <1>1, <1>3, <1>4, <1>8, <1>9, <1>10, <1>11, <1>12, <1>13, <1>14
        DEF n, m, layers, hits, extras

\* Where the extra files are among the layers.
Numbered(layers, name, n, m, extras) ==
  /\ n \in Nat /\ m \in Nat /\ n <= m
  /\ layers \in Seq(Contents) /\ extras \subseteq 1..n
  /\ Hits(layers, name) \subseteq 1..(m + 3) /\ 1 \notin Hits(layers, name)
  /\ \A i \in 1..n : m + 2 - (m - n + i) \in Hits(layers, name) <=> i \in extras

LEMMA ExtraAnswers ==
  ASSUME NEW layers, NEW name, NEW n, NEW m, NEW extras, NEW last,
         Numbered(layers, name, n, m, extras),
         last \in extras, \A i \in extras : i <= last
  PROVE  /\ m + 2 - (m - n + last) \in Hits(layers, name)
         /\ valueIn(layers, name) = layers[m + 2 - (m - n + last)][name]
<1> USE DEF Numbered
<1> DEFINE hits == Hits(layers, name)
           p == m + 2 - (m - n + last)
<1>1. p \in hits /\ p = n + 2 - last /\ p \in 2..(m + 1)
  BY LastExtra
<1>2. ASSUME NEW q \in hits PROVE p <= q
  <2>1. q \in 1..(m + 3) /\ q # 1
    BY <1>2
  <2>2. CASE q < p
    <3>1. q \in 2..(m + 1) /\ q < n + 2 - last
      BY <1>1, <2>1, <2>2
    <3>2. PICK i \in 1..n : last < i /\ m + 2 - q = m - n + i
      BY <3>1, LastExtra
    <3>3. m + 2 - (m - n + i) = q
      BY <3>1, <3>2
    <3>4. i \in extras
      BY <3>2, <3>3
    <3>5. i <= last
      BY <3>4
    <3> QED BY <3>2, <3>5
  <2> QED BY <1>1, <2>1, <2>2
<1> QED BY <1>1, <1>2, FirstHit

LEMMA SaysWhatIsFound ==
  ASSUME FilesInv, AllLoaded, NEW c \in Codes, mCurRegionCode = RegionOf(disk, c), NEW name
  PROVE  Says(disk, c, name) = IF find(name) THEN {value(name)} ELSE {}
<1> DEFINE r == RegionOf(disk, c)
           n == Len(Templates)
           m == Len(mExtraConfig)
           layers == Cascade
           hits == Hits(layers, name)
           extras == Extras(disk, r, name)
           last == CHOOSE i \in extras : \A j \in extras : j <= i
<1>1. IsRegion(r)
  BY RegionRight
<1>2. (find(name) <=> hits # {}) /\ value(name) = valueIn(layers, name)
  BY DEF find, value
<1>3. CASE ~isValid(MainFile(disk))
  <2>1. NothingLoaded
    BY <1>3 DEF AllLoaded
  <2>2. Stacked(layers, 0, NoParams, <<>>, NoParams, NoParams)
    <3>1. <<>> \in Seq(Configs) /\ Len(<<>>) = 0 /\ NoParams \in Contents
      BY NoFiles, EmptySeq
    <3> QED BY <2>1, <3>1, LayersShape DEF Cascade, NothingLoaded
  <2>3. DOMAIN layers = 1..3 /\ layers[1] = NoParams /\ layers[2] = NoParams /\ layers[3] = NoParams
    BY <2>2 DEF Stacked
  <2> HIDE DEF layers
  <2>4. hits = {}
    BY <2>3, NothingThere DEF Hits
  <2> QED BY <1>2, <1>3, <2>4 DEF Says
<1>4. CASE isValid(MainFile(disk))
  <2>1. /\ n \in Nat /\ m \in Nat /\ n <= m
    BY <1>1, <1>4, LayersLoaded
  <2>2. layers \in Seq(Contents) /\ hits \subseteq 1..(m + 3) /\ extras \subseteq 1..n
    BY <1>1, <1>4, LayersLoaded
  <2>3. /\ 1 \in hits <=> name \in DOMAIN CapsFile(disk)
        /\ layers[1] = CapsFile(disk)
    BY <1>1, <1>4, LayersLoaded
  <2>4. \A i \in 1..n : /\ m + 2 - (m - n + i) \in hits <=> i \in extras
                        /\ layers[m + 2 - (m - n + i)] = ExtraFile(disk, r, i)
    BY <1>1, <1>4, LayersLoaded
  <2>5. extras = {} => \A q \in 2..(m + 1) : q \notin hits
    BY <1>1, <1>4, LayersLoaded
  <2>6. /\ m + 2 \in hits <=> name \in DOMAIN MainFile(disk)
        /\ layers[m + 2] = MainFile(disk)
    BY <1>1, <1>4, LayersLoaded
  <2>7. /\ m + 3 \in hits <=> name \in DOMAIN Uci
        /\ name \in DOMAIN Uci => layers[m + 3] = Uci
    BY <1>1, <1>4, LayersLoaded
  <2>8. Says(disk, c, name) =
          IF name \in DOMAIN CapsFile(disk) THEN {CapsFile(disk)[name]}
          ELSE IF extras # {} THEN {ExtraFile(disk, r, last)[name]}
          ELSE IF name \in DOMAIN MainFile(disk) THEN {MainFile(disk)[name]}
          ELSE IF name \in DOMAIN Uci THEN {Uci[name]} ELSE {}
    BY <1>4 DEF Says, Uci
  <2> HIDE DEF r, n, m, layers, extras
  <2>9. CASE name \in DOMAIN CapsFile(disk)
    <3>1. 1 \in hits /\ \A q \in hits : 1 <= q
      BY <2>1, <2>2, <2>3, <2>9
    <3>2. valueIn(layers, name) = layers[1][name]
      BY <2>2, <3>1, FirstHit
    <3> QED BY <1>2, <2>3, <2>8, <2>9, <3>1, <3>2
  <2>10. CASE name \notin DOMAIN CapsFile(disk) /\ extras # {}
    <3>1. last \in extras /\ \A j \in extras : j <= last
      BY <2>1, <2>2, <2>10, Biggest
    <3> HIDE DEF last
    <3>2. 1 \notin hits
      BY <2>3, <2>10
    <3>3. m + 2 - (m - n + last) \in hits
          /\ valueIn(layers, name) = layers[m + 2 - (m - n + last)][name]
      <4>1. \A i \in 1..n : m + 2 - (m - n + i) \in Hits(layers, name) <=> i \in extras
        BY <2>4
      <4>2. Numbered(layers, name, n, m, extras)
        BY <2>1, <2>2, <3>2, <4>1 DEF Numbered
      <4> QED BY <3>1, <4>2, ExtraAnswers
    <3>4. layers[m + 2 - (m - n + last)] = ExtraFile(disk, r, last)
      BY <2>2, <2>4, <3>1
    <3> QED BY <1>2, <2>8, <2>10, <3>3, <3>4
  <2>11. CASE name \notin DOMAIN CapsFile(disk) /\ extras = {}
    <3>1. hits \subseteq {m + 2, m + 3}
      <4>1. ASSUME NEW q \in hits PROVE q \in {m + 2, m + 3}
        <5>1. q \in 1..(m + 3) /\ q # 1 /\ q \notin 2..(m + 1)
          BY <2>2, <2>3, <2>5, <2>11
        <5> QED BY <2>1, <5>1
      <4> QED BY <4>1
    <3>2. CASE name \in DOMAIN MainFile(disk)
      <4>1. m + 2 \in hits /\ \A q \in hits : m + 2 <= q
        BY <2>1, <2>6, <3>1, <3>2
      <4>2. valueIn(layers, name) = layers[m + 2][name]
        BY <2>2, <4>1, FirstHit
      <4> QED BY <1>2, <2>6, <2>8, <2>11, <3>2, <4>1, <4>2
    <3>3. CASE name \notin DOMAIN MainFile(disk) /\ name \in DOMAIN Uci
      <4>1. m + 3 \in hits /\ \A q \in hits : m + 3 <= q
        BY <2>1, <2>6, <2>7, <3>1, <3>3
      <4>2. valueIn(layers, name) = layers[m + 3][name]
        BY <2>2, <4>1, FirstHit
      <4> QED BY <1>2, <2>7, <2>8, <2>11, <3>3, <4>1, <4>2
    <3>4. CASE name \notin DOMAIN MainFile(disk) /\ name \notin DOMAIN Uci
      <4>1. hits = {}
        BY <2>6, <2>7, <3>1, <3>4
      <4> QED BY <1>2, <2>8, <2>11, <3>4, <4>1
    <3> QED BY <3>2, <3>3, <3>4
  <2> QED BY <2>9, <2>10, <2>11
<1> QED BY <1>3, <1>4

-----------------------------------------------------------------------------
(* Caps: the same file for every country, scanned entry by entry.           *)

LEMMA CapsEverywhere ==
  ASSUME disk \in Disks, NEW c \in Codes, NEW e \in Codes
  PROVE  CapsOf(disk, c) = CapsOf(disk, e)
<1> DEFINE of(r) == Extras(disk, r, CapsName)
           n == Len(Templates)
<1>1. ASSUME NEW r, NEW s, NEW i, CapsName \in DOMAIN ExtraFile(disk, r, i)
      PROVE  ExtraFile(disk, r, i) = ExtraFile(disk, s, i)
  <2>1. CASE Templates[i].country
    <3>1. ExtraFile(disk, r, i) = readConfig(<<Templates[i].path, r>>)
      BY <2>1, FileRead DEF ExtraFile, Templates
    <3> QED BY <1>1, <3>1, CountryReading
  <2>2. CASE ~Templates[i].country
    BY <2>2 DEF ExtraFile, Templates
  <2> QED BY <2>1, <2>2
<1>2. \A r : of(r) = {i \in DOMAIN Templates : CapsName \in DOMAIN ExtraFile(disk, r, i)}
  BY DEF Extras, Templates
<1> HIDE DEF of
<1>3. ASSUME NEW r, NEW s PROVE of(r) = of(s)
  <2>1. \A i : CapsName \in DOMAIN ExtraFile(disk, r, i)
                <=> CapsName \in DOMAIN ExtraFile(disk, s, i)
    BY <1>1
  <2> QED BY <1>2, <2>1
<1>4. ASSUME NEW r, NEW s, of(r) # {}
      PROVE  LET last == CHOOSE i \in of(r) : \A j \in of(r) : j <= i
             IN  ExtraFile(disk, r, last) = ExtraFile(disk, s, last)
  <2> DEFINE last == CHOOSE i \in of(r) : \A j \in of(r) : j <= i
  <2>1. of(r) \subseteq 1..n /\ n \in Nat
    BY <1>2, TemplatesTyped
  <2>2. last \in of(r)
    BY <1>4, <2>1, Biggest
  <2> HIDE DEF last
  <2> QED BY <1>1, <1>2, <2>2 DEF last
<1> DEFINE rc == RegionOf(disk, c)
           re == RegionOf(disk, e)
<1>5. of(rc) = of(re)
  BY <1>3
<1>6. CASE of(rc) = {}
  <2>1. Extras(disk, rc, CapsName) = {} /\ Extras(disk, re, CapsName) = {}
    BY <1>5, <1>6 DEF of
  <2> QED BY <2>1 DEF CapsOf, Says, CapsName
<1>7. CASE of(rc) # {}
  <2> DEFINE last(r) == CHOOSE i \in Extras(disk, r, CapsName) :
                          \A j \in Extras(disk, r, CapsName) : j <= i
  <2>1. Extras(disk, rc, CapsName) = Extras(disk, re, CapsName)
    BY <1>5 DEF of
  <2>2. ExtraFile(disk, rc, last(rc)) = ExtraFile(disk, re, last(rc)) /\ last(rc) = last(re)
    BY <1>4, <1>5, <1>7, <2>1 DEF of
  <2>3. Says(disk, c, CapsName) = Says(disk, e, CapsName)
    <3> HIDE DEF last
    <3>1. ExtraFile(disk, rc, last(rc)) = ExtraFile(disk, re, last(re))
      BY <2>2
    <3> QED BY <2>1, <3>1 DEF Says, last
  <2> QED BY <2>3 DEF CapsOf, CapsName
<1> QED BY <1>6, <1>7

\* The country code last seen at position k is that of c.
InCountry(list, c, k) ==
  \E j \in 1..k : /\ list[j].tag = "COUNTRY_CODE" /\ list[j].value = c
                  /\ \A between \in (j + 1)..k : list[between].tag # "COUNTRY_CODE"

LEMMA CodeAt ==
  ASSUME NEW list, NEW c, NEW k \in Nat \ {0}
  PROVE  /\ InCountry(list, c, k) <=>
              IF list[k].tag = "COUNTRY_CODE" THEN list[k].value = c ELSE InCountry(list, c, k - 1)
         /\ k \in EntriesOf(list, c) <=>
              k \in DOMAIN list /\ list[k].tag # "COUNTRY_CODE" /\ InCountry(list, c, k - 1)
<1> DEFINE isCode(i) == list[i].tag = "COUNTRY_CODE"
           isOwn(i) == list[i].value = c
<1>1. CASE list[k].tag = "COUNTRY_CODE"
  <2>1. ASSUME NEW j \in 1..k, \A between \in (j + 1)..k : list[between].tag # "COUNTRY_CODE"
        PROVE  j = k
    BY <1>1, <2>1
  <2>2. k \in 1..k /\ \A between \in (k + 1)..k : list[between].tag # "COUNTRY_CODE"
    OBVIOUS
  <2>3. InCountry(list, c, k) <=> list[k].value = c
    BY <1>1, <2>1, <2>2 DEF InCountry
  <2>4. k \notin EntriesOf(list, c)
    <3>1. ASSUME NEW j \in 1..(k - 1) PROVE k \in (j + 1)..k
      OBVIOUS
    <3> QED BY <1>1, <3>1 DEF EntriesOf
  <2> QED BY <1>1, <2>3, <2>4
<1>2. CASE list[k].tag # "COUNTRY_CODE"
  <2>1. ASSUME NEW j \in 1..(k - 1)
        PROVE  (\A between \in (j + 1)..k : list[between].tag # "COUNTRY_CODE")
                 <=> \A between \in (j + 1)..(k - 1) : list[between].tag # "COUNTRY_CODE"
    <3>1. (j + 1)..k = ((j + 1)..(k - 1)) \cup {k}
      OBVIOUS
    <3> QED BY <1>2, <3>1
  <2>2. 1..k = (1..(k - 1)) \cup {k}
    OBVIOUS
  <2>3. InCountry(list, c, k) <=> InCountry(list, c, k - 1)
    BY <1>2, <2>1, <2>2 DEF InCountry
  <2>4. k \in EntriesOf(list, c) <=> k \in DOMAIN list /\ InCountry(list, c, k - 1)
    BY <2>1 DEF EntriesOf, InCountry
  <2> QED BY <1>2, <2>3, <2>4
<1> QED BY <1>1, <1>2

\* The entries of the country before position i, and what they make of the
\* settings.
Seen(list, c, i) == {k \in EntriesOf(list, c) : k < i}

ScanOf(list, c, i, rt) ==
  /\ rt.uwb_enable <=> ~Disabled(list, Seen(list, c, i))
  /\ rt.restricted = RestrictedBy(list, Seen(list, c, i))

LEMMA ScanBegins ==
  ASSUME NEW list \in Seq(Entries), NEW c
  PROVE  ScanOf(list, c, 1, Reset) /\ ~InCountry(list, c, 0)
<1>1. Seen(list, c, 1) = {}
  <2>1. EntriesOf(list, c) \subseteq 1..Len(list) /\ Len(list) \in Nat
    BY LenProperties DEF EntriesOf
  <2> QED BY <2>1 DEF Seen
<1> QED BY <1>1 DEF ScanOf, InCountry, Reset, Disabled, RestrictedBy, DeniedBy, Restrictable

LEMMA ScanGoesOn ==
  ASSUME NEW list \in Seq(Entries), NEW c, NEW i \in 1..Len(list),
         NEW rt \in RtSettings, ScanOf(list, c, i, rt)
  PROVE  ScanOf(list, c, i + 1, IF InCountry(list, c, i - 1) THEN withEntry(rt, list[i]) ELSE rt)
<1> DEFINE seen == Seen(list, c, i)
           more == Seen(list, c, i + 1)
           entry == list[i]
<1>1. /\ Len(list) \in Nat /\ DOMAIN list = 1..Len(list)
      /\ EntriesOf(list, c) \subseteq 1..Len(list)
  BY LenProperties DEF EntriesOf
<1>2. i \in Nat \ {0} /\ i \in DOMAIN list
  BY <1>1
<1>3. i \in EntriesOf(list, c) <=> entry.tag # "COUNTRY_CODE" /\ InCountry(list, c, i - 1)
  BY <1>2, CodeAt
<1>4. more = seen \cup (EntriesOf(list, c) \cap {i})
  BY <1>1 DEF Seen
<1>5. i \notin seen /\ \A k \in seen : k \in Nat /\ k < i
  BY <1>1 DEF Seen
<1>6. entry \in Entries
  BY ElementOfSeq
<1>7. /\ rt.uwb_enable <=> ~Disabled(list, seen)
      /\ rt.restricted = RestrictedBy(list, seen)
  BY DEF ScanOf
<1> HIDE DEF seen, more, entry
<1>8. CASE i \notin EntriesOf(list, c)
  <2>1. more = seen
    BY <1>4, <1>8
  <2>2. InCountry(list, c, i - 1) => withEntry(rt, entry) = rt
    BY <1>3, <1>8 DEF withEntry
  <2> QED BY <1>7, <2>1, <2>2 DEF ScanOf, seen, more, entry
<1>9. CASE i \in EntriesOf(list, c)
  <2> DEFINE new == withEntry(rt, entry)
  <2>1. more = seen \cup {i} /\ InCountry(list, c, i - 1)
    BY <1>3, <1>4, <1>9
  <2>2. ASSUME NEW tag
        PROVE  DeniedBy(list, more, tag)
                 = IF entry.tag = tag /\ ~entry.value THEN DeniedBy(list, seen, tag) \cup {i}
                   ELSE DeniedBy(list, seen, tag)
    BY <2>1 DEF DeniedBy, entry
  <2>3. CASE entry.tag = "UWB_ENABLE"
    <3>1. new = [rt EXCEPT !.uwb_enable = entry.value] /\ entry.value \in BOOLEAN
      BY <1>6, <2>3 DEF withEntry, Entries
    <3>2. new.uwb_enable = entry.value /\ new.restricted = rt.restricted
      BY <3>1 DEF RtSettings
    <3>3. Disabled(list, more) <=> ~entry.value
      <4>1. \A l \in more : l <= i
        BY <1>2, <1>5, <2>1
      <4>2. i \in more /\ list[i].tag = "UWB_ENABLE"
        BY <2>1, <2>3 DEF entry
      <4>3. \A k \in DeniedBy(list, more, "UWB_ENABLE") : k \in more
        BY DEF DeniedBy
      <4>4. ASSUME NEW k \in DeniedBy(list, more, "UWB_ENABLE"), i <= k PROVE ~entry.value
        <5>1. k \in more /\ k \in Nat /\ k <= i /\ i \in Nat
          BY <1>2, <1>5, <2>1, <4>1, <4>3
        <5>2. k = i
          BY <4>4, <5>1
        <5> QED BY <5>2 DEF DeniedBy, entry
      <4>5. ~entry.value => i \in DeniedBy(list, more, "UWB_ENABLE")
        BY <2>2, <2>3
      <4> QED BY <4>1, <4>2, <4>4, <4>5 DEF Disabled
    <3>4. RestrictedBy(list, more) = RestrictedBy(list, seen)
      BY <2>2, <2>3 DEF RestrictedBy
    <3> QED BY <1>7, <2>1, <3>2, <3>3, <3>4 DEF ScanOf, more, entry
  <2>4. CASE entry.tag # "UWB_ENABLE"
    <3>1. Disabled(list, more) <=> Disabled(list, seen)
      <4>1. DeniedBy(list, more, "UWB_ENABLE") = DeniedBy(list, seen, "UWB_ENABLE")
        BY <2>2, <2>4
      <4>2. list[i].tag # "UWB_ENABLE"
        BY <2>4 DEF entry
      <4> QED BY <2>1, <4>1, <4>2 DEF Disabled
    <3>2. new.uwb_enable = rt.uwb_enable
      BY <2>4 DEF withEntry, RtSettings
    <3>3. new.restricted = RestrictedBy(list, more)
      <4>1. CASE entry.tag = "CHANNEL_5" /\ ~entry.value
        <5>1. new.restricted = rt.restricted \cup {5}
          BY <4>1 DEF withEntry, RtSettings
        <5>2. RestrictedBy(list, more) = RestrictedBy(list, seen) \cup {5}
          BY <2>2, <4>1 DEF RestrictedBy, Restrictable
        <5> QED BY <1>7, <5>1, <5>2
      <4>2. CASE entry.tag = "CHANNEL_9" /\ ~entry.value
        <5>1. new.restricted = rt.restricted \cup {9}
          BY <4>2 DEF withEntry, RtSettings
        <5>2. RestrictedBy(list, more) = RestrictedBy(list, seen) \cup {9}
          <6>1. /\ DeniedBy(list, more, "CHANNEL_9") # {}
                /\ DeniedBy(list, more, "CHANNEL_5") = DeniedBy(list, seen, "CHANNEL_5")
            BY <2>2, <4>2
          <6> QED BY <6>1 DEF RestrictedBy, Restrictable
        <5> QED BY <1>7, <5>1, <5>2
      <4>3. CASE ~(entry.tag \in {"CHANNEL_5", "CHANNEL_9"} /\ ~entry.value)
        <5>1. new.restricted = rt.restricted
          BY <2>4, <4>3 DEF withEntry, RtSettings
        <5>2. RestrictedBy(list, more) = RestrictedBy(list, seen)
          BY <2>2, <4>3 DEF RestrictedBy, Restrictable
        <5> QED BY <1>7, <5>1, <5>2
      <4> QED BY <4>1, <4>2, <4>3
    <3> QED BY <1>7, <2>1, <3>1, <3>2, <3>3 DEF ScanOf, more, entry
  <2> QED BY <2>3, <2>4
<1> QED BY <1>8, <1>9

\* At the end every entry of the country has been seen.
LEMMA ScanEnds ==
  ASSUME NEW list \in Seq(Entries), NEW c, NEW i \in Nat, i > Len(list),
         NEW rt, ScanOf(list, c, i, rt)
  PROVE  /\ rt.uwb_enable <=> ~Disabled(list, EntriesOf(list, c))
         /\ rt.restricted = RestrictedBy(list, EntriesOf(list, c))
<1>1. EntriesOf(list, c) \subseteq 1..Len(list) /\ Len(list) \in Nat
  BY LenProperties DEF EntriesOf
<1>2. Seen(list, c, i) = EntriesOf(list, c)
  BY <1>1 DEF Seen
<1> QED BY <1>2 DEF ScanOf

-----------------------------------------------------------------------------
(* The settings are the policy of the country that was loaded last, which   *)
(* is of the region of the last country.  While the caps are scanned they   *)
(* are what the entries so far make of them.  The map of the capabilities   *)
(* is that country's too, and stays when the HAL is closed; one exists only *)
(* on a device whose caps are there for every country.                      *)

Follows ==
  /\ rt_settings.uwb_enable <=> PolicyOf(disk, governing).enabled
  /\ rt_settings.restricted = PolicyOf(disk, governing).restricted

Mapped ==
  CapsOf(disk, governing) # {} =>
    /\ isCountryCodeMapCreated
    /\ conf_map = Channels \ PolicyOf(disk, governing).restricted

Scanned ==
  /\ idx \in Nat \ {0}
  /\ ScanOf(Caps, country, idx, rt_settings)
  /\ found <=> InCountry(Caps, country, idx - 1)

Offered ==
  CapsOf(disk, governing) # {} => reported \cap PolicyOf(disk, governing).restricted = {}

\* The country loaded last is of the region of the last country.
InRegion ==
  /\ mCurRegionCode = RegionOf(disk, country)
  /\ governing # NoCountry /\ RegionOf(disk, governing) = RegionOf(disk, country)

PolicyInv ==
  /\ country = NoCountry =>
       mCurRegionCode = "" /\ ~rt_settings.uwb_enable /\ rt_settings.restricted = {}
  /\ country # NoCountry => InRegion
  /\ governing # NoCountry => Offered
  /\ isCountryCodeMapCreated => \A c \in Codes : CapsOf(disk, c) # {}
  /\ ~Judged => governing = country
  /\ api \in {"caps", "offset"} => Scanned
  /\ Judged /\ country # NoCountry => Follows
  /\ Judged /\ governing # NoCountry => Mapped

DeepInv == IInv /\ LoadInv /\ PolicyInv

\* A country has been set.
Known == DeepInv /\ country # NoCountry

LEMMA KnownLoaded ==
  ASSUME Known
  PROVE  /\ FilesInv /\ AllLoaded /\ country \in Codes /\ halStatus = "OPEN"
         /\ mCurRegionCode = RegionOf(disk, country)
BY DEF Known, DeepInv, IInv, Typed, TypeOK, CountryInv, LoadInv, PolicyInv, InRegion

LEMMA SaysNow ==
  ASSUME Known, NEW name
  PROVE  Says(disk, country, name) = IF find(name) THEN {value(name)} ELSE {}
BY KnownLoaded, SaysWhatIsFound

LEMMA CapsNow ==
  ASSUME Known
  PROVE  CapsOf(disk, country) = IF capsProvided THEN {Caps} ELSE {}
<1>1. Says(disk, country, CapsName) = IF find(CapsName) THEN {Caps} ELSE {}
  BY SaysNow DEF Caps, CapsName
<1>2. CapsOf(disk, country) = Says(disk, country, CapsName) \ {<<>>}
  BY DEF CapsOf, CapsName
<1>3. capsProvided <=> find(CapsName) /\ Caps # <<>>
  BY DEF capsProvided, CapsName
<1> QED BY <1>1, <1>2, <1>3

LEMMA PolicyWithCaps ==
  ASSUME Known, capsProvided
  PROVE  PolicyOf(disk, country) =
           [enabled    |-> country \in ValidCodes /\ ~Disabled(Caps, EntriesOf(Caps, country)),
            restricted |-> RestrictedBy(Caps, EntriesOf(Caps, country))]
<1>1. CapsOf(disk, country) = {Caps}
  BY CapsNow
<1>2. (CHOOSE l \in CapsOf(disk, country) : TRUE) = Caps
  BY <1>1
<1> QED BY <1>1, <1>2 DEF PolicyOf

LEMMA PolicyWithoutCaps ==
  ASSUME Known, ~capsProvided
  PROVE  PolicyOf(disk, country) =
           [enabled    |-> country \in ValidCodes /\ GetNum("cal.uwb_disable", 0) = 0,
            restricted |-> GetNum("cal.restricted_channels", {})]
<1>1. CapsOf(disk, country) = {}
  BY CapsNow
<1>2. Says(disk, country, "cal.uwb_disable") \subseteq {0} <=> GetNum("cal.uwb_disable", 0) = 0
  <2>1. Says(disk, country, "cal.uwb_disable")
          = IF find("cal.uwb_disable") THEN {value("cal.uwb_disable")} ELSE {}
    BY SaysNow
  <2> QED BY <2>1 DEF GetNum
<1>3. UNION Says(disk, country, "cal.restricted_channels") = GetNum("cal.restricted_channels", {})
  <2>1. Says(disk, country, "cal.restricted_channels")
          = IF find("cal.restricted_channels") THEN {value("cal.restricted_channels")} ELSE {}
    BY SaysNow
  <2>2. \A x : UNION {x} = x
    OBVIOUS
  <2>3. UNION {} = {}
    OBVIOUS
  <2> QED BY <2>1, <2>2, <2>3 DEF GetNum
<1> QED BY <1>1, <1>2, <1>3 DEF PolicyOf

LEMMA PolicyInit == Init => PolicyInv
<1> SUFFICES ASSUME Init PROVE PolicyInv
  OBVIOUS
<1>1. /\ country = NoCountry /\ governing = NoCountry /\ api = "idle" /\ mCurRegionCode = ""
      /\ rt_settings = Zeroed /\ ~isCountryCodeMapCreated
  BY DEF Init, ConfigInit
<1>2. ~rt_settings.uwb_enable /\ rt_settings.restricted = {}
  BY <1>1 DEF Zeroed
<1> QED BY <1>1, <1>2 DEF PolicyInv, Judged

\* The map, and what was reported from it, outlive the country.
LEMMA PolicyForgotten ==
  ASSUME PolicyInv, country' = NoCountry, mCurRegionCode' = "", rt_settings' = Zeroed,
         UNCHANGED <<disk, governing, isCountryCodeMapCreated, conf_map>>,
         reported' \subseteq reported, api = "idle", api' = "idle"
  PROVE  PolicyInv'
<1>1. ~rt_settings'.uwb_enable /\ rt_settings'.restricted = {}
  BY DEF Zeroed
<1>2. \A c : CapsOf(disk, c)' = CapsOf(disk, c)
  OBVIOUS
<1>3. UNCHANGED <<CapsOf(disk, governing), PolicyOf(disk, governing)>>
  OBVIOUS
<1>4. governing # NoCountry => Offered' /\ Mapped'
  BY <1>3 DEF PolicyInv, Offered, Mapped, Judged
<1> QED BY <1>1, <1>2, <1>4 DEF PolicyInv, NoCountry, Judged

\* Nothing is loaded when, and only when, the region is that of the country
\* loaded last.
LEMMA SameRegion ==
  ASSUME DeepInv, NEW c \in Codes, halStatus = "OPEN"
  PROVE  sameRegion(c) <=> country # NoCountry /\ RegionOf(disk, c) = RegionOf(disk, governing)
<1>1. xlateCountryCode(c) = RegionOf(disk, c) /\ RegionOf(disk, c) # ""
  BY RegionRight DEF DeepInv, IInv, Typed, LoadInv, IsRegion
<1>2. CASE country = NoCountry
  BY <1>1, <1>2 DEF DeepInv, PolicyInv, sameRegion
<1>3. CASE country # NoCountry
  BY <1>1, <1>3 DEF DeepInv, PolicyInv, InRegion, sameRegion
<1> QED BY <1>2, <1>3

LEMMA HandlePolicy ==
  ASSUME DeepInv, NEW c \in Codes, handle_set_country_code(c)
  PROVE  PolicyInv'
<1> USE DEF handle_set_country_code
<1>1. FilesInv /\ AllLoaded /\ disk' = disk
  BY DEF DeepInv, IInv, Typed, LoadInv, NxpConfig_SetCountryCode
<1>2. country' = c /\ c # NoCountry /\ mCurRegionCode' = RegionOf(disk, c)
  BY <1>1, CountryLoads, ValuesAssumption DEF NoCountry
<1>3. UNCHANGED <<rt_settings, isCountryCodeMapCreated, conf_map>> /\ reported' = {}
  BY DEF applying
<1>4. \A e : UNCHANGED <<CapsOf(disk, e), PolicyOf(disk, e), RegionOf(disk, e)>>
  BY <1>1
<1>5. CASE sameRegion(c)
  <2>1. api' = "answer" /\ api = "idle" /\ governing' = governing
    BY <1>5
  <2>2. country # NoCountry /\ RegionOf(disk, c) = RegionOf(disk, governing)
    BY <1>5, SameRegion
  <2>3. UNCHANGED <<CapsOf(disk, governing), PolicyOf(disk, governing), RegionOf(disk, governing)>>
    BY <1>1, <2>1
  <2>4. governing # NoCountry /\ Follows /\ Mapped
    BY <2>1, <2>2 DEF DeepInv, PolicyInv, InRegion, Judged
  <2>5. Follows' /\ Mapped'
    BY <1>3, <2>3, <2>4 DEF Follows, Mapped
  <2>6. InRegion'
    BY <1>1, <1>2, <2>1, <2>2, <2>3, <2>4 DEF InRegion
  <2> QED BY <1>1, <1>2, <1>3, <1>4, <2>1, <2>5, <2>6 DEF DeepInv, PolicyInv, Offered, Judged
<1>6. CASE ~sameRegion(c)
  <2>1. api' = "load" /\ governing' = c
    BY <1>6
  <2>2. InRegion'
    BY <1>1, <1>2, <2>1 DEF InRegion
  <2> QED BY <1>1, <1>2, <1>3, <1>4, <2>1, <2>2 DEF DeepInv, PolicyInv, Offered, Judged
<1> QED BY <1>5, <1>6

LEMMA LoadPolicy ==
  ASSUME DeepInv, Load
  PROVE  PolicyInv'
<1> USE DEF Load
<1>1. Known /\ governing = country
  BY DEF DeepInv, IInv, CountryInv, PolicyInv, Judged, Known
<1>2. /\ UNCHANGED <<disk, mCurRegionCode, country, governing, conf_map, reported>>
      /\ (capsProvided' <=> capsProvided) /\ Caps' = Caps /\ FilesInv
  BY SameFiles DEF configVars, ghosts, host, DeepInv, IInv, Typed, Caps, value, Cascade, files
<1>3. /\ UNCHANGED <<PolicyOf(disk, country), RegionOf(disk, country), CapsOf(disk, country)>>
      /\ \A c : CapsOf(disk, c)' = CapsOf(disk, c)
  BY <1>2
<1>4. country \in Codes
  BY <1>1, KnownLoaded
<1>5. InRegion' /\ Offered' /\ country' # NoCountry
  BY <1>1, <1>2, <1>3 DEF Known, DeepInv, PolicyInv, InRegion, Offered
<1>6. CASE capsProvided
  <2>1. api' = "caps" /\ rt_settings' = Reset /\ idx' = 1 /\ ~found' /\ ~isCountryCodeMapCreated'
    BY <1>6
  <2>2. Scanned'
    <3>1. ScanOf(Caps, country, 1, Reset) /\ ~InCountry(Caps, country, 0)
      BY <1>2, <1>6, CapsTyped, ScanBegins
    <3>2. ScanOf(Caps, country, idx, rt_settings)'
      BY <1>2, <2>1, <3>1
    <3>3. idx' - 1 = 0
      BY <2>1
    <3>4. ~InCountry(Caps, country, idx - 1)'
      BY <1>2, <3>1, <3>3
    <3> QED BY <2>1, <3>2, <3>4 DEF Scanned
  <2> QED BY <1>1, <1>2, <1>5, <2>1, <2>2 DEF PolicyInv, Judged
<1>7. CASE ~capsProvided
  <2>1. CapsOf(disk, country) = {}
    BY <1>1, <1>7, CapsNow
  <2>2. ~isCountryCodeMapCreated
    BY <1>1, <1>4, <2>1 DEF Known, DeepInv, PolicyInv
  <2>3. rt_settings' = restrictions /\ ~isCountryCodeMapCreated' /\ api' \in {"power", "answer"}
    BY <1>7, <2>2
  <2>4. Follows'
    <3>1. /\ restrictions.uwb_enable <=> PolicyOf(disk, country).enabled
          /\ restrictions.restricted = PolicyOf(disk, country).restricted
      BY <1>1, <1>7, PolicyWithoutCaps DEF restrictions
    <3> QED BY <1>1, <1>2, <1>3, <2>3, <3>1 DEF Follows
  <2>5. Mapped'
    BY <1>1, <1>2, <1>3, <2>1 DEF Mapped
  <2> QED BY <1>1, <1>2, <1>5, <2>3, <2>4, <2>5 DEF PolicyInv, Judged
<1> QED BY <1>6, <1>7

\* What the steps that leave the files and the country alone keep.
LEMMA FilesKept ==
  ASSUME DeepInv, UNCHANGED <<configVars, country, governing>>
  PROVE  /\ UNCHANGED <<disk, mCurRegionCode, PolicyOf(disk, governing), RegionOf(disk, governing),
                        RegionOf(disk, country), CapsOf(disk, governing)>>
         /\ \A c : CapsOf(disk, c)' = CapsOf(disk, c)
         /\ (capsProvided' <=> capsProvided) /\ Caps' = Caps
         /\ InRegion' <=> InRegion
<1>1. disk' = disk /\ mCurRegionCode' = mCurRegionCode
  BY DEF configVars
<1>2. (capsProvided' <=> capsProvided) /\ Caps' = Caps
  BY SameFiles DEF DeepInv, IInv, Typed, Caps, value, Cascade, configVars, files
<1> QED BY <1>1, <1>2 DEF InRegion

LEMMA SettledKept ==
  ASSUME DeepInv, Judged, Judged',
         UNCHANGED <<configVars, country, governing, rt_settings, isCountryCodeMapCreated, conf_map>>,
         governing # NoCountry => Offered'
  PROVE  PolicyInv'
<1>1. (Follows => Follows') /\ (Mapped => Mapped')
  BY FilesKept DEF Follows, Mapped
<1> QED BY <1>1, FilesKept DEF DeepInv, PolicyInv, Judged

LEMMA OfferKept ==
  ASSUME DeepInv, governing # NoCountry, UNCHANGED <<configVars, country, governing, reported>>
  PROVE  Offered'
BY FilesKept DEF DeepInv, PolicyInv, Offered

LEMMA ScanKnown ==
  ASSUME DeepInv, api \in {"caps", "offset"}
  PROVE  /\ Known /\ governing = country /\ governing # NoCountry
         /\ capsProvided /\ Caps \in Seq(Entries) /\ Len(Caps) \in Nat /\ Scanned
<1>1. Known /\ governing = country
  BY DEF DeepInv, IInv, CountryInv, PolicyInv, Judged, Known
<1>2. capsProvided /\ FilesInv
  BY DEF DeepInv, IInv, Typed, CapsInv
<1> QED BY <1>1, <1>2, CapsTyped, LenProperties DEF Known, DeepInv, PolicyInv

LEMMA ScanPolicy ==
  ASSUME Known, governing = country, api' \in {"caps", "offset"}, Scanned', Offered',
         UNCHANGED <<configVars, country, governing, isCountryCodeMapCreated>>
  PROVE  PolicyInv'
<1>1. country' # NoCountry /\ InRegion'
  BY FilesKept DEF Known, DeepInv, PolicyInv
<1>2. isCountryCodeMapCreated' => \A c \in Codes : CapsOf(disk, c)' # {}
  BY FilesKept DEF Known, DeepInv, PolicyInv
<1>3. ~Judged' /\ governing' = country'
  BY DEF Judged
<1> QED BY <1>1, <1>2, <1>3 DEF PolicyInv

LEMMA ApplyPolicy ==
  ASSUME DeepInv, applyCountryCaps
  PROVE  PolicyInv'
<1> USE DEF applyCountryCaps
<1>1. Known /\ governing = country /\ governing # NoCountry
      /\ Caps \in Seq(Entries) /\ Len(Caps) \in Nat /\ Scanned
  BY ScanKnown
<1>2. UNCHANGED <<configVars, country, governing, isCountryCodeMapCreated, conf_map, reported>>
  BY DEF ghosts, host
<1>3. api' \in {"caps", "offset"} /\ idx \in 1..Len(Caps) /\ idx' = idx + 1
  BY <1>1 DEF Scanned
<1>4. rt_settings \in RtSettings
  BY DEF DeepInv, IInv, Typed, TypeOK, RtSettings
<1>5. ScanOf(Caps, country, idx + 1,
             IF InCountry(Caps, country, idx - 1) THEN withEntry(rt_settings, Caps[idx])
             ELSE rt_settings)
  BY <1>1, <1>3, <1>4, ScanGoesOn DEF Scanned
<1>6. rt_settings' = IF InCountry(Caps, country, idx - 1) THEN withEntry(rt_settings, Caps[idx])
                     ELSE rt_settings
  BY <1>1 DEF Scanned
<1>7. found' <=> InCountry(Caps, country, idx)
  <2>1. found <=> InCountry(Caps, country, idx - 1)
    BY <1>1 DEF Scanned
  <2>2. idx \in Nat \ {0}
    BY <1>1 DEF Scanned
  <2>3. InCountry(Caps, country, idx) <=>
          IF Caps[idx].tag = "COUNTRY_CODE" THEN Caps[idx].value = country
          ELSE InCountry(Caps, country, idx - 1)
    BY <2>2, CodeAt
  <2>4. found' = IF Caps[idx].tag = "COUNTRY_CODE" THEN Caps[idx].value = country ELSE found
    OBVIOUS
  <2> QED BY <2>1, <2>3, <2>4
<1>8. Scanned'
  <2>1. Caps' = Caps /\ country' = country
    BY <1>2, FilesKept
  <2>2. idx' \in Nat \ {0} /\ idx' - 1 = idx
    BY <1>3
  <2>3. ScanOf(Caps, country, idx, rt_settings)'
    BY <1>3, <1>5, <1>6, <2>1
  <2>4. (InCountry(Caps, country, idx - 1))' <=> InCountry(Caps, country, idx)
    BY <2>1, <2>2
  <2> QED BY <1>7, <2>2, <2>3, <2>4 DEF Scanned
<1>9. Offered'
  BY <1>1, <1>2, OfferKept DEF Known
<1> QED BY <1>1, <1>2, <1>3, <1>8, <1>9, ScanPolicy

LEMMA OffsetPolicy ==
  ASSUME DeepInv, setCalibParamTxPower
  PROVE  PolicyInv'
<1> USE DEF setCalibParamTxPower
<1>1. Known /\ governing = country /\ governing # NoCountry /\ Scanned
  BY ScanKnown
<1>2. UNCHANGED <<configVars, country, governing, isCountryCodeMapCreated, conf_map, reported,
                  rt_settings, idx, found>>
  BY DEF host
<1>3. Scanned'
  <2>1. Caps' = Caps
    BY <1>2, FilesKept
  <2> QED BY <1>1, <1>2, <2>1 DEF Scanned
<1>4. Offered'
  BY <1>1, <1>2, OfferKept DEF Known
<1>5. api' = "caps"
  OBVIOUS
<1> QED BY <1>1, <1>2, <1>3, <1>4, <1>5, ScanPolicy

LEMMA AppliedPolicy ==
  ASSUME DeepInv, capsApplied
  PROVE  PolicyInv'
<1> USE DEF capsApplied
<1> DEFINE own == EntriesOf(Caps, country)
<1>1. Known /\ governing = country /\ governing # NoCountry
      /\ capsProvided /\ Caps \in Seq(Entries) /\ Len(Caps) \in Nat /\ Scanned
  BY ScanKnown
<1>2. UNCHANGED <<configVars, country, governing, reported>>
  BY DEF ghosts, host
<1>3. /\ rt_settings.uwb_enable <=> ~Disabled(Caps, own)
      /\ rt_settings.restricted = RestrictedBy(Caps, own)
  BY <1>1, ScanEnds DEF Scanned
<1>4. /\ PolicyOf(disk, country).enabled <=> country \in ValidCodes /\ ~Disabled(Caps, own)
      /\ PolicyOf(disk, country).restricted = RestrictedBy(Caps, own)
  <2>1. PolicyOf(disk, country) =
          [enabled    |-> country \in ValidCodes /\ ~Disabled(Caps, own),
           restricted |-> RestrictedBy(Caps, own)]
    BY <1>1, PolicyWithCaps
  <2> DEFINE on == country \in ValidCodes /\ ~Disabled(Caps, own)
             denied == RestrictedBy(Caps, own)
  <2>2. PolicyOf(disk, country) = [enabled |-> on, restricted |-> denied] /\ on \in BOOLEAN
    BY <2>1
  <2> HIDE DEF on, denied
  <2>3. (PolicyOf(disk, country).enabled <=> on) /\ PolicyOf(disk, country).restricted = denied
    BY <2>2
  <2> QED BY <2>3 DEF on, denied
<1>5. rt_settings \in RtSettings
  BY DEF DeepInv, IInv, Typed, TypeOK, RtSettings
<1>6. /\ rt_settings'.uwb_enable <=> rt_settings.uwb_enable /\ country \in ValidCodes
      /\ rt_settings'.restricted = rt_settings.restricted
  BY <1>5 DEF RtSettings
<1>7. conf_map' = Channels \ PolicyOf(disk, country).restricted
  <2>1. RestrictedBy(Caps, own) \cap Restrictable = RestrictedBy(Caps, own)
    BY DEF RestrictedBy
  <2> QED BY <1>3, <1>4, <2>1
<1>8. Follows' /\ Mapped'
  BY <1>1, <1>2, <1>3, <1>4, <1>6, <1>7, FilesKept DEF Follows, Mapped
<1>9. \A c \in Codes : CapsOf(disk, c)' # {}
  <2>1. disk \in Disks /\ country \in Codes
    BY <1>1, KnownLoaded DEF FilesInv
  <2>2. CapsOf(disk, country) # {}
    BY <1>1, CapsNow
  <2> QED BY <1>2, <2>1, <2>2, CapsEverywhere, FilesKept
<1>10. Offered'
  BY <1>1, <1>2, OfferKept DEF Known
<1>11. api' = "answer" /\ isCountryCodeMapCreated'
  OBVIOUS
<1> QED BY <1>1, <1>2, <1>8, <1>9, <1>10, <1>11, FilesKept DEF Known, DeepInv, PolicyInv, Judged

\* A capability response offers what the last caps allow.
LEMMA ReportPolicy ==
  ASSUME DeepInv, getCapsInfo
  PROVE  PolicyInv'
<1> USE DEF getCapsInfo
<1>1. UNCHANGED <<configVars, country, governing, rt_settings, isCountryCodeMapCreated, conf_map>>
      /\ Judged /\ Judged'
  BY DEF applying, ghosts, Judged
<1>2. ASSUME governing # NoCountry PROVE Offered'
  <2>1. Mapped
    BY <1>1, <1>2 DEF DeepInv, PolicyInv
  <2> QED BY <1>1, <2>1, FilesKept DEF Mapped, Offered
<1> QED BY <1>1, <1>2, SettledKept

LEMMA PolicyKept ==
  ASSUME DeepInv, Judged, Judged',
         UNCHANGED <<configVars, country, governing, rt_settings, isCountryCodeMapCreated, conf_map,
                     reported>>
  PROVE  PolicyInv'
BY OfferKept, SettledKept

LEMMA PolicyStep == DeepInv /\ [Next]_vars => PolicyInv'
<1> SUFFICES ASSUME DeepInv, [Next]_vars PROVE PolicyInv'
  OBVIOUS
<1>1. CASE Open
  <2>1. country = NoCountry /\ mCurRegionCode = "" /\ api = "idle"
    BY <1>1 DEF Open, DeepInv, IInv, Typed, CountryInv, LoadInv, WorkingOpen
  <2>2. UNCHANGED <<disk, mCurRegionCode, country, governing, api, isCountryCodeMapCreated, conf_map>>
        /\ rt_settings' = Zeroed /\ reported' \subseteq reported
    BY <1>1 DEF Open, NxpConfig_Init
  <2> QED BY <2>1, <2>2, PolicyForgotten DEF DeepInv
<1>2. CASE Close
  <2>1. /\ country' = NoCountry /\ mCurRegionCode' = "" /\ api = "idle" /\ api' = "idle"
        /\ UNCHANGED <<disk, governing, isCountryCodeMapCreated, conf_map, reported>>
        /\ rt_settings' = Zeroed
    BY <1>2 DEF Close, NxpConfig_Deinit, host
  <2> QED BY <2>1, PolicyForgotten DEF DeepInv
<1>3. ASSUME NEW c \in Codes, handle_set_country_code(c) PROVE PolicyInv'
  BY <1>3, HandlePolicy
<1>4. CASE Load
  BY <1>4, LoadPolicy
<1>5. CASE applyCountryCaps
  BY <1>5, ApplyPolicy
<1>6. CASE setCalibParamTxPower
  BY <1>6, OffsetPolicy
<1>7. CASE capsApplied
  BY <1>7, AppliedPolicy
<1>8. CASE extcal_do_tx_power
  BY <1>8, PolicyKept DEF extcal_do_tx_power, host, Judged
<1>9. CASE extcal_do_tx_pulse_shape
  BY <1>9, PolicyKept DEF extcal_do_tx_pulse_shape, applying, host, Judged
<1>10. CASE ddfsToneConfig
  BY <1>10, PolicyKept DEF ddfsToneConfig, host, Judged
<1>11. CASE txBaseBandControl
  BY <1>11, PolicyKept DEF txBaseBandControl, applying, host, Judged
<1>12. CASE Answer
  BY <1>12, PolicyKept DEF Answer, applying, ghosts, Judged
<1>13. ASSUME NEW calibration \in Powers, processCalibParamTxPowerPerAntenna(calibration)
       PROVE  PolicyInv'
  BY <1>13, PolicyKept DEF processCalibParamTxPowerPerAntenna, host, Judged
<1>14. CASE getCapsInfo
  BY <1>14, ReportPolicy
<1>15. CASE UNCHANGED vars
  <2>1. UNCHANGED <<configVars, country, governing, rt_settings, isCountryCodeMapCreated, conf_map,
                    reported, api, idx, found>>
    BY <1>15 DEF vars, applying, ghosts, host
  <2>2. /\ Offered' <=> Offered
        /\ Follows' <=> Follows
        /\ Mapped' <=> Mapped
        /\ Scanned' <=> Scanned
    BY <2>1, FilesKept DEF Offered, Follows, Mapped, Scanned
  <2> QED BY <2>1, <2>2, FilesKept DEF DeepInv, PolicyInv, Judged
<1> QED BY <1>1, <1>2, <1>3, <1>4, <1>5, <1>6, <1>7, <1>8, <1>9, <1>10, <1>11, <1>12, <1>13,
           <1>14, <1>15 DEF Next

LEMMA DeepStep == DeepInv /\ [Next]_vars => DeepInv'
<1> SUFFICES ASSUME DeepInv, [Next]_vars PROVE DeepInv'
  OBVIOUS
<1>1. Typed' /\ CountryInv'
  BY TypeStep, CountryStep DEF DeepInv, IInv
<1>2. LoadInv'
  BY <1>1, LoadStep DEF DeepInv, IInv
<1> QED BY <1>1, <1>2, PolicyStep DEF DeepInv, IInv

LEMMA DeepInit == Init => DeepInv
BY TypeInit, CountryInit, LoadInit, PolicyInit DEF DeepInv, IInv

\* Whatever was set before, a capability response offers no channel that the
\* caps deny the country loaded last: the map phNxpUciHal_getCapsInfo reads is
\* that country's, though it is global and outlives the HAL it was made for.
THEOREM CapsAreTheCountrys == Spec => []CapsWithinRestrictions
<1>1. DeepInv => CapsWithinRestrictions
  BY DEF DeepInv, PolicyInv, Offered, CapsWithinRestrictions
<1> QED BY <1>1, DeepInit, DeepStep, PTL DEF Spec

-----------------------------------------------------------------------------
(* CountryCode implements CountryPolicy.                                    *)

LEMMA PolicyBegins == Init => Policy!Init
<1> SUFFICES ASSUME Init PROVE Policy!Init
  OBVIOUS
<1>1. /\ disk \in Disks /\ country = NoCountry /\ governing = NoCountry
      /\ api = "idle" /\ ~answer /\ answer \in BOOLEAN
      /\ rt_settings = Zeroed
  BY DEF Init, ConfigInit
<1>2. ~rt_settings.uwb_enable /\ rt_settings.uwb_enable = FALSE /\ rt_settings.restricted = {}
  BY <1>1 DEF Zeroed
<1> QED BY <1>1, <1>2 DEF Policy!Init, Policy!Off, Policy!NoCountry, NoCountry

\* The settings as the abstract specification sees them.
Shown == IF api = "idle"
         THEN [enabled |-> rt_settings.uwb_enable, restricted |-> rt_settings.restricted]
         ELSE [enabled |-> FALSE, restricted |-> {-1}]

LEMMA ShownKept ==
  ASSUME api # "idle", api' # "idle", UNCHANGED <<disk, country, governing, answer>>
  PROVE  UNCHANGED <<disk, country, governing, api # "idle", Shown, answer>>
BY DEF Shown

LEMMA PolicySteps ==
  ASSUME DeepInv, [Next]_vars
  PROVE  \/ Policy!Next
         \/ UNCHANGED <<disk, country, governing, api # "idle", Shown, answer>>
<1>1. CASE Open
  <2>1. /\ country = NoCountry /\ api = "idle"
        /\ UNCHANGED <<disk, country, governing, api, answer>> /\ rt_settings' = Zeroed
    BY <1>1 DEF Open, DeepInv, IInv, Typed, CountryInv, WorkingOpen, NxpConfig_Init
  <2>2. Policy!Forget
    BY <2>1 DEF Policy!Forget, Policy!NoCountry, Policy!Off, NoCountry, Zeroed
  <2> QED BY <2>2 DEF Policy!Next
<1>2. CASE Close
  <2>1. /\ country' = NoCountry /\ api = "idle"
        /\ UNCHANGED <<disk, governing, api, answer>> /\ rt_settings' = Zeroed
    BY <1>2 DEF Close, NxpConfig_Deinit, host
  <2>2. Policy!Forget
    BY <2>1 DEF Policy!Forget, Policy!NoCountry, Policy!Off, NoCountry, Zeroed
  <2> QED BY <2>2 DEF Policy!Next
<1>3. ASSUME NEW c \in Codes, handle_set_country_code(c) PROVE Policy!Next
  <2>1. /\ country' = c /\ api = "idle" /\ api' # "idle" /\ UNCHANGED <<disk, answer>>
    BY <1>3 DEF handle_set_country_code, NxpConfig_SetCountryCode
  <2>2. governing' = IF sameRegion(c) THEN governing ELSE c
    BY <1>3 DEF handle_set_country_code
  <2>3. sameRegion(c) <=> country # NoCountry /\ RegionOf(disk, c) = RegionOf(disk, governing)
    BY <1>3, SameRegion DEF handle_set_country_code
  <2>4. Policy!SetCountry(c)
    BY <2>1, <2>2, <2>3 DEF Policy!SetCountry, Policy!Unsettled, Policy!RegionInForce,
         Policy!NoCountry, NoCountry
  <2> QED BY <2>4 DEF Policy!Next
<1>4. CASE Answer
  <2>1. /\ api = "answer" /\ api' = "idle" /\ answer' = rt_settings.uwb_enable
        /\ UNCHANGED <<disk, country, governing, rt_settings>>
    BY <1>4 DEF Answer, configVars, applying, ghosts
  <2>2. country # NoCountry /\ Judged
    BY <2>1 DEF DeepInv, IInv, CountryInv, Judged
  <2>3. Follows
    BY <2>2 DEF DeepInv, PolicyInv
  <2>4. /\ rt_settings.uwb_enable \in BOOLEAN
        /\ PolicyOf(disk, governing) = [enabled |-> PolicyOf(disk, governing).enabled,
                                      restricted |-> PolicyOf(disk, governing).restricted]
        /\ PolicyOf(disk, governing).enabled \in BOOLEAN
    <3>1. rt_settings.uwb_enable \in BOOLEAN
      BY DEF DeepInv, IInv, Typed, TypeOK
    <3>2. \A b \in BOOLEAN : \A r :
            LET p == [enabled |-> b, restricted |-> r]
            IN  p = [enabled |-> p.enabled, restricted |-> p.restricted] /\ p.enabled \in BOOLEAN
      OBVIOUS
    <3> QED BY <3>1, <3>2 DEF PolicyOf
  <2>5. PolicyOf(disk, governing)
          = [enabled |-> rt_settings.uwb_enable, restricted |-> rt_settings.restricted]
    BY <2>3, <2>4 DEF Follows
  <2>6. Policy!Answer
    BY <2>1, <2>5 DEF Policy!Answer
  <2> QED BY <2>6 DEF Policy!Next
<1>5. CASE Load \/ applyCountryCaps \/ setCalibParamTxPower \/ capsApplied
  <2>1. api # "idle" /\ api' # "idle" /\ UNCHANGED <<disk, country, governing, answer>>
    BY <1>5 DEF Load, applyCountryCaps, setCalibParamTxPower, capsApplied, ghosts, host, configVars
  <2> QED BY <2>1, ShownKept
<1>6. CASE extcal_do_tx_power \/ extcal_do_tx_pulse_shape \/ ddfsToneConfig \/ txBaseBandControl
  <2>1. api # "idle" /\ api' # "idle" /\ UNCHANGED <<disk, country, governing, answer>>
    BY <1>6 DEF extcal_do_tx_power, extcal_do_tx_pulse_shape, ddfsToneConfig, txBaseBandControl,
         host, configVars
  <2> QED BY <2>1, ShownKept
<1>7. ASSUME NEW calibration \in Powers, processCalibParamTxPowerPerAntenna(calibration)
      PROVE  UNCHANGED <<disk, country, governing, api # "idle", Shown, answer>>
  BY <1>7 DEF processCalibParamTxPowerPerAntenna, configVars, host, Shown
<1>8. CASE getCapsInfo
  BY <1>8 DEF getCapsInfo, configVars, applying, ghosts, Shown
<1>9. CASE UNCHANGED vars
  BY <1>9 DEF vars, configVars, applying, ghosts, host, Shown
<1> QED BY <1>1, <1>2, <1>3, <1>4, <1>5, <1>6, <1>7, <1>8, <1>9 DEF Next

\* Over any files, countries and opens, the answer to ANDROID_SET_COUNTRY_CODE
\* and the settings left behind are the policy of the last country, or of the
\* first of its region since another was set: the abstract specification is
\* implemented (phNxpUciHal_handle_set_country_code).
THEOREM CountryCodeImplementsPolicy == Spec => PolicySpec
<1>1. DeepInv /\ [Next]_vars => [Policy!Next]_<<disk, country, governing, api # "idle", Shown, answer>>
  BY PolicySteps
<1>2. Spec => Policy!Spec
  BY <1>1, DeepInit, DeepStep, PolicyBegins, PTL DEF Spec, Policy!Spec, Shown
<1> QED BY <1>2 DEF PolicySpec

-----------------------------------------------------------------------------
(* The chip has what the files say.  While the commands are answered well,  *)
(* what is behind the API thread on its way through the handler is in the   *)
(* chip, and stays there: the host's powers are noted in asked, and another *)
(* code of the region reads the same files.                                 *)

FileSays(name) == Says(disk, country, name)

PowerDone(ch) == asked[ch] = NoPower => FileSays(TxPowerKey(ch)) \subseteq {chip.power[ch]}

ShapeDone == FileSays("cal.tx_pulse_shape") \subseteq {chip.shape}

WantsDdfs == 1 \in FileSays("cal.ddfs_enable") /\ FileSays("cal.ddfs_tone_config") # {}

ToneDone == /\ found <=> WantsDdfs
            /\ found => FileSays("cal.ddfs_tone_config") = {chip.tone}

BaseBandDone == /\ chip.ddfs <=> WantsDdfs
                /\ chip.ddfs => FileSays("cal.ddfs_tone_config") = {chip.tone}
                /\ chip.dc <=> 1 \in FileSays("cal.dc_suppress")

Progress ==
  /\ api = "power" => \A i \in 1..(idx - 1) : PowerDone(cal_channels[i])
  /\ api \in {"shape", "tone", "baseband", "answer", "idle"} => \A ch \in Channels : PowerDone(ch)
  /\ api \in {"tone", "baseband", "answer", "idle"} => ShapeDone
  /\ api = "baseband" => ToneDone
  /\ api \in {"answer", "idle"} => BaseBandDone

Applies == country # NoCountry /\ rt_settings.uwb_enable /\ ~isCountryCodeMapCreated

CalibInv ==
  /\ api = "power" => rt_settings.offset = 0
  /\ sent /\ Applies => Progress

FullInv == DeepInv /\ CalibInv

LEMMA FileSaysNow ==
  ASSUME DeepInv, country # NoCountry, NEW name
  PROVE  FileSays(name) = IF find(name) THEN {value(name)} ELSE {}
BY SaysNow DEF Known, FileSays

LEMMA OneNow ==
  ASSUME DeepInv, country # NoCountry, NEW name
  PROVE  1 \in FileSays(name) <=> GetNum(name, 0) = 1
BY FileSaysNow DEF GetNum

\* What a well-answered command leaves in the chip.
LEMMA TakenWell ==
  ASSUME NEW after, NEW ok, Sent(after, ok), sent'
  PROVE  ok /\ sent /\ chip' = after
BY DEF Sent

LEMMA PowerTaken ==
  ASSUME Typed, NEW ch \in Channels, NEW power, NEW wish,
         chip' = [chip EXCEPT !.power[ch] = power], asked' = [asked EXCEPT ![ch] = wish]
  PROVE  /\ chip'.power[ch] = power /\ asked'[ch] = wish
         /\ \A other \in Channels \ {ch} :
              chip'.power[other] = chip.power[other] /\ asked'[other] = asked[other]
         /\ UNCHANGED <<chip.shape, chip.tone, chip.ddfs, chip.dc>>
<1>1. /\ chip'.power = [chip.power EXCEPT ![ch] = power]
      /\ UNCHANGED <<chip.shape, chip.tone, chip.ddfs, chip.dc>>
  BY DEF Typed, ChipInv
<1>2. chip.power \in [Channels -> Calibrations \cup {Default}]
      /\ asked \in [Channels -> Calibrations \cup {NoPower, Unknown}]
  BY DEF Typed, TypeOK
<1> QED BY <1>1, <1>2

\* Says and what follows from it is kept while disk and country are.
LEMMA ProgressKept ==
  ASSUME UNCHANGED <<disk, country, chip, asked, api, idx, found>>, Progress
  PROVE  Progress'
<1>1. \A name : FileSays(name)' = FileSays(name)
  BY DEF FileSays
<1>2. \A ch : PowerDone(ch)' <=> PowerDone(ch)
  BY <1>1 DEF PowerDone
<1>3. /\ ShapeDone' <=> ShapeDone
      /\ ToneDone' <=> ToneDone
      /\ BaseBandDone' <=> BaseBandDone
  BY <1>1 DEF ShapeDone, ToneDone, BaseBandDone, WantsDdfs
<1> QED BY <1>2, <1>3 DEF Progress

LEMMA CalibInit == Init => CalibInv
BY DEF Init, CalibInv, Applies

LEMMA HandleCalib ==
  ASSUME FullInv, NEW c \in Codes, handle_set_country_code(c)
  PROVE  CalibInv'
<1> USE DEF handle_set_country_code
<1>1. FilesInv /\ AllLoaded /\ disk' = disk /\ country' = c /\ api = "idle"
  BY DEF FullInv, DeepInv, IInv, Typed, LoadInv, NxpConfig_SetCountryCode
<1>2. UNCHANGED <<rt_settings, isCountryCodeMapCreated, chip, asked>>
  BY DEF applying
<1>3. CASE sameRegion(c)
  <2>1. api' = "answer" /\ sent' = sent
    BY <1>3
  <2>2. mCurRegionCode = RegionOf(disk, c) /\ RegionOf(disk, c) # ""
    BY <1>1, <1>3, RegionRight DEF sameRegion, IsRegion
  <2>3. country # NoCountry /\ RegionOf(disk, country) = RegionOf(disk, c)
    BY <2>2 DEF FullInv, DeepInv, PolicyInv, InRegion
  <2>4. \A name : FileSays(name)' = FileSays(name)
    <3>1. \A name : Says(disk, c, name) = Says(disk, country, name)
      BY <2>3 DEF Says
    <3> QED BY <1>1, <3>1 DEF FileSays
  <2>5. ASSUME sent', Applies' PROVE Progress'
    <3>1. Progress
      BY <1>2, <2>1, <2>3, <2>5 DEF FullInv, CalibInv, Applies
    <3>2. (\A ch \in Channels : PowerDone(ch)) /\ ShapeDone /\ BaseBandDone
      BY <1>1, <3>1 DEF Progress
    <3>3. (\A ch \in Channels : PowerDone(ch))' /\ ShapeDone' /\ BaseBandDone'
      BY <1>2, <2>4, <3>2 DEF PowerDone, ShapeDone, BaseBandDone, WantsDdfs
    <3> QED BY <2>1, <3>3 DEF Progress
  <2> QED BY <2>1, <2>5 DEF CalibInv
<1>4. CASE ~sameRegion(c)
  <2>1. api' = "load"
    BY <1>4
  <2> QED BY <2>1 DEF CalibInv, Progress
<1> QED BY <1>3, <1>4

LEMMA LoadCalib ==
  ASSUME FullInv, Load
  PROVE  CalibInv'
<1> USE DEF Load
<1>1. CASE capsProvided
  <2>1. api' = "caps"
    BY <1>1
  <2> QED BY <2>1 DEF CalibInv, Progress
<1>2. CASE ~capsProvided
  <2>1. CASE isCountryCodeMapCreated
    <3>1. isCountryCodeMapCreated' /\ api' = "answer"
      BY <1>2, <2>1
    <3> QED BY <3>1 DEF CalibInv, Applies
  <2>2. CASE ~isCountryCodeMapCreated
    <3>1. rt_settings' = restrictions /\ idx' = 1
          /\ api' = IF rt_settings'.uwb_enable THEN "power" ELSE "answer"
      BY <1>2, <2>2
    <3>2. rt_settings'.offset = 0
      BY <3>1 DEF restrictions
    <3>3. CASE rt_settings'.uwb_enable
      <4>1. api' = "power" /\ 1..(idx' - 1) = {}
        BY <3>1, <3>3
      <4> QED BY <3>2, <4>1 DEF CalibInv, Progress
    <3>4. CASE ~rt_settings'.uwb_enable
      BY <3>1, <3>4 DEF CalibInv, Applies
    <3> QED BY <3>3, <3>4
  <2> QED BY <2>1, <2>2
<1> QED BY <1>1, <1>2

LEMMA PowerCalib ==
  ASSUME FullInv, extcal_do_tx_power
  PROVE  CalibInv'
<1> USE DEF extcal_do_tx_power
<1>0. PICK ch : ch = cal_channels[idx]
  OBVIOUS
<1> DEFINE key == TxPowerKey(ch)
<1>1. /\ api = "power" /\ rt_settings.offset = 0 /\ idx \in 1..4 /\ Typed
      /\ UNCHANGED <<disk, country, rt_settings, isCountryCodeMapCreated>>
  BY DEF FullInv, DeepInv, IInv, Typed, CalibInv, IdxInv, configVars
<1>2. ch \in Channels /\ key \in TxPowerKeys
  BY <1>0, <1>1 DEF cal_channels, Channels, TxPowerKey, TxPowerKeys
<1>3. \A name : FileSays(name)' = FileSays(name)
  BY <1>1 DEF FileSays
<1>4. SUFFICES ASSUME sent', Applies' PROVE Progress'
  BY <1>1 DEF CalibInv
<1>5. Applies /\ country # NoCountry
  BY <1>1, <1>4 DEF Applies
<1>6. FileSays(key) = IF find(key) THEN {value(key)} ELSE {}
  BY <1>5, FileSaysNow DEF FullInv
<1>7. /\ sent
      /\ PowerDone(ch)'
      /\ \A other \in Channels \ {ch} : PowerDone(other) => PowerDone(other)'
  <2>1. CASE ~find(key) /\ UNCHANGED <<gtx_power, chip, sent, asked>>
    <3>1. FileSays(TxPowerKey(ch))' = {}
      BY <1>3, <1>6, <2>1
    <3>2. PowerDone(ch)'
      BY <3>1 DEF PowerDone
    <3>3. ASSUME NEW other \in Channels \ {ch}, PowerDone(other) PROVE PowerDone(other)'
      BY <1>3, <2>1, <3>3 DEF PowerDone
    <3> QED BY <1>4, <2>1, <3>2, <3>3
  <2>2. CASE /\ find(key) /\ value(key) # Malformed
             /\ SendTxPower([channel |-> ch, power |-> value(key)], rt_settings.offset, NoPower)
    <3> DEFINE given == [channel |-> ch, power |-> value(key)]
               seen  == updateTxPower(given, rt_settings.offset)
    <3>1. value(key) \in Calibrations
      BY <1>1, <1>2, <2>2, PowersTyped DEF Calibrations, Typed
    <3>2. seen.channel = ch /\ seen.power = value(key)
      <4>1. given # Empty /\ given.channel = ch /\ given.power = value(key)
        BY <1>2 DEF Empty, Channels
      <4>2. seen = [given EXCEPT !.power = Adjusted(given.power, rt_settings.offset)]
        BY <4>1 DEF updateTxPower
      <4>3. Adjusted(given.power, rt_settings.offset) = given.power
        BY <1>1 DEF Adjusted
      <4> QED BY <4>1, <4>2, <4>3
    <3>3. PICK ok \in BOOLEAN :
            /\ Sent([chip EXCEPT !.power[seen.channel] = seen.power], ok)
            /\ asked' = [asked EXCEPT ![seen.channel] = IF ok THEN NoPower ELSE Unknown]
      BY <2>2 DEF SendTxPower, Answered
    <3> HIDE DEF seen
    <3>4. /\ sent /\ chip' = [chip EXCEPT !.power[ch] = value(key)]
          /\ asked' = [asked EXCEPT ![ch] = NoPower]
      BY <1>4, <3>2, <3>3, TakenWell
    <3> HIDE DEF key
    <3>5. /\ sent /\ chip'.power[ch] = value(key)
          /\ \A other \in Channels \ {ch} :
               chip'.power[other] = chip.power[other] /\ asked'[other] = asked[other]
      BY <1>1, <1>2, <3>4, PowerTaken
    <3>6. FileSays(TxPowerKey(ch))' = {value(key)}
      BY <1>3, <1>6, <2>2 DEF key
    <3>7. PowerDone(ch)'
      BY <3>5, <3>6 DEF PowerDone
    <3>8. ASSUME NEW other \in Channels \ {ch}, PowerDone(other) PROVE PowerDone(other)'
      BY <1>3, <3>5, <3>8 DEF PowerDone
    <3> QED BY <3>5, <3>7, <3>8
  <2>3. \/ ~find(key) /\ UNCHANGED <<gtx_power, chip, sent, asked>>
        \/ ~sent'
        \/ /\ find(key) /\ value(key) # Malformed
           /\ SendTxPower([channel |-> ch, power |-> value(key)], rt_settings.offset, NoPower)
    BY <1>0
  <2> QED BY <1>4, <2>1, <2>2, <2>3
<1>8. \A i \in 1..(idx - 1) : cal_channels[i] \in Channels \ {ch}
  BY <1>0, <1>1 DEF cal_channels, Channels
<1>9. \A i \in 1..(idx - 1) : PowerDone(cal_channels[i])
  BY <1>1, <1>5, <1>7 DEF FullInv, CalibInv, Progress
<1>10. \A i \in 1..idx : PowerDone(cal_channels[i])'
  <2>1. \A i \in 1..(idx - 1) : PowerDone(cal_channels[i])'
    BY <1>7, <1>8, <1>9
  <2>2. 1..idx = 1..(idx - 1) \cup {idx}
    BY <1>1
  <2>3. cal_channels[idx] = ch /\ PowerDone(ch)'
    BY <1>0, <1>7
  <2>4. ASSUME NEW i, i = idx PROVE PowerDone(cal_channels[i])'
    BY <2>3, <2>4
  <2> QED BY <2>1, <2>2, <2>4
<1>11. CASE idx < Len(cal_channels)
  <2>1. idx' - 1 = idx /\ api' = "power"
    BY <1>1, <1>11
  <2> QED BY <1>10, <2>1 DEF Progress
<1>12. CASE ~(idx < Len(cal_channels))
  <2>1. idx = 4 /\ api' = "shape"
    BY <1>1, <1>12 DEF cal_channels
  <2>2. ASSUME NEW other \in Channels PROVE PowerDone(other)'
    <3>1. PICK i \in 1..4 : other = cal_channels[i]
      <4>1. cal_channels[1] = 5 /\ cal_channels[2] = 6 /\ cal_channels[3] = 8 /\ cal_channels[4] = 9
        BY DEF cal_channels
      <4> QED BY <4>1 DEF Channels
    <3> QED BY <1>10, <2>1, <3>1
  <2> QED BY <2>1, <2>2 DEF Progress
<1> QED BY <1>11, <1>12

LEMMA ShapeCalib ==
  ASSUME FullInv, extcal_do_tx_pulse_shape
  PROVE  CalibInv'
<1> USE DEF extcal_do_tx_pulse_shape
<1> DEFINE name == "cal.tx_pulse_shape"
<1>1. /\ api = "shape" /\ api' = "tone" /\ Typed
      /\ UNCHANGED <<disk, country, rt_settings, isCountryCodeMapCreated, asked>>
  BY DEF FullInv, DeepInv, IInv, configVars, applying
<1>2. SUFFICES ASSUME sent', Applies' PROVE Progress'
  BY <1>1 DEF CalibInv
<1>3. Applies /\ country # NoCountry
  BY <1>1, <1>2 DEF Applies
<1>4. FileSays(name) = IF find(name) THEN {value(name)} ELSE {}
  BY <1>3, FileSaysNow DEF FullInv
<1>5. sent /\ chip'.power = chip.power /\ FileSays(name) \subseteq {chip'.shape}
  <2>1. CASE find(name)
    <3>1. PICK ok \in BOOLEAN : Sent([chip EXCEPT !.shape = value(name)], ok)
      BY <2>1 DEF Send
    <3>2. sent /\ chip' = [chip EXCEPT !.shape = value(name)]
      BY <1>2, <3>1, TakenWell
    <3> QED BY <1>1, <1>4, <2>1, <3>2 DEF Typed, ChipInv
  <2>2. CASE ~find(name)
    BY <1>2, <1>4, <2>2
  <2> QED BY <2>1, <2>2
<1>6. \A ch \in Channels : PowerDone(ch)
  BY <1>1, <1>3, <1>5 DEF FullInv, CalibInv, Progress
<1>7. \A n : FileSays(n)' = FileSays(n)
  BY <1>1 DEF FileSays
<1>8. ShapeDone' /\ \A ch \in Channels : PowerDone(ch)'
  BY <1>1, <1>5, <1>6, <1>7 DEF ShapeDone, PowerDone
<1> QED BY <1>1, <1>8 DEF Progress

LEMMA ToneCalib ==
  ASSUME FullInv, ddfsToneConfig
  PROVE  CalibInv'
<1> USE DEF ddfsToneConfig
<1> DEFINE tone == "cal.ddfs_tone_config"
           asks == GetNum("cal.ddfs_enable", 0) = 1 /\ find(tone)
<1>1. /\ api = "tone" /\ api' = "baseband" /\ Typed
      /\ UNCHANGED <<disk, country, rt_settings, isCountryCodeMapCreated, asked>>
  BY DEF FullInv, DeepInv, IInv, configVars
<1>2. SUFFICES ASSUME sent', Applies' PROVE Progress'
  BY <1>1 DEF CalibInv
<1>3. Applies /\ country # NoCountry
  BY <1>1, <1>2 DEF Applies
<1>4. FileSays(tone) = IF find(tone) THEN {value(tone)} ELSE {}
  BY <1>3, FileSaysNow DEF FullInv
<1>5. WantsDdfs <=> asks
  BY <1>3, <1>4, OneNow DEF FullInv, WantsDdfs
<1>6. /\ sent /\ chip'.power = chip.power /\ chip'.shape = chip.shape
      /\ found' <=> asks
      /\ asks => FileSays(tone) = {chip'.tone}
  <2>1. CASE asks
    <3>1. PICK ok \in BOOLEAN : Sent([chip EXCEPT !.tone = value(tone)], ok) /\ found' = ok
      BY <2>1
    <3>2. ok /\ sent /\ chip' = [chip EXCEPT !.tone = value(tone)]
      BY <1>2, <3>1, TakenWell
    <3>3. /\ chip'.tone = value(tone) /\ chip'.power = chip.power /\ chip'.shape = chip.shape
      BY <1>1, <3>2 DEF Typed, ChipInv
    <3> QED BY <1>4, <2>1, <3>1, <3>2, <3>3
  <2>2. CASE ~asks
    BY <1>2, <2>2
  <2> QED BY <2>1, <2>2
<1>7. ShapeDone /\ \A ch \in Channels : PowerDone(ch)
  BY <1>1, <1>3, <1>6 DEF FullInv, CalibInv, Progress
<1>8. \A n : FileSays(n)' = FileSays(n)
  BY <1>1 DEF FileSays
<1>9. ShapeDone' /\ \A ch \in Channels : PowerDone(ch)'
  BY <1>1, <1>6, <1>7, <1>8 DEF ShapeDone, PowerDone
<1>10. ToneDone'
  <2>1. WantsDdfs' <=> WantsDdfs
    BY <1>8 DEF WantsDdfs
  <2> QED BY <1>5, <1>6, <1>8, <2>1 DEF ToneDone
<1> QED BY <1>1, <1>9, <1>10 DEF Progress

LEMMA BaseBandCalib ==
  ASSUME FullInv, txBaseBandControl
  PROVE  CalibInv'
<1> USE DEF txBaseBandControl
<1> DEFINE suppress == GetNum("cal.dc_suppress", 0) = 1
<1>1. /\ api = "baseband" /\ api' = "answer" /\ Typed
      /\ UNCHANGED <<disk, country, rt_settings, isCountryCodeMapCreated, asked>>
  BY DEF FullInv, DeepInv, IInv, configVars, applying
<1>2. SUFFICES ASSUME sent', Applies' PROVE Progress'
  BY <1>1 DEF CalibInv
<1>3. Applies /\ country # NoCountry
  BY <1>1, <1>2 DEF Applies
<1>4. PICK ok \in BOOLEAN : Sent([chip EXCEPT !.ddfs = found, !.dc = suppress], ok)
  BY DEF Send
<1>5. sent /\ chip' = [chip EXCEPT !.ddfs = found, !.dc = suppress]
  BY <1>2, <1>4, TakenWell
<1>6. /\ chip'.ddfs = found /\ chip'.dc = suppress
      /\ UNCHANGED <<chip.power, chip.shape, chip.tone>>
  <2> HIDE DEF suppress
  <2> QED BY <1>1, <1>5 DEF Typed, ChipInv
<1>7. ShapeDone /\ ToneDone /\ \A ch \in Channels : PowerDone(ch)
  BY <1>1, <1>3, <1>5 DEF FullInv, CalibInv, Progress
<1>8. \A n : FileSays(n)' = FileSays(n)
  BY <1>1 DEF FileSays
<1>9. ShapeDone' /\ \A ch \in Channels : PowerDone(ch)'
  BY <1>1, <1>6, <1>7, <1>8 DEF ShapeDone, PowerDone
<1>10. BaseBandDone'
  <2>1. WantsDdfs' <=> WantsDdfs
    BY <1>8 DEF WantsDdfs
  <2>2. 1 \in FileSays("cal.dc_suppress") <=> suppress
    BY <1>3, OneNow DEF FullInv
  <2>3. chip'.dc <=> 1 \in FileSays("cal.dc_suppress")
    <3> HIDE DEF suppress
    <3> QED BY <1>6, <2>2
  <2> QED BY <1>6, <1>7, <1>8, <2>1, <2>3 DEF ToneDone, BaseBandDone
<1> QED BY <1>1, <1>9, <1>10 DEF Progress

\* A power of the host is noted.
LEMMA ProcessCalib ==
  ASSUME FullInv, NEW calibration \in Powers, processCalibParamTxPowerPerAntenna(calibration)
  PROVE  CalibInv'
<1> USE DEF processCalibParamTxPowerPerAntenna
<1> DEFINE seen == updateTxPower(calibration, rt_settings.offset)
<1>1. /\ api = "idle" /\ api' = "idle" /\ Typed /\ rt_settings.offset \in Int
      /\ UNCHANGED <<disk, country, rt_settings, isCountryCodeMapCreated>>
  BY DEF FullInv, DeepInv, IInv, Typed, TypeOK, configVars
<1>2. SUFFICES ASSUME sent', Applies' PROVE Progress'
  BY <1>1 DEF CalibInv
<1>3. calibration \in [channel : Channels, power : Calibrations]
  BY PowerAssumption DEF Channels, Calibrations
<1>4. seen.channel = calibration.channel /\ calibration.channel \in Channels
      /\ calibration.power # NoPower
  <2>1. calibration.power # NoPower
    BY <1>3, PowerAssumption DEF Calibrations, NoPower
  <2>2. seen.channel = calibration.channel
    BY <1>1, <1>3, UpdatedTyped
  <2> QED BY <1>3, <2>1, <2>2
<1>5. PICK ok \in BOOLEAN :
        /\ Sent([chip EXCEPT !.power[seen.channel] = seen.power], ok)
        /\ asked' = [asked EXCEPT ![seen.channel] = IF ok THEN calibration.power ELSE Unknown]
  BY DEF SendTxPower, Answered
<1> HIDE DEF seen
<1>6. PICK ch : ch = seen.channel
  OBVIOUS
<1>7. /\ sent /\ chip' = [chip EXCEPT !.power[ch] = seen.power]
       /\ asked' = [asked EXCEPT ![ch] = calibration.power]
  BY <1>6, <1>2, <1>5, TakenWell
<1>8. /\ sent /\ asked'[ch] = calibration.power
      /\ \A other \in Channels \ {ch} :
           chip'.power[other] = chip.power[other] /\ asked'[other] = asked[other]
      /\ UNCHANGED <<chip.shape, chip.tone, chip.ddfs, chip.dc>>
  <2>1. ch \in Channels /\ Typed
    BY <1>6, <1>1, <1>4
  <2>2. PICK power : power = seen.power
    OBVIOUS
  <2>3. chip' = [chip EXCEPT !.power[ch] = power]
    BY <1>7, <2>2
  <2>4. PICK wish : wish = calibration.power
    OBVIOUS
  <2>5. asked' = [asked EXCEPT ![ch] = wish]
    BY <1>7, <2>4
  <2>6. /\ asked'[ch] = wish
        /\ \A other \in Channels \ {ch} :
             chip'.power[other] = chip.power[other] /\ asked'[other] = asked[other]
        /\ UNCHANGED <<chip.shape, chip.tone, chip.ddfs, chip.dc>>
    <3>1. chip'.power = [chip.power EXCEPT ![ch] = power]
          /\ UNCHANGED <<chip.shape, chip.tone, chip.ddfs, chip.dc>>
      BY <2>1, <2>3 DEF Typed, ChipInv
    <3>2. chip.power \in [Channels -> Calibrations \cup {Default}]
          /\ asked \in [Channels -> Calibrations \cup {NoPower, Unknown}]
      BY <2>1 DEF Typed, TypeOK
    <3> QED BY <2>1, <2>5, <3>1, <3>2
  <2> QED BY <1>7, <2>4, <2>6
<1>9. ShapeDone /\ BaseBandDone /\ \A other \in Channels : PowerDone(other)
  BY <1>1, <1>2, <1>8 DEF FullInv, CalibInv, Progress, Applies
<1>10. \A n : FileSays(n)' = FileSays(n)
  BY <1>1 DEF FileSays
<1>11. ShapeDone' /\ BaseBandDone'
  BY <1>8, <1>9, <1>10 DEF ShapeDone, BaseBandDone, WantsDdfs
<1>12. \A other \in Channels : PowerDone(other)'
  BY <1>4, <1>8, <1>9, <1>10 DEF PowerDone
<1> QED BY <1>1, <1>11, <1>12 DEF Progress

\* Steps that send nothing.
LEMMA AnswerCalib ==
  ASSUME FullInv, Answer \/ getCapsInfo
  PROVE  CalibInv'
<1>1. /\ api \in {"answer", "idle"} /\ api' = "idle"
      /\ UNCHANGED <<disk, country, rt_settings, isCountryCodeMapCreated, asked, chip, sent>>
  BY DEF Answer, getCapsInfo, configVars, applying, ghosts
<1>2. \A n : FileSays(n)' = FileSays(n)
  BY <1>1 DEF FileSays
<1>3. ASSUME sent', Applies' PROVE Progress'
  <2>1. ShapeDone /\ BaseBandDone /\ \A ch \in Channels : PowerDone(ch)
    BY <1>1, <1>3 DEF FullInv, CalibInv, Progress, Applies
  <2>2. ShapeDone' /\ BaseBandDone' /\ \A ch \in Channels : PowerDone(ch)'
    BY <1>1, <1>2, <2>1 DEF ShapeDone, BaseBandDone, PowerDone, WantsDdfs
  <2> QED BY <1>1, <2>2 DEF Progress
<1> QED BY <1>1, <1>3 DEF CalibInv

LEMMA CalibStep == FullInv /\ [Next]_vars => CalibInv'
<1> SUFFICES ASSUME FullInv, [Next]_vars PROVE CalibInv'
  OBVIOUS
<1>1. CASE Open
  <2>1. country' = NoCountry /\ api' = "idle"
    BY <1>1 DEF Open, FullInv, DeepInv, IInv, Typed, CountryInv, WorkingOpen
  <2> QED BY <2>1 DEF CalibInv, Applies
<1>2. CASE Close
  <2>1. country' = NoCountry /\ api' = "idle"
    BY <1>2 DEF Close
  <2> QED BY <2>1 DEF CalibInv, Applies
<1>3. ASSUME NEW c \in Codes, handle_set_country_code(c) PROVE CalibInv'
  BY <1>3, HandleCalib
<1>4. CASE Load
  BY <1>4, LoadCalib
<1>5. CASE applyCountryCaps \/ setCalibParamTxPower
  <2>1. api' \in {"caps", "offset"}
    BY <1>5 DEF applyCountryCaps, setCalibParamTxPower
  <2> QED BY <2>1 DEF CalibInv, Progress
<1>6. CASE capsApplied
  <2>1. isCountryCodeMapCreated' /\ api' = "answer"
    BY <1>6 DEF capsApplied
  <2> QED BY <2>1 DEF CalibInv, Applies
<1>7. CASE extcal_do_tx_power
  BY <1>7, PowerCalib
<1>8. CASE extcal_do_tx_pulse_shape
  BY <1>8, ShapeCalib
<1>9. CASE ddfsToneConfig
  BY <1>9, ToneCalib
<1>10. CASE txBaseBandControl
  BY <1>10, BaseBandCalib
<1>11. CASE Answer \/ getCapsInfo
  BY <1>11, AnswerCalib
<1>12. ASSUME NEW calibration \in Powers, processCalibParamTxPowerPerAntenna(calibration)
       PROVE  CalibInv'
  BY <1>12, ProcessCalib
<1>13. CASE UNCHANGED vars
  <2>1. UNCHANGED <<disk, country, rt_settings, isCountryCodeMapCreated, asked, chip, sent, api,
                    idx, found>>
    BY <1>13 DEF vars, configVars, applying, ghosts
  <2> QED BY <2>1, ProgressKept DEF FullInv, CalibInv, Applies
<1> QED BY <1>1, <1>2, <1>3, <1>4, <1>5, <1>6, <1>7, <1>8, <1>9, <1>10, <1>11, <1>12, <1>13
       DEF Next

\* Whatever countries were set before and whatever the host calibrated, when
\* every command of the last country was answered well the chip has every
\* calibration the files give for it (extcal_handle_coreinit and the calibrations it sends).
THEOREM ChipHasWhatFilesSay == Spec => []ChipMatchesFiles
<1>1. Init => FullInv
  BY DeepInit, CalibInit DEF FullInv
<1>2. FullInv /\ [Next]_vars => FullInv'
  BY DeepStep, CalibStep DEF FullInv
<1>3. FullInv => ChipMatchesFiles
  <2> SUFFICES ASSUME FullInv, Calibrated
               PROVE  /\ \A ch \in Channels : PowerDone(ch)
                      /\ ShapeDone /\ BaseBandDone
    BY DEF ChipMatchesFiles, PowerDone, ShapeDone, BaseBandDone, WantsDdfs, FileSays
  <2> QED BY DEF FullInv, CalibInv, Progress, Applies, Calibrated
<1> QED BY <1>1, <1>2, <1>3, PTL DEF Spec
=============================================================================
