----------------------------- MODULE UciPackets ------------------------------
(***************************************************************************)
(* The packets the HAL changes on their way: SESSION_SET_APP_CONFIG from   *)
(* the host (parameters the firmware does not know are removed, a channel  *)
(* the country denies is refused) and CORE_GET_CAPS_INFO from the chip     *)
(* (vendor tags out, configured ones in, channels masked by the country),  *)
(* and what a refused CORE_SET_CONFIG means.                               *)
(*                                                                         *)
(* A packet is a sequence of bytes, and byte i of the code is p[i + 1]. A  *)
(* TLV is a record; every loop of the code is one recursive function.      *)
(* Parameters have fewer than 253 bytes: with a longer one the eight-bit   *)
(* param_len wraps.                                                        *)
(***************************************************************************)
EXTENDS Integers, FiniteSets, Sequences, SequencesExt

CONSTANTS
  AppConfigs,  \* configurations the host may set: [tlvs, cut], cut short by so many bytes
  Devices,     \* [caps, vendor]: the chip's capabilities and UWB_VENDOR_CAPABILITY
  AntennaBlocks, \* sequences of parameters in UWB_CORE_EXT_DEVICE_..._CONFIG
  Refusals,    \* refused configurations: sequences of [extended, id, status]
  MaxPackets   \* bounds the packets handled

VARIABLES
  p_cmd_data,   \* the command buffer: a command overwrites only its length
  restricted,   \* rt_settings.restricted_channel_mask
  isCountryCodeMapCreated, conf_map, \* made from it by SetCountry
  input_map,    \* what get_input_map has read
  antennas,     \* NoPair, or numberOfAntennaPairs once isAntennaRxPairDefined
  device,
  packets,      \* packets handled
  in,           \* ghost: what the last packet said
  out           \* what became of it

vendor == device.vendor   \* <<>> when it is not set
caps == device.caps
country == <<restricted, isCountryCodeMapCreated, conf_map>>
vars == <<p_cmd_data, country, input_map, antennas, device, packets, in, out>>

-----------------------------------------------------------------------------
(* Tags and bytes.                                                         *)

CHANNEL_NUMBER == 4
UWB_CHANNELS == 14
AOA_SUPPORT == 19
CCC_UWB_CHANNELS == 163
CCC_SUPPORTED_PROTOCOL_VERSIONS == 164
ANTENNA_RX_PAIR_DEFINE == 58466   \* E4 62
tags_to_del == {28, 227, 228, 229}
Extended == 224..226        \* E0 to E2: the first byte of a two-byte tag
VendorSpecific == {224, 227} \* those parse_get_capsInfo takes for such
NoPair == -1

UCI_STATUS_OK == 0
FEATURE_NOT_SUPPORTED == 85

Byte == 0..255
TwoByteTags == Nat \ Byte
Tlv(tag, value) == [tag |-> tag, value |-> value]

\* The parameters that a loop reads as they were written, when it takes the
\* tags in "wide" for two-byte tags.
Readable(wide) ==
  {t \in [tag : Nat, value : Seq(Byte)] :
     /\ t.tag < 65536 /\ Len(t.value) < 253
     /\ t.tag > 255 => t.tag \div 256 \in wide
     /\ t.tag < 256 => t.tag \notin wide}

TagBytes(tag) == IF tag > 255 THEN <<tag \div 256, tag % 256>> ELSE <<tag>>
TlvBytes(t) == TagBytes(t.tag) \o <<Len(t.value)>> \o t.value
Encode(tlvs) == FlattenSeq([k \in DOMAIN tlvs |-> TlvBytes(tlvs[k])])

\* What is left of TLVs without these tags.
Without(tlvs, tags) ==
  FlattenSeq([k \in DOMAIN tlvs |-> IF tlvs[k].tag \in tags THEN <<>> ELSE <<tlvs[k]>>])

\* The host's commands fit p_cmd_data (UCI_MAX_DATA_LEN); one that is cut short
\* ends within its last parameter.
ASSUME PacketAssumption ==
  /\ MaxPackets \in Nat
  /\ Refusals \subseteq Seq([extended : BOOLEAN, id : Byte, status : Byte])
  /\ \A config \in AppConfigs :
       /\ config.tlvs \in Seq(Readable(Extended))
       /\ Len(Encode(config.tlvs)) < 4096 /\ Len(config.tlvs) < 256
       /\ \A k \in DOMAIN config.tlvs :
            config.tlvs[k].tag = CHANNEL_NUMBER => config.tlvs[k].value # <<>>
       /\ config.cut \in Nat
       /\ config.cut > 0 =>
            config.tlvs # <<>> /\ config.cut < Len(TlvBytes(Last(config.tlvs)))

\* What the capabilities of a chip and those configured for it are taken to be.
\* The response of both fits an eight-bit length, no tag comes twice, and the
\* last value is not empty (get_input_map would give up).  Configured tags have
\* one byte, as the loop that counts them has it, and are not of channels.  The
\* tag for the angle of arrival follows one that is not left out and not empty:
\* else p_caps_value is not set where it is written through, or points to the
\* tag itself.
Fitting(chip) ==
  LET kept == {k \in DOMAIN chip.caps : chip.vendor = <<>> \/ chip.caps[k].tag < 256}
      all  == chip.caps \o chip.vendor
  IN  /\ chip.caps \in Seq(Readable(VendorSpecific)) /\ chip.vendor \in Seq(Readable(Extended))
      /\ \A k \in kept : chip.caps[k] \in Readable(Extended)
      /\ Len(Encode(chip.caps)) + Len(Encode(chip.vendor)) < 254
      /\ \A j, k \in DOMAIN all : all[j].tag = all[k].tag => j = k
      /\ all # <<>> => Last(all).value # <<>>
      /\ \A k \in DOMAIN chip.caps :
           /\ chip.caps[k].tag \in {UWB_CHANNELS, CCC_UWB_CHANNELS, AOA_SUPPORT} =>
                Len(chip.caps[k].value) = 1
           /\ chip.caps[k].tag = CCC_SUPPORTED_PROTOCOL_VERSIONS => Len(chip.caps[k].value) = 2
           /\ chip.caps[k].tag = AOA_SUPPORT =>
                \E j \in 1..(k - 1) :
                  /\ chip.caps[j].tag < 256 /\ chip.caps[j].value # <<>>
                  /\ \A between \in (j + 1)..(k - 1) : chip.caps[between].tag > 255
      /\ \A k \in DOMAIN chip.vendor :
           chip.vendor[k].tag < 256 /\ chip.vendor[k].tag \notin {UWB_CHANNELS, CCC_UWB_CHANNELS}

\* A device has one pair of receiving antennas or more.
ASSUME DeviceAssumption ==
  /\ \A chip \in Devices : Fitting(chip)
  /\ AntennaBlocks \subseteq Seq([tag : Nat, value : Seq(Byte)])
  /\ \A block \in AntennaBlocks : \A k \in 1..Len(block) :
       block[k].tag = ANTENNA_RX_PAIR_DEFINE => block[k].value[1] \in Byte \ {0}

\* Byte i; zero beyond what was ever written.
At(p, i) == IF i < Len(p) THEN p[i + 1] ELSE 0

\* The TLVs from byte i on, as a loop reads them that takes the tags in
\* "wide" for two-byte tags and wants "slack" bytes after the length; ok when
\* it came to the end of the packet.
Walk(p, wide, from, slack) ==
  LET n == Len(p)
      walk[i \in from..n] ==
        LET head == IF At(p, i) \in wide THEN 3 ELSE 2
            tag  == IF head = 3 THEN 256 * At(p, i) + At(p, i + 1) ELSE At(p, i)
            next == i + head + At(p, i + head - 1)
            rest == walk[next]
        IN  IF i = n THEN [ok |-> TRUE, tlvs |-> <<>>]
            ELSE IF i + head + slack > n \/ next > n THEN [ok |-> FALSE, tlvs |-> <<>>]
            ELSE [ok   |-> rest.ok,
                  tlvs |-> <<Tlv(tag, SubSeq(p, i + head + 1, next))>> \o rest.tlvs]
  IN  walk[from]

Nothing == [kind |-> "none"]
NoTags == [tag \in {} |-> tag]

\* A map takes each TLV under its tag, the last of several.
Insert(map, tlvs) ==
  LET last(tag) == SelectLastInSeq(tlvs, LAMBDA t : t.tag = tag)
  IN  [tag \in DOMAIN map \cup {tlvs[k].tag : k \in DOMAIN tlvs} |->
         IF last(tag) = 0 THEN map[tag] ELSE tlvs[last(tag)].value]

-----------------------------------------------------------------------------
(* SESSION_SET_APP_CONFIG.                                                  *)

SetAppConfig(tlvs, session) ==
  LET length == Len(session) + 1 + Len(Encode(tlvs))
  IN  <<33, 3>> \o <<length \div 256, length % 256>> \o session \o <<Len(tlvs)>> \o Encode(tlvs)

\* Mutant: the parameters are removed, the length in the header stays.
OldLength(p) ==
  LET read    == Walk(p, Extended, 9, 0)
      kept    == Without(read.tlvs, tags_to_del)
      removed == Len(read.tlvs) - Len(kept)
  IN  IF ~read.ok \/ p[9] < removed THEN p
      ELSE SubSeq(p, 1, 8) \o <<p[9] - removed>> \o Encode(kept)

\* A packet whose TLVs do not end with it goes on as it is.
handlingVendorSpecificAppConfig(p) ==
  LET read    == Walk(p, Extended, 9, 0)
      kept    == Without(read.tlvs, tags_to_del)
      removed == Len(read.tlvs) - Len(kept)
      bytes   == Len(Encode(read.tlvs)) - Len(Encode(kept))
      length  == (p[4] + 256 * p[3]) - bytes
  IN  IF ~read.ok \/ p[9] < removed \/ length < 0 THEN p
      ELSE SubSeq(p, 1, 2) \o <<length \div 256, length % 256>> \o SubSeq(p, 5, 8)
             \o <<p[9] - removed>> \o Encode(kept)

\* Mutant: the loop goes on with the value of the parameter.
Unskipped(buffer) ==
  LET len == (At(buffer, 3) + 4) % 256
      scan[i \in 0..255] ==
        /\ i < len
        /\ LET value == (i + 2) % 256
           IN  \/ At(buffer, i) = CHANNEL_NUMBER /\ At(buffer, value) \in restricted
               \/ scan[value]
  IN  scan[9]

\* The loop of phNxpUciHal_parse: eight-bit length and index, one-byte tags,
\* and what it reads beyond the command is left of an earlier one.
channelBlocked(buffer) ==
  LET len == (At(buffer, 3) + 4) % 256
      scan[i \in 0..255] ==
        /\ i < len
        /\ LET value == (i + 2) % 256
           IN  \/ At(buffer, i) = CHANNEL_NUMBER /\ At(buffer, value) \in restricted
               \/ scan[(value + At(buffer, (i + 1) % 256)) % 256]
  IN  scan[9]

Overwrite(buffer, p) == p \o SubSeq(buffer, Len(p) + 1, Len(buffer))

Session == <<1, 0, 0, 0>>
CutShort(config) ==
  LET whole == SetAppConfig(config.tlvs, Session)
  IN  SubSeq(whole, 1, Len(whole) - config.cut)

\* phNxpUciHal_write_unlocked for one command.
WriteAppConfig(config) ==
  LET command  == CutShort(config)
      stripped == handlingVendorSpecificAppConfig(command)
      buffer   == Overwrite(Overwrite(p_cmd_data, command), stripped)
  IN  /\ packets < MaxPackets /\ packets' = packets + 1
      /\ p_cmd_data' = buffer
      /\ in' = [kind |-> "app config", tlvs |-> config.tlvs, cut |-> config.cut]
      /\ out' = [kind  |-> IF channelBlocked(buffer) THEN "blocked" ELSE "written",
                 bytes |-> SubSeq(buffer, 1, Len(stripped))]
      /\ UNCHANGED <<country, input_map, antennas, device>>

-----------------------------------------------------------------------------
(* CORE_GET_CAPS_INFO.                                                      *)

\* The TLVs applyCountryCaps makes of the restricted channels.
CountryData(channels) ==
  Encode(<<Tlv(UWB_CHANNELS, <<255 - (IF 5 \in channels THEN 1 ELSE 0)
                                   - (IF 9 \in channels THEN 8 ELSE 0)>>),
           Tlv(CCC_UWB_CHANNELS, <<(IF 5 \in channels THEN 0 ELSE 1)
                                    + (IF 9 \in channels THEN 0 ELSE 2)>>)>>)

get_conf_map(data) ==
  LET read == Walk(data, Extended, 0, 1)
  IN  /\ conf_map' = Insert(conf_map, read.tlvs)
      /\ isCountryCodeMapCreated' = read.ok

\* The caps of a country; or, if there never were any, its restrictions alone.
SetCountry(channels) ==
  /\ restricted' = channels
  /\ \/ get_conf_map(CountryData(channels))
     \/ ~isCountryCodeMapCreated /\ UNCHANGED <<isCountryCodeMapCreated, conf_map>>
  /\ in' = Nothing /\ out' = Nothing
  /\ UNCHANGED <<p_cmd_data, input_map, antennas, device, packets>>

\* The first definition of the receiver's antenna pairs counts.
parseAntennaConfig(block) ==
  /\ packets = 0
  /\ LET first == SelectInSeq(block, LAMBDA t : t.tag = ANTENNA_RX_PAIR_DEFINE)
     IN  antennas' = IF first = 0 THEN antennas ELSE block[first].value[1]
  /\ UNCHANGED <<p_cmd_data, country, input_map, device, packets, in, out>>

CapsResponse(status, tlvs) ==
  LET payload == <<status, Len(tlvs)>> \o Encode(tlvs)
  IN  <<64, 3, 0, Len(payload)>> \o payload

\* What the number of antenna pairs says of the angle of arrival.
aoa(old) == CASE antennas = NoPair -> 0 [] antennas = 1 -> 1 [] antennas > 1 -> 5
              [] OTHER -> old

\* p_caps_value, when the tag for the angle of arrival is read, points to the
\* value of the last parameter before it that was not left out.
Overwritten(tlvs) ==
  {k \in DOMAIN tlvs : /\ tlvs[k].tag < 256
                       /\ \E a \in (k + 1)..Len(tlvs) :
                            /\ tlvs[a].tag = AOA_SUPPORT
                            /\ \A between \in (k + 1)..(a - 1) : tlvs[between].tag > 255}

inPlace(tlvs) ==
  [k \in DOMAIN tlvs |->
     IF k \in Overwritten(tlvs) THEN [tlvs[k] EXCEPT !.value[1] = aoa(@)] ELSE tlvs[k]]

rebuilt(tlvs) ==
  [k \in DOMAIN tlvs |->
     CASE tlvs[k].tag = AOA_SUPPORT -> [tlvs[k] EXCEPT !.value = <<aoa(tlvs[k - 1].value[1])>>]
       [] tlvs[k].tag = CCC_SUPPORTED_PROTOCOL_VERSIONS ->
            [tlvs[k] EXCEPT !.value = <<@[Len(@)], @[1]>>]
       [] OTHER -> tlvs[k]]

\* The response is written anew only when UWB_VENDOR_CAPABILITY is set.
parse_get_capsInfo(p) ==
  LET tlvs == Walk(p, VendorSpecific, 6, 0).tlvs
      kept == Without(tlvs, TwoByteTags)
      all  == Encode(rebuilt(kept) \o vendor)
      capsLen == p[6] - (Len(tlvs) - Len(kept))
      length  == p[4] - (Len(Encode(tlvs)) - Len(Encode(kept))) + Len(Encode(vendor))
  IN  IF p[5] # UCI_STATUS_OK THEN p
      ELSE IF vendor = <<>> THEN SubSeq(p, 1, 6) \o Encode(inPlace(tlvs))
      ELSE <<64, 3, 0, length % 256, UCI_STATUS_OK, capsLen + Len(vendor)>>
             \o SubSeq(all, 1, length - 2)

\* Mutant: channels are taken from the country alone.
Replaced(map) ==
  [tag \in DOMAIN map |->
     IF tag \in {UWB_CHANNELS, CCC_UWB_CHANNELS} \cap DOMAIN conf_map
     THEN conf_map[tag] ELSE map[tag]]

Bits(byte) == {bit \in {1, 2, 4, 8, 16, 32, 64, 128} : (byte \div bit) % 2 = 1}
FromBits(bits) == CHOOSE byte \in Byte : Bits(byte) = bits

\* Length and value of a tag of both maps, byte by byte.
Masked(map) ==
  [tag \in DOMAIN map |->
     IF tag \in {UWB_CHANNELS, CCC_UWB_CHANNELS} \cap DOMAIN conf_map
     THEN [j \in DOMAIN map[tag] |-> FromBits(Bits(conf_map[tag][j]) \cap Bits(map[tag][j]))]
     ELSE map[tag]]

InOrder(map) ==
  LET tags == DOMAIN map
      at(k) == CHOOSE tag \in tags : Cardinality({other \in tags : other < tag}) = k - 1
  IN  [k \in 1..Cardinality(tags) |-> Tlv(at(k), map[at(k)])]

\* phNxpUciHal_read_complete, for the part of phNxpUciHal_parse too.
ReadCaps(status) ==
  LET p    == parse_get_capsInfo(CapsResponse(status, caps))
      read == Walk(p, Extended, 6, 1)
      map  == Insert(input_map, read.tlvs)
      all  == Encode(InOrder(Masked(map)))
  IN  /\ packets < MaxPackets /\ packets' = packets + 1
      /\ in' = [kind |-> "caps", status |-> status]
      /\ IF ~isCountryCodeMapCreated \/ p[5] # UCI_STATUS_OK
         THEN out' = [kind |-> "caps", bytes |-> p] /\ UNCHANGED input_map
         ELSE IF ~read.ok
         THEN out' = [kind |-> "caps", bytes |-> p] /\ input_map' = map
         ELSE /\ out' = [kind  |-> "caps",
                         bytes |-> SubSeq(p, 1, 3) \o <<(Len(all) + 2) % 256, p[5]>>
                                     \o <<Cardinality(DOMAIN map)>> \o all]
              /\ input_map' = NoTags
      /\ UNCHANGED <<p_cmd_data, country, antennas, device>>

-----------------------------------------------------------------------------
(* CORE_SET_CONFIG refused.                                                 *)

ExtendedIds == {0, 1, 2, 3, 4, 5, 38, 39, 40, 48}
LOW_POWER_MODE == 1

Listed(item) == IF item.extended THEN item.id \in ExtendedIds ELSE item.id = LOW_POWER_MODE

\* Mutant: the loop does not stop at a failure.
LastCounts(items) ==
  LET after[k \in 0..Len(items)] ==
        IF k = 0 THEN "as it was"
        ELSE IF ~Listed(items[k]) THEN after[k - 1]
        ELSE IF items[k].status = FEATURE_NOT_SUPPORTED THEN "SUCCESS"
        ELSE "FAILED"
  IN  after[Len(items)]

\* The result after each item; the first failure ends the loop.  Called only
\* when the response as a whole is not UCI_STATUS_OK.
process_ext_rsp(items) ==
  LET after[k \in 0..Len(items)] ==
        IF k = 0 THEN "as it was"
        ELSE IF after[k - 1] = "FAILED" \/ ~Listed(items[k]) THEN after[k - 1]
        ELSE IF items[k].status = FEATURE_NOT_SUPPORTED THEN "SUCCESS"
        ELSE "FAILED"
  IN  after[Len(items)]

ReadSetConfig(items) ==
  /\ packets < MaxPackets /\ packets' = packets + 1
  /\ in' = [kind |-> "set config", items |-> items]
  /\ out' = [kind |-> "set config", result |-> process_ext_rsp(items)]
  /\ UNCHANGED <<p_cmd_data, country, input_map, antennas, device>>

-----------------------------------------------------------------------------
Init ==
  /\ p_cmd_data = <<>>
  /\ restricted = {} /\ isCountryCodeMapCreated = FALSE /\ conf_map = NoTags
  /\ input_map = NoTags
  /\ antennas = NoPair
  /\ device \in Devices
  /\ packets = 0
  /\ in = Nothing /\ out = Nothing

Next ==
  \/ \E config \in AppConfigs : WriteAppConfig(config)
  \/ \E channels \in SUBSET {5, 9} : SetCountry(channels)
  \/ \E block \in AntennaBlocks : parseAntennaConfig(block)
  \/ \E status \in 0..1 : ReadCaps(status)
  \/ \E items \in Refusals : ReadSetConfig(items)

Spec == Init /\ [][Next]_vars

-----------------------------------------------------------------------------
\* What goes to the chip is the command without the parameters the firmware
\* does not know, with the count and the length that belong to it; one whose
\* parameters are cut short goes as it is (handlingVendorSpecificAppConfig).
AppConfigExact ==
  in.kind = "app config" =>
    out.bytes = IF in.cut = 0 THEN SetAppConfig(Without(in.tlvs, tags_to_del), Session) ELSE CutShort(in)

\* A command of one-byte tags that fits the eight-bit length is blocked exactly
\* when it asks for a channel the country denies, whatever commands left in the
\* buffer (phNxpUciHal_parse); with two-byte tags the loop loses its way.
BlockedExactly ==
  in.kind = "app config" /\ in.cut = 0 /\ Len(out.bytes) < 256
    /\ (\A k \in DOMAIN in.tlvs : in.tlvs[k].tag < 256) =>
  (out.kind = "blocked" <=>
     \E k \in DOMAIN in.tlvs : in.tlvs[k].tag = CHANNEL_NUMBER /\ in.tlvs[k].value[1] \in restricted)

\* What the host should read under a tag of the chip.
Promised(t) ==
  CASE t.tag = UWB_CHANNELS /\ isCountryCodeMapCreated ->
         <<FromBits(Bits(t.value[1]) \ ((IF 5 \in restricted THEN {1} ELSE {})
                                 \cup (IF 9 \in restricted THEN {8} ELSE {})))>>
    [] t.tag = CCC_UWB_CHANNELS /\ isCountryCodeMapCreated ->
         <<FromBits(Bits(t.value[1]) \ ({4, 8, 16, 32, 64, 128}
                                 \cup (IF 5 \in restricted THEN {1} ELSE {})
                                 \cup (IF 9 \in restricted THEN {2} ELSE {})))>>
    [] t.tag = CCC_SUPPORTED_PROTOCOL_VERSIONS /\ vendor # <<>> -> <<t.value[2], t.value[1]>>
    [] t.tag = AOA_SUPPORT /\ vendor # <<>> -> <<aoa(t.value[1])>>
    [] OTHER -> t.value

\* When no vendor capabilities are configured, the parameter before that for
\* the angle of arrival is overwritten.
Spared ==
  IF vendor = <<>> THEN {k \in DOMAIN caps : k \notin Overwritten(caps)} ELSE DOMAIN caps

\* The capabilities the host reads are those of the chip without vendor tags
\* and those of the configuration, each with its value, the channels masked by
\* the country, counted and with the right length, whatever countries were set
\* and responses rewritten before.  (The last one must not be empty.)
CapsExact ==
  in.kind = "caps" /\ in.status = UCI_STATUS_OK =>
    LET read == Walk(out.bytes, Extended, 6, 0)
        got  == Insert(NoTags, read.tlvs)
        own  == {k \in DOMAIN caps : vendor = <<>> \/ caps[k].tag < 256}
    IN  /\ read.ok
        /\ out.bytes[4] = Len(out.bytes) - 4 /\ out.bytes[6] = Len(read.tlvs)
        /\ DOMAIN got = {caps[k].tag : k \in own} \cup {vendor[k].tag : k \in DOMAIN vendor}
        /\ \A k \in own \cap Spared : got[caps[k].tag] = Promised(caps[k])
        /\ \A k \in DOMAIN vendor : got[vendor[k].tag] = vendor[k].value

\* A refused configuration counts as done only when every parameter refused, of
\* those the HAL knows, is one the firmware does not support, and there is one.
RefusalCounts ==
  in.kind = "set config" =>
    LET listed == {k \in DOMAIN in.items : Listed(in.items[k])}
    IN  out.result = "SUCCESS" <=>
          listed # {} /\ \A k \in listed : in.items[k].status = FEATURE_NOT_SUPPORTED

\* phNxpUciHal.cc: "If antenna pair more than 1 then [...] value will set to 5".
AoaFollowsAntennas ==
  in.kind = "caps" /\ in.status = UCI_STATUS_OK /\ antennas > 1 =>
    LET read == Walk(out.bytes, Extended, 6, 0)
    IN  \A k \in DOMAIN read.tlvs :
          read.tlvs[k].tag = AOA_SUPPORT => read.tlvs[k].value = <<5>>
=============================================================================
