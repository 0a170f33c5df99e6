---------------------------- MODULE MCUciPackets -----------------------------
(* A few parameters of each kind.                                          *)
EXTENDS UciPackets

Params == {Tlv(CHANNEL_NUMBER, <<9>>), Tlv(2, <<4, 9>>), Tlv(227, <<1>>),
           Tlv(57345, <<4, 1, 9>>)}
Big == Tlv(41, [k \in 1..240 |-> 9])

Config(tlvs) == [tlvs |-> tlvs, cut |-> 0]
MCAppConfigs ==
  {Config(tlvs) : tlvs \in UNION {[1..n -> Params] : n \in 0..2}}
    \cup {Config(<<Tlv(227, <<1>>), Tlv(2, <<>>), Tlv(CHANNEL_NUMBER, <<9>>)>>),
          Config(<<Tlv(28, <<>>), Tlv(CHANNEL_NUMBER, <<5>>), Tlv(229, <<4, 9>>)>>),
          Config(<<Big, Tlv(CHANNEL_NUMBER, <<9>>)>>),
          Config(<<Big, Tlv(2, <<4, 9>>), Tlv(2, <<4, 9>>), Tlv(CHANNEL_NUMBER, <<9>>)>>)}
    \cup {[tlvs |-> <<Tlv(227, <<1>>), t>>, cut |-> 1] : t \in Params}

MCDevices ==
  {[caps   |-> <<Tlv(1, <<3>>), Tlv(AOA_SUPPORT, <<15>>), Tlv(CCC_UWB_CHANNELS, <<3>>),
                 Tlv(UWB_CHANNELS, <<11>>)>>,
    vendor |-> <<>>],
   [caps   |-> <<Tlv(UWB_CHANNELS, <<9>>), Tlv(57345, <<7>>), Tlv(AOA_SUPPORT, <<15>>),
                 Tlv(58113, <<1, 2>>), Tlv(CCC_SUPPORTED_PROTOCOL_VERSIONS, <<0, 1>>)>>,
    vendor |-> <<Tlv(167, <<1, 0>>), Tlv(227, <<1>>)>>],
   [caps   |-> <<Tlv(CCC_UWB_CHANNELS, <<7>>), Tlv(57346, <<>>), Tlv(2, <<1>>)>>,
    vendor |-> <<>>]}

MCAntennaBlocks == {<<Tlv(58370, <<0>>)>>,
                    <<Tlv(58370, <<0>>), Tlv(ANTENNA_RX_PAIR_DEFINE, <<1, 2>>)>>,
                    <<Tlv(ANTENNA_RX_PAIR_DEFINE, <<2, 1, 2>>), Tlv(ANTENNA_RX_PAIR_DEFINE, <<1>>)>>}

Items == [extended : {TRUE}, id : {1, 7}, status : {1, FEATURE_NOT_SUPPORTED}]
  \cup {[extended |-> FALSE, id |-> 1, status |-> FEATURE_NOT_SUPPORTED]}
MCRefusals == UNION {[1..n -> Items] : n \in 0..2}
=============================================================================
