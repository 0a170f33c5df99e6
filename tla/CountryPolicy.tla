---------------------------- MODULE CountryPolicy ----------------------------
(***************************************************************************)
(* What setting a country promises: when the HAL has answered, its         *)
(* settings and its answer are those that the device's files give for the  *)
(* last country, whatever was set before.  The codes of a region count as  *)
(* one country: the first that is set governs until another region is set. *)
(* A HAL that has just been opened, or is closed, has UWB off.             *)
(***************************************************************************)
EXTENDS Integers

CONSTANTS
  Devices,        \* each with files of its own
  Codes,          \* country codes
  PolicyOf(_, _), \* what a device's files say of a country: [enabled, restricted]
  RegionOf(_, _)  \* the region that a device puts a country in

VARIABLES
  device,
  country,   \* the last country set, or NoCountry
  governing, \* the country whose settings are used
  working,   \* between the command and its answer
  settings,  \* [enabled, restricted], or Unsettled while working
  answer     \* the last answer: TRUE when UWB may be used

NoCountry == "none"
Unsettled == [enabled |-> FALSE, restricted |-> {-1}]
Off == [enabled |-> FALSE, restricted |-> {}]

Init ==
  /\ device \in Devices
  /\ country = NoCountry /\ governing = NoCountry
  /\ working = FALSE
  /\ settings = Off
  /\ answer = FALSE

RegionInForce(c) == country # NoCountry /\ RegionOf(device, c) = RegionOf(device, governing)

SetCountry(c) ==
  /\ ~working
  /\ country' = c
  /\ governing' = IF RegionInForce(c) THEN governing ELSE c
  /\ working' = TRUE
  /\ settings' = Unsettled
  /\ UNCHANGED <<device, answer>>

Answer ==
  /\ working
  /\ working' = FALSE
  /\ settings' = PolicyOf(device, governing)
  /\ answer' = settings'.enabled
  /\ UNCHANGED <<device, country, governing>>

\* Opening and closing.
Forget ==
  /\ ~working
  /\ country' = NoCountry
  /\ settings' = Off
  /\ UNCHANGED <<device, governing, working, answer>>

Next == Answer \/ Forget \/ \E c \in Codes : SetCountry(c)

Spec == Init /\ [][Next]_<<device, country, governing, working, settings, answer>>
=============================================================================
