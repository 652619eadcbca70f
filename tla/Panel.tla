------------------------------- MODULE Panel --------------------------------
(***************************************************************************)
(* What the user holds: the link to the phone, the keys and the LEDs.      *)
(* They share no state here and run one at a time, the others staying as   *)
(* they start.                                                             *)
(***************************************************************************)
EXTENDS BleLink

CONSTANTS
  KEY_1CLICK_COUNT, KEY_1_5SEC_COUNT, KEY_3SEC_COUNT,
  KEY_SHORTERROR_COUNT, UINT16,                            (* of the keys     *)
  MaxSets                                                  (* of the LEDs     *)

VARIABLES
  part,
  g_ulKeyInValue, g_ubKeyOffCount, g_aulKeyBuffer, g_ubKeyBufferIndex,
  g_uwKeyContinousCount, g_uwKeyNotSameCount,
  KEY_1CLICK_FLAG, KEY_3SEC_CLICK_FLAG, KEY_RELEASE_CLICK_FLAG, ERROR_KEYSHORT_FLAG,
  seen, mixed, held, clean, erased,
  led, pc, reg, sets, asked_pattern, again, flashes, raced

keys == <<g_ulKeyInValue, g_ubKeyOffCount, g_aulKeyBuffer, g_ubKeyBufferIndex,
          g_uwKeyContinousCount, g_uwKeyNotSameCount,
          KEY_1CLICK_FLAG, KEY_3SEC_CLICK_FLAG, KEY_RELEASE_CLICK_FLAG, ERROR_KEYSHORT_FLAG,
          seen, mixed, held, clean, erased>>
leds == <<led, pc, reg, sets, asked_pattern, again, flashes, raced>>

Switches == INSTANCE KeyControl
Lamps == INSTANCE LedControl WITH asked <- asked_pattern

ASSUME PartsAssumption == Switches!KeyAssumption

PartInit ==
  /\ part \in {"link", "keys", "leds"}
  /\ Init /\ Switches!Init /\ Lamps!Init

PartNext ==
  /\ UNCHANGED part
  /\ \/ part = "link" /\ Next /\ UNCHANGED <<keys, leds>>
     \/ part = "keys" /\ Switches!Next /\ UNCHANGED <<vars, leds>>
     \/ part = "leds" /\ Lamps!Next /\ UNCHANGED <<vars, keys>>

(* A part that stays as it starts has nothing to do, so that its fairness  *)
(* asks for nothing.                                                       *)
PartSpec ==
  /\ PartInit /\ [][PartNext]_<<part, vars, keys, leds>>
  /\ Fairness /\ Lamps!Fairness

(* Everything is erased when key 1 alone is held for three seconds, and    *)
(* only then, and once.                                                    *)
HoldErasesOnce == Switches!HoldErasesOnce /\ []Switches!TypeOK

(* A pattern that ends has been shown, and no LED is left lit when none is *)
(* being played.                                                           *)
PatternPlaysOut == Lamps!PatternPlaysOut /\ []Lamps!TypeOK

(* Nothing comes to a standstill half way: a phone can connect again, a    *)
(* negotiation ends, and the LEDs go dark when no more patterns are set.   *)
PanelGoesOn == LinkGoesOn /\ Lamps!GoesDark
=============================================================================
