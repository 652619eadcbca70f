----------------------------- MODULE KeyControl -----------------------------
(***************************************************************************)
(* The two keys: the scan that an event of the 10 ms timer runs every 20 ms *)
(* (Mid_KeyHandler), and what App_ControlHandle makes of its flags: key 1  *)
(* held for three seconds erases everything.  Both run in the main loop;   *)
(* when the loop was busy, several scans run in one pass before the flags  *)
(* are looked at, and all of them see the keys as they are now.            *)
(*                                                                         *)
(* Of the flags, those are kept that something reads.                      *)
(***************************************************************************)
EXTENDS Integers

CONSTANTS
  KEY_1CLICK_COUNT, KEY_1_5SEC_COUNT, KEY_3SEC_COUNT,   (* scans: 3, 75, 150   *)
  KEY_SHORTERROR_COUNT,     (* scans of another key than the first: 1500       *)
  UINT16                    (* the counters wrap around at 65536               *)

(* What is assumed of the constants. *)
KeyAssumption ==
  /\ {KEY_1CLICK_COUNT, KEY_1_5SEC_COUNT, KEY_3SEC_COUNT, KEY_SHORTERROR_COUNT, UINT16}
       \subseteq Nat \ {0}
  /\ KEY_1CLICK_COUNT < KEY_1_5SEC_COUNT /\ KEY_1_5SEC_COUNT < KEY_3SEC_COUNT
  /\ KEY_3SEC_COUNT < KEY_SHORTERROR_COUNT /\ KEY_SHORTERROR_COUNT < UINT16

KEY_OFF_DEBOUCE == 1
KEY_ON_DEBOUNCE == 2
KEY_SWITCH_1 == 1
Keys == 0 .. 3                (* one bit for each key that is pressed *)

VARIABLES
  g_ulKeyInValue, g_ubKeyOffCount,
  g_aulKeyBuffer, g_ubKeyBufferIndex,      (* the debouncer                   *)
  g_uwKeyContinousCount, g_uwKeyNotSameCount,
  KEY_1CLICK_FLAG, KEY_3SEC_CLICK_FLAG, KEY_RELEASE_CLICK_FLAG, ERROR_KEYSHORT_FLAG,
  (* History, read by no action of the program: *)
  seen,            (* the keys the scans of this pass have seen              *)
  mixed,           (* a pass since all keys were up has seen different keys  *)
  held,            (* scans that saw key 1 alone, one after the other        *)
  clean,           (* ... and before them no key                             *)
  erased           (* times they have erased everything                      *)

debouncer == <<g_ubKeyOffCount, g_aulKeyBuffer, g_ubKeyBufferIndex,
               g_uwKeyContinousCount, g_uwKeyNotSameCount>>
keyFlags  == <<KEY_1CLICK_FLAG, KEY_3SEC_CLICK_FLAG, KEY_RELEASE_CLICK_FLAG,
               ERROR_KEYSHORT_FLAG>>
history   == <<seen, mixed, held, clean, erased>>
vars      == <<g_ulKeyInValue, debouncer, keyFlags, history>>

Init ==
  /\ g_ulKeyInValue = 0 /\ g_ubKeyOffCount = 0
  /\ g_aulKeyBuffer = [i \in 0 .. 2 |-> 0] /\ g_ubKeyBufferIndex = 0
  /\ g_uwKeyContinousCount = 0 /\ g_uwKeyNotSameCount = 0
  /\ KEY_1CLICK_FLAG = FALSE /\ KEY_3SEC_CLICK_FLAG = FALSE
  /\ KEY_RELEASE_CLICK_FLAG = FALSE /\ ERROR_KEYSHORT_FLAG = FALSE
  /\ seen = {} /\ mixed = FALSE /\ held = 0 /\ clean = TRUE /\ erased = 0

-----------------------------------------------------------------------------
(* Mid_KeyHandler, by what the scan sees and how far the debouncer is. *)

(* A key that is let go within 1.5 s is reported once more, as a click     *)
(* that has ended, and the debouncer takes the report for a first scan.    *)
Clicked == g_uwKeyContinousCount \in 1 .. KEY_1_5SEC_COUNT - 1 /\ ~KEY_RELEASE_CLICK_FLAG

NoKey ==
  LET key == IF Clicked THEN g_aulKeyBuffer[0] ELSE 0
  IN /\ g_ulKeyInValue' = key
     /\ KEY_RELEASE_CLICK_FLAG' = (KEY_RELEASE_CLICK_FLAG \/ Clicked)
     /\ g_ubKeyBufferIndex' = IF key # 0 THEN 1 ELSE 0
     /\ g_ubKeyOffCount' = KEY_OFF_DEBOUCE /\ g_uwKeyContinousCount' = 0
     /\ UNCHANGED <<g_aulKeyBuffer, g_uwKeyNotSameCount, KEY_1CLICK_FLAG,
                    KEY_3SEC_CLICK_FLAG, ERROR_KEYSHORT_FLAG>>

(* The key has to be the same in two scans. *)
Debounce(key) ==
  /\ g_ubKeyBufferIndex < KEY_ON_DEBOUNCE
  /\ g_ulKeyInValue' = key
  /\ IF g_ubKeyBufferIndex = 0 \/ g_aulKeyBuffer[g_ubKeyBufferIndex - 1] = key
     THEN /\ g_aulKeyBuffer' = [g_aulKeyBuffer EXCEPT ![g_ubKeyBufferIndex] = key]
          /\ g_ubKeyBufferIndex' = g_ubKeyBufferIndex + 1
     ELSE /\ g_aulKeyBuffer' = [i \in 0 .. 2 |-> IF i = 0 THEN key ELSE 0]
          /\ g_ubKeyBufferIndex' = 0
  /\ UNCHANGED <<g_ubKeyOffCount, g_uwKeyContinousCount, g_uwKeyNotSameCount, keyFlags>>

(* Then its scans are counted, and those of another key in between.        *)
CountOf_AnyKey(key) == (g_uwKeyContinousCount + 1) % UINT16
CountOf(key) ==
  IF g_aulKeyBuffer[g_ubKeyBufferIndex - 1] = key
  THEN (g_uwKeyContinousCount + 1) % UINT16 ELSE 0

Reaches(count, at) == count = at /\ g_ubKeyOffCount = 0

Count(key) ==
  LET same == g_aulKeyBuffer[g_ubKeyBufferIndex - 1] = key
      count == CountOf(key)
      notSame == IF same THEN 0 ELSE (g_uwKeyNotSameCount + 1) % UINT16
      click == /\ count = KEY_1CLICK_COUNT /\ g_ubKeyOffCount = KEY_OFF_DEBOUCE
               /\ ~KEY_1CLICK_FLAG
      offCount == IF click THEN 0 ELSE g_ubKeyOffCount
      short == notSame = KEY_SHORTERROR_COUNT /\ offCount = 0 /\ ~ERROR_KEYSHORT_FLAG
  IN /\ g_ubKeyBufferIndex >= KEY_ON_DEBOUNCE
     /\ g_ulKeyInValue' = key
     /\ g_uwKeyContinousCount' = count /\ g_uwKeyNotSameCount' = notSame
     /\ KEY_1CLICK_FLAG' = (KEY_1CLICK_FLAG \/ click) /\ g_ubKeyOffCount' = offCount
     /\ KEY_3SEC_CLICK_FLAG' = (KEY_3SEC_CLICK_FLAG \/ Reaches(count, KEY_3SEC_COUNT))
     /\ ERROR_KEYSHORT_FLAG' =
          (ERROR_KEYSHORT_FLAG \/ short \/ Reaches(count, KEY_SHORTERROR_COUNT))
     /\ g_ubKeyBufferIndex' = IF short THEN 0 ELSE g_ubKeyBufferIndex
     /\ UNCHANGED <<g_aulKeyBuffer, KEY_RELEASE_CLICK_FLAG>>

AtMost(n, max) == IF n > max THEN max ELSE n

(* held is counted to where the counter has wrapped around.                *)
Observe(key) ==
  /\ seen' = seen \union {key}
  /\ mixed' = (seen' # {key} \/ (mixed /\ key # 0))
  /\ held' = IF key = KEY_SWITCH_1 THEN AtMost(held + 1, UINT16) ELSE 0
  /\ clean' = IF key = KEY_SWITCH_1 THEN clean ELSE key = 0
  /\ erased' = IF key = KEY_SWITCH_1 THEN erased ELSE 0

Mid_KeyHandler(key) ==
  /\ IF key = 0 THEN NoKey ELSE Debounce(key) \/ Count(key)
  /\ Observe(key)

-----------------------------------------------------------------------------
(* App_ControlHandle: everything is erased, and the flags are cleared.     *)
Erases == KEY_3SEC_CLICK_FLAG /\ g_ulKeyInValue = KEY_SWITCH_1

App_ControlHandle ==
  /\ erased' = IF Erases THEN AtMost(erased + 1, 2) ELSE erased
  /\ KEY_1CLICK_FLAG' = FALSE /\ KEY_3SEC_CLICK_FLAG' = FALSE /\ KEY_RELEASE_CLICK_FLAG' = FALSE
  /\ seen' = {}
  /\ UNCHANGED <<g_ulKeyInValue, debouncer, ERROR_KEYSHORT_FLAG, mixed, held, clean>>

Next == App_ControlHandle \/ \E key \in Keys : Mid_KeyHandler(key)

Spec == Init /\ [][Next]_vars

-----------------------------------------------------------------------------
TypeOK ==
  /\ g_ulKeyInValue \in Keys /\ g_ubKeyOffCount \in 0 .. KEY_OFF_DEBOUCE
  /\ g_aulKeyBuffer \in [0 .. 2 -> Keys] /\ g_ubKeyBufferIndex \in 0 .. KEY_ON_DEBOUNCE
  /\ g_uwKeyContinousCount \in 0 .. UINT16 - 1 /\ g_uwKeyNotSameCount \in 0 .. UINT16 - 1
  /\ keyFlags \in BOOLEAN \X BOOLEAN \X BOOLEAN \X BOOLEAN
  /\ seen \subseteq Keys /\ mixed \in BOOLEAN /\ held \in 0 .. UINT16
  /\ clean \in BOOLEAN /\ erased \in 0 .. 2

(* Everything is erased only when key 1 alone has been seen by the scans   *)
(* of three seconds, one after the other; or the scans of one pass saw     *)
(* different keys, and the flag that one raised met the key of another.    *)
EraseNeedsHold ==
  [][erased' > erased => held >= KEY_3SEC_COUNT \/ mixed]_vars

(* One hold erases once, as long as its counter does not wrap around.      *)
OneErasePerHold == erased > 1 => held = UINT16 \/ mixed

(* And it does erase: with the flags handled, a hold of key 1 that began   *)
(* with no key down has erased once it is three scans past three seconds,  *)
(* whatever was pressed before, with the debouncer at any step.            *)
HoldErases ==
  seen = {} /\ clean /\ held >= KEY_3SEC_COUNT + KEY_ON_DEBOUNCE + 1 => erased > 0 \/ mixed

HoldErasesOnce == EraseNeedsHold /\ [](OneErasePerHold /\ HoldErases)
=============================================================================
