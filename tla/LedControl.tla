----------------------------- MODULE LedControl -----------------------------
(***************************************************************************)
(* The LEDs: a pattern is set (Mid_LedControlSet) by the BLE events, which *)
(* are interrupts, and by the main loop when it has sent a code, and is    *)
(* played by the 100 ms interrupt (Mid_LedControlHandle).  The flags the   *)
(* three share are bits of one byte, LedFlag1, that is not volatile: the   *)
(* main loop may write back what it read when it tested it.                *)
(***************************************************************************)
EXTENDS Integers

CONSTANT MaxSets        (* bound: patterns set in a behaviour *)

(* g_aubLedData, of the types the program sets; a pattern that repeats     *)
(* without end (0xFF) or alternates its LEDs is never set.                 *)
LED_TYPE_OFF == 0
LED_TYPE_SEND_IR == 4
g_aubLedData ==
  [t \in 0 .. 4 |->
     CASE t = 0 -> [colour |-> {},        on |-> 0, off |-> 0, repeats |-> 0, delay |-> 0]
       [] t = 1 -> [colour |-> {"red"},   on |-> 2, off |-> 2, repeats |-> 3, delay |-> 0]
       [] t = 2 -> [colour |-> {"red"},   on |-> 5, off |-> 2, repeats |-> 3, delay |-> 0]
       [] t = 3 -> [colour |-> {"blue"},  on |-> 2, off |-> 2, repeats |-> 4, delay |-> 0]
       [] t = 4 -> [colour |-> {"green"}, on |-> 2, off |-> 2, repeats |-> 5, delay |-> 0]]
BleTypes == {1, 2, 3}
MaxFlashes == 6         (* bound: of the history variable flashes *)

VARIABLES
  led,          (* type, state, time, times, flags that are C_ON, LEDs lit    *)
  pc, reg,      (* the main loop in Mid_LedControlSet, and its LedFlag1       *)
  (* History, read by no action of the program: *)
  sets,         (* patterns set                                               *)
  asked,        (* type of the last one                                       *)
  again,        (* ... while another was being played                         *)
  flashes,      (* flashes since, up to MaxFlashes                            *)
  raced         (* interrupts that have cut across the main loop's setting    *)

history == <<sets, asked, again, flashes, raced>>
vars == <<led, pc, reg, history>>

Data == g_aubLedData[led.type]

Init ==
  /\ led = [type |-> LED_TYPE_OFF, state |-> "NONE", time |-> 0, times |-> 0,
            flags |-> {}, lit |-> {}]
  /\ pc = "idle" /\ reg = {}
  /\ sets = 0 /\ asked = LED_TYPE_OFF /\ again = FALSE /\ flashes = 0 /\ raced = {}

-----------------------------------------------------------------------------
(* Mid_LedControlSet(LED_TYPE_OFF) *)
SetOff(s) ==
  [s EXCEPT !.type = LED_TYPE_OFF, !.time = 0, !.times = 0, !.flags = {}, !.lit = {}]

(* The three parts of Mid_LedControlHandle: each sees what those before it *)
(* have done in the same tick.                                             *)
OnPart(s) ==
  IF s.state # "ON" THEN s
  ELSE LET data == g_aubLedData[s.type]
           over == s.time + 1 >= data.on
       IN [s EXCEPT !.lit   = IF "START_ON" \in s.flags THEN @ \union data.colour ELSE @,
                    !.time  = IF over THEN 0 ELSE @ + 1,
                    !.state = IF over THEN "OFF" ELSE @,
                    !.flags = (@ \ {"START_ON"}) \union (IF over THEN {"START_OFF"} ELSE {})]

OffPart(s) ==
  IF s.state # "OFF" THEN s
  ELSE LET data == g_aubLedData[s.type]
           over == s.time + 1 >= data.off
       IN [s EXCEPT !.lit   = IF "START_OFF" \in s.flags THEN @ \ data.colour ELSE @,
                    !.time  = IF over THEN 0 ELSE @ + 1,
                    !.state = IF over THEN "DELAY" ELSE @,
                    !.flags = @ \ {"START_OFF"}]

LastTime_OneMore(s) == s.times >= g_aubLedData[s.type].repeats
LastTime(s) == s.times + 1 >= g_aubLedData[s.type].repeats

DelayPart(s) ==
  IF s.state # "DELAY" THEN s
  ELSE IF s.time + 1 < g_aubLedData[s.type].delay THEN [s EXCEPT !.time = @ + 1]
  ELSE IF LastTime(s) THEN SetOff(s)
  ELSE [s EXCEPT !.time = 0, !.times = @ + 1, !.state = "ON", !.flags = @ \union {"START_ON"}]

(* The ticks are 100 ms apart: at most one cuts across the main loop's     *)
(* setting, which takes some microseconds and the time of the interrupts.  *)
Cuts(interrupt) == raced' = IF pc = "idle" THEN raced ELSE raced \union {interrupt}

Mid_LedControlHandle ==
  /\ "CONTROL" \in led.flags
  /\ pc = "idle" \/ "tick" \notin raced
  /\ led' = DelayPart(OffPart(OnPart(led)))
  /\ flashes' = IF led.state = "ON" /\ "START_ON" \in led.flags /\ flashes < MaxFlashes
                THEN flashes + 1 ELSE flashes
  /\ Cuts("tick")
  /\ UNCHANGED <<pc, reg, sets, asked, again>>

-----------------------------------------------------------------------------
Ask(type) ==
  /\ sets < MaxSets /\ sets' = sets + 1
  /\ asked' = type /\ again' = ("CONTROL" \in led.flags) /\ flashes' = 0

(* A BLE event sets a pattern. *)
Mid_LedControlSet(type) ==
  /\ Ask(type)
  /\ led' = IF "CONTROL" \in led.flags
            THEN [led EXCEPT !.type = type, !.state = "ON", !.time = 0, !.times = 0,
                             !.flags = @ \ {"START_OFF", "START_ON"}]
            ELSE [led EXCEPT !.type = type, !.state = "ON",
                             !.flags = @ \union {"CONTROL", "START_ON"}]
  /\ raced' = IF pc = "idle" THEN {} ELSE raced \union {"event"}
  /\ UNCHANGED <<pc, reg>>

(* The main loop does, one store at a time. *)
SetSendIR ==
  /\ pc = "idle" /\ pc' = "state"
  /\ Ask(LED_TYPE_SEND_IR) /\ raced' = {}
  /\ led' = [led EXCEPT !.type = LED_TYPE_SEND_IR]
  /\ UNCHANGED reg

StoreState ==
  /\ pc = "state" /\ pc' = "test"
  /\ led' = [led EXCEPT !.state = "ON"]
  /\ UNCHANGED <<reg, history>>

TestControl ==
  /\ pc = "test"
  /\ pc' = IF "CONTROL" \in led.flags THEN "clear" ELSE "control on"
  /\ reg' = led.flags
  /\ UNCHANGED <<led, history>>

ClearCounts ==
  /\ pc = "clear" /\ pc' = "off off"
  /\ led' = [led EXCEPT !.time = 0, !.times = 0]
  /\ UNCHANGED <<reg, history>>

(* A flag is changed in the byte as it was read last, or read again.       *)
StoreFlag(at, next, with, without) ==
  /\ pc = at /\ pc' = next
  /\ \E byte \in {reg, led.flags} :
       LET stored == (byte \union with) \ without
       IN /\ led' = [led EXCEPT !.flags = stored]
          /\ reg' = IF next = "idle" THEN {} ELSE stored
  /\ UNCHANGED history

StoreFlags ==
  \/ StoreFlag("control on", "on on", {"CONTROL"}, {})
  \/ StoreFlag("on on", "idle", {"START_ON"}, {})
  \/ StoreFlag("off off", "on off", {}, {"START_OFF"})
  \/ StoreFlag("on off", "idle", {}, {"START_ON"})

MainLoop == StoreState \/ TestControl \/ ClearCounts \/ StoreFlags

Next ==
  \/ Mid_LedControlHandle \/ (\E type \in BleTypes : Mid_LedControlSet(type))
  \/ SetSendIR \/ MainLoop

(* The timer goes on, and the main loop finishes what it has begun.        *)
Fairness == WF_vars(Mid_LedControlHandle) /\ WF_vars(MainLoop)

Spec == Init /\ [][Next]_vars /\ Fairness

-----------------------------------------------------------------------------
TypeOK ==
  /\ led \in [type : 0 .. 4, state : {"NONE", "ON", "OFF", "DELAY"}, time : 0 .. 4,
              times : 0 .. 4, flags : SUBSET {"CONTROL", "START_ON", "START_OFF"},
              lit : SUBSET {"red", "green", "blue"}]
  /\ pc \in {"idle", "state", "test", "clear", "control on", "on on", "off off", "on off"}
  /\ reg \subseteq {"CONTROL", "START_ON", "START_OFF"}
  /\ sets \in Nat /\ asked \in 0 .. 4
  /\ again \in BOOLEAN /\ flashes \in 0 .. MaxFlashes /\ raced \subseteq {"tick", "event"}

(* When no pattern is being played every LED is dark, although a pattern   *)
(* that replaces another puts out its own LEDs only, and whatever the main *)
(* loop writes back.                                                       *)
DarkWhenDone == "CONTROL" \notin led.flags => led.lit = {}

(* A pattern has been shown when it ends: all its flashes, or all but the  *)
(* first if it replaced another, which may be in the middle of anything.   *)
(* Only an interrupt in the middle of the main loop's setting spoils it.   *)
PatternIsShown ==
  [][pc = "idle" /\ "CONTROL" \in led.flags /\ "CONTROL" \notin led'.flags =>
       flashes' = g_aubLedData[asked].repeats - (IF again THEN 1 ELSE 0) \/ raced # {}]_vars

(* When no more patterns are set, the LEDs go dark for good.               *)
GoesDark == <>[](led.lit = {} /\ "CONTROL" \notin led.flags)

PatternPlaysOut == PatternIsShown /\ []DarkWhenDone
=============================================================================
