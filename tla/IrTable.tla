------------------------------- MODULE IrTable -------------------------------
(***************************************************************************)
(* t_IRDataCommom, the table of learned codes, and the functions of        *)
(* Mid_Decode.c and Op_SupportFunction.c that look it up and change it.    *)
(* A table maps the index of an entry to its status, ID and IR data.       *)
(***************************************************************************)
EXTENDS Integers, FiniteSetsExt

CONSTANTS
  MaxCode,   (* MAX_IR_CODE: 10 in the firmware                            *)
  IDs,       (* the IDs users give to codes: values of uwID                *)
  Codes      (* decoded IR signals                                         *)

ASSUME TableAssumption ==
  /\ MaxCode \in Nat \ {0}
  /\ IDs \subseteq 0 .. 65535      (* uint16_t                              *)

CLEAR == 0
NoCode == "no code"
Blank == [status |-> "DISABLE", id |-> CLEAR, code |-> NoCode]

(* IR data of which only a part has reached the flash.                     *)
Torn == "torn"

(* What erased flash reads as: all bits set, which is not IR_CODE_ENABLE.  *)
Erased == [status |-> "ERASED", id |-> 65535, code |-> NoCode]

Index == 0 .. MaxCode - 1
Entry ==
  [status : {"ENABLE", "DISABLE", "ERASED"}, id : IDs \union {CLEAR, 65535},
   code : Codes \union {NoCode, Torn}]
Table == [Index -> Entry]

Enabled(table, i) == table[i].status = "ENABLE"
Free(table) == {i \in Index : ~Enabled(table, i)}
Holding(table, id) == {i \in Index : Enabled(table, i) /\ table[i].id = id}

(* Mid_InsertNewIRCode takes the first entry that is not enabled, if any,  *)
(* without looking whether the ID is taken already.                        *)
CanInsert(table) == Free(table) # {}
Inserted(table, id, code) ==
  [table EXCEPT ![Min(Free(table))] = [status |-> "ENABLE", id |-> id, code |-> code]]

(* An entry that is removed keeps its IR data.                             *)
Disabled(entry) == [status |-> "DISABLE", id |-> CLEAR, code |-> entry.code]

(* Mid_RemoveIRCode disables every entry that holds the ID.                *)
Removed(table, id) ==
  [i \in Index |-> IF i \in Holding(table, id) THEN Disabled(table[i]) ELSE table[i]]

(* Mid_EraseAllIRCode *)
AllErased(table) == [i \in Index |-> Disabled(table[i])]

(* LinearSerachID: the first enabled entry with the ID, or -1.             *)
LinearSerachID(table, id) ==
  IF Holding(table, id) = {} THEN -1 ELSE Min(Holding(table, id))
=============================================================================
