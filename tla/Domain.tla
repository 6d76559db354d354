------------------------------- MODULE Domain -------------------------------
(***************************************************************************)
(* The identifiers every component shares (coinext-model/src/identifiers): *)
(* client order ids, instruments, and the absent value of an Option.       *)
(***************************************************************************)
EXTENDS Integers

CONSTANTS
  Coids,         \* ClientOrderIds
  Instruments,   \* InstrumentIds
  None           \* the absent value of an Option

ASSUME NoneAssumption == None \notin Int

Sides == {"Buy", "Sell"}
=============================================================================
