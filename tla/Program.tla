------------------------------ MODULE Program ------------------------------
(***************************************************************************)
(* From Kernel::config to the end of the loop: engine.ini is read by a     *)
(* parser that is gone when config returns, and the rate it gives is that  *)
(* of the timer in InputLoop.                                              *)
(***************************************************************************)
EXTENDS IniParser, InputLoop

CONSTANTS Dimensions, LogicUpdateRate   \* the section and property of the rate
CONSTANTS Zero, Number                  \* words that are numbers, and that are 0

ASSUME EngineIniAssumption ==
  /\ Dimensions \in Name /\ LogicUpdateRate \in Property
  /\ Zero \in Number /\ None \notin Number

(* a missing engine.ini *)
ASSUME MissingAssumption == << >> \in Texts

fileVars == vars   \* of IniParser
programVars == <<fileVars, inputVars>>

ProgramInit ==
  /\ Init /\ Idle
  /\ phase = "config" /\ rate = TRUE /\ timer = "none"   \* not set yet

Parse == Next /\ UNCHANGED inputVars

(* getInt, whose result is not initialised when the word is no number; the *)
(* default is 33                                                           *)
UpdateRate(word) ==
  IF word \in Number \cup {None} THEN rate' = (word # Zero) ELSE rate' \in BOOLEAN

(* the end of config; main sets the timer and the loop begins *)
Run ==
  /\ reading = "done" /\ phase = "config"
  /\ UpdateRate(GetString(Dimensions, LogicUpdateRate, None))
  /\ phase' = "messages" /\ timer' = "set"
  /\ text' = << >> /\ at' = 1 /\ inTail' = FALSE /\ sections' = << >>
  /\ UNCHANGED <<reading, later, steering, keyVars, mouseVars>>

InLoop == phase # "config" /\ InputNext /\ UNCHANGED fileVars

ProgramNext == Parse \/ Run \/ InLoop

(* config is a call that runs to its end; InputLoop says why its parts go on *)
ProgramSpec ==
  /\ ProgramInit /\ [][ProgramNext]_programVars
  /\ WF_programVars(Parse \/ Run)
  /\ WF_programVars(phase # "config" /\ Turn /\ UNCHANGED fileVars)
  /\ WF_programVars(phase # "config" /\ Tick /\ UNCHANGED fileVars)

(* engine.ini with plain headers that gives the rate as a number: the      *)
(* timer runs at it, whatever else the file says.                          *)
RateAsGiven ==
  [][Run /\ Plain /\ Meant(Dimensions, LogicUpdateRate) \in Number
       => rate' = (Meant(Dimensions, LogicUpdateRate) # Zero)]_programVars

(* Every file comes to be read and its program to its loop. *)
LoopBegins == <>(phase # "config")
=============================================================================
