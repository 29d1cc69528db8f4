---------------------------- MODULE CallLifecycle ----------------------------
(***************************************************************************)
(* What the service promises about a call, with nothing about webhooks,    *)
(* documents, counters or stores: a caller passes the code gate, then      *)
(* chooses a language, and only then reaches the action menu and its two   *)
(* leaves; the language chosen is the one spoken until it is given up; a   *)
(* call that has ended stays ended.  The one exception is Forget: state    *)
(* lives in one process, and a restart takes every call back to the gate   *)
(* (docs/CALL_FLOW.md's diagram, docs/DECISIONS.md 4, README "Features").  *)
(***************************************************************************)
CONSTANTS Calls, Languages, NoLanguage

VARIABLES
  place,      \* where each caller is
  language,   \* the language each caller hears in the action menu and beyond
  known       \* the calls there is a record of

vars == <<place, language, known>>

Place == {"gate", "language", "action", "leaf", "ended"}

Move(c, from, to) ==
  /\ place[c] = from
  /\ place' = [place EXCEPT ![c] = to]

Init ==
  /\ place = [c \in Calls |-> "gate"]
  /\ language = [c \in Calls |-> NoLanguage]
  /\ known = {}

PassGate(c) == Move(c, "gate", "language") /\ UNCHANGED language

ChooseLanguage(c) ==
  /\ Move(c, "language", "action")
  /\ \E l \in Languages : language' = [language EXCEPT ![c] = l]

ChangeLanguage(c) ==
  /\ Move(c, "action", "language")
  /\ language' = [language EXCEPT ![c] = NoLanguage]

EnterLeaf(c) == Move(c, "action", "leaf") /\ UNCHANGED language

LeaveLeaf(c) == Move(c, "leaf", "action") /\ UNCHANGED language

End(c) ==
  /\ place' = [place EXCEPT ![c] = "ended"]
  /\ language' = [language EXCEPT ![c] = NoLanguage]

Stay(c) == UNCHANGED <<place, language>>

\* One turn of call c, which is on record from then on.
Turn(c) ==
  /\ \/ PassGate(c) \/ ChooseLanguage(c) \/ ChangeLanguage(c)
     \/ EnterLeaf(c) \/ LeaveLeaf(c) \/ End(c) \/ Stay(c)
  /\ known' = known \cup {c}

\* All is forgotten at once: nothing sends a single call back to the gate.
Forget ==
  /\ place' = [c \in Calls |-> "gate"]
  /\ language' = [c \in Calls |-> NoLanguage]
  /\ known' = {}

Next == (\E c \in Calls : Turn(c)) \/ Forget

Spec == Init /\ [][Next]_vars
=============================================================================
