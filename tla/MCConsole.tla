------------------------------ MODULE MCConsole ------------------------------
(* Instances of Console for TLC: the inputs its webhooks carry.                *)
EXTENDS Console

\* The clip: in with the code, a language and a key, and out when it has ended.
ClipInputs == {DigitsInput(OtpCode), DigitsInput("1"), ActionDone}

\* The gate and the language menu, with a key that is accepted only at the second.
GateInputs == {DigitsInput(OtpCode), DigitsInput("1")}
==============================================================================
