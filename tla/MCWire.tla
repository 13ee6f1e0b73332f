-------------------------------- MODULE MCWire --------------------------------
(***************************************************************************)
(* What happens on a connection, one part to a behaviour: `work' says      *)
(* which of Telnet, Input and Output moves.  The parts share no variable.  *)
(***************************************************************************)
EXTENDS Telnet, Input, Output

VARIABLE work

vars == <<telnetVars, inputVars, outputVars, work>>

Part == {"telnet", "input", "output"}

\* Clients that may let the server do EOR and SGA and may do SGA and something the
\* server does not know: the other options behave like one of these.
Init ==
  /\ work \in Part
  /\ TelnetInit /\ InputInit /\ OutputInit
  /\ accepts \subseteq {"EOR", "SGA"} /\ offers \subseteq {"SGA", Other}
  /\ work # "telnet" => accepts = {} /\ offers = {}

Next ==
  \/ work = "telnet" /\ TelnetNext /\ UNCHANGED <<inputVars, outputVars, work>>
  \/ work = "input" /\ InputNext /\ UNCHANGED <<telnetVars, outputVars, work>>
  \/ work = "output" /\ OutputNext /\ UNCHANGED <<telnetVars, inputVars, work>>

Fairness ==
  /\ WF_vars(work = "telnet" /\ ServerReads /\ UNCHANGED <<inputVars, outputVars, work>>)
  /\ WF_vars(work = "telnet" /\ ClientReads /\ UNCHANGED <<inputVars, outputVars, work>>)
  /\ WF_vars(work = "output" /\ Write /\ UNCHANGED <<telnetVars, inputVars, work>>)

Spec == Init /\ [][Next]_vars /\ Fairness

\* Negotiation comes to an end in the behaviours it is in.
TelnetSettles == work = "telnet" => Settles

\* What is begun on a connection comes to its end: negotiation settles, requests are
\* answered, output is sent.
Progress == TelnetSettles /\ Answered /\ OutputDrains
=============================================================================
