-------------------------------- MODULE Telnet --------------------------------
(***************************************************************************)
(* Negotiation of telnet options (bsd.cpp): the state of either side as    *)
(* the server keeps it, the requests of TelnetSetup, the answers of        *)
(* process_input_helper.  The other end is any client that follows RFC     *)
(* 1143 without its queue bits; the two directions of the connection are   *)
(* sequences of messages.                                                  *)
(***************************************************************************)
EXTENDS Naturals, Sequences

CONSTANTS
  Other,    \* an option that the server does not know
  MaxAsks   \* bound: requests that the client makes of its own

VARIABLES
  him, us,                  \* the server's view of either side, by option
  toClient, toServer,       \* messages on their way
  clientHim, clientUs,      \* the client's view: him is the server
  accepts, offers,          \* what the client lets the server do, and does itself
  asks                      \* requests that it still may make

telnetVars == <<him, us, toClient, toServer, clientHim, clientUs, accepts, offers, asks>>
client == <<clientHim, clientUs, accepts, offers, asks>>

Known == {"EOR", "SGA", "NAWS"}
Option == Known \cup {Other}

ASSUME OptionAssumption == Other \notin Known /\ MaxAsks \in Nat

\* A state is NO, YES, WANTNO_EMPTY, WANTNO_OPPOSITE, WANTYES_EMPTY or
\* WANTYES_OPPOSITE; that of Other is always NO.  A message is WILL, WONT, DO or DONT.
Msg(c, o) == [command |-> c, option |-> o]

\* What the server has become and what it sends.
Server == [him |-> him, us |-> us, out |-> toClient]

Send(t, c, o) == [t EXCEPT !.out = Append(@, Msg(c, o))]

SetHimState(t, o, x) == IF o \in Known THEN [t EXCEPT !.him[o] = x] ELSE t

\* EnableHim, and EnableUs of an option other than EOR: the state that is asked is
\* always his.
EnableHim(t, o) ==
  CASE t.him[o] = "NO" -> Send(SetHimState(t, o, "WANTYES_EMPTY"), "DO", o)
    [] t.him[o] = "WANTNO_EMPTY" -> SetHimState(t, o, "WANTNO_OPPOSITE")
    [] t.him[o] = "WANTYES_OPPOSITE" -> SetHimState(t, o, "WANTYES_EMPTY")
    [] OTHER -> t

EnableUs(t, o) ==
  CASE t.him[o] = "NO" -> Send([t EXCEPT !.us[o] = "WANTYES_EMPTY"], "WILL", o)
    [] t.him[o] = "WANTNO_EMPTY" -> [t EXCEPT !.us[o] = "WANTNO_OPPOSITE"]
    [] t.him[o] = "WANTYES_OPPOSITE" -> [t EXCEPT !.us[o] = "WANTYES_EMPTY"]
    [] OTHER -> t

DisableUs(t, o) ==
  CASE t.him[o] = "YES" -> Send([t EXCEPT !.us[o] = "WANTNO_EMPTY"], "WONT", o)
    [] t.him[o] = "WANTNO_OPPOSITE" -> [t EXCEPT !.us[o] = "WANTNO_EMPTY"]
    [] t.him[o] = "WANTYES_EMPTY" -> [t EXCEPT !.us[o] = "WANTYES_OPPOSITE"]
    [] OTHER -> t

\* SGA of our side follows EOR.
SetUsState(t, o, x) ==
  LET set == IF o \in Known THEN [t EXCEPT !.us[o] = x] ELSE t
  IN CASE o = "EOR" /\ x = "YES" -> EnableUs(set, "SGA")
       [] o = "EOR" /\ x = "NO" -> DisableUs(set, "SGA")
       [] OTHER -> set

DesiredHimOption(o) == o \in Known
DesiredUsOption(t, o) == o = "EOR" \/ (o = "SGA" /\ t.us["EOR"] = "YES")

TelnetSetup(t) ==
  EnableHim(EnableHim(EnableHim(EnableUs(t, "EOR"), "EOR"), "SGA"), "NAWS")

-----------------------------------------------------------------------------
(* Actions 13 to 16 of process_input_helper *)

Respond_WILL(t, o) ==
  CASE t.him[o] = "NO" ->
         IF DesiredHimOption(o) THEN Send(SetHimState(t, o, "YES"), "DO", o) ELSE Send(t, "DONT", o)
    [] t.him[o] = "WANTNO_EMPTY" -> SetHimState(t, o, "NO")
    [] t.him[o] = "WANTYES_OPPOSITE" -> Send(SetHimState(t, o, "WANTNO_EMPTY"), "DONT", o)
    [] OTHER -> SetHimState(t, o, "YES")

\* Mutant: the server does not take no for an answer.
Respond_WONT_Again(t, o) ==
  IF t.him[o] = "YES" THEN Send(SetHimState(t, o, "NO"), "DONT", o)
  ELSE Send(SetHimState(t, o, "WANTYES_EMPTY"), "DO", o)

Respond_WONT(t, o) ==
  CASE t.him[o] = "NO" -> t
    [] t.him[o] = "YES" -> Send(SetHimState(t, o, "NO"), "DONT", o)
    [] t.him[o] = "WANTNO_OPPOSITE" -> Send(SetHimState(t, o, "WANTYES_EMPTY"), "DO", o)
    [] OTHER -> SetHimState(t, o, "NO")

\* Mutant: an option is switched on without a word.
Respond_DO_Silent(t, o) ==
  CASE t.us[o] = "NO" ->
         IF DesiredUsOption(t, o) THEN SetUsState(t, o, "YES") ELSE Send(t, "WONT", o)
    [] t.us[o] = "WANTNO_EMPTY" -> SetUsState(t, o, "NO")
    [] t.us[o] = "WANTYES_OPPOSITE" -> Send(SetUsState(t, o, "WANTNO_EMPTY"), "WONT", o)
    [] OTHER -> SetUsState(t, o, "YES")

Respond_DO(t, o) ==
  CASE t.us[o] = "NO" ->
         IF DesiredUsOption(t, o) THEN Send(SetUsState(t, o, "YES"), "WILL", o) ELSE Send(t, "WONT", o)
    [] t.us[o] = "WANTNO_EMPTY" -> SetUsState(t, o, "NO")
    [] t.us[o] = "WANTYES_OPPOSITE" -> Send(SetUsState(t, o, "WANTNO_EMPTY"), "WONT", o)
    [] OTHER -> SetUsState(t, o, "YES")

\* Mutant: a side that was on is switched off without a word.
Respond_DONT_Silent(t, o) ==
  IF t.us[o] = "WANTNO_OPPOSITE" THEN Send(SetUsState(t, o, "WANTYES_EMPTY"), "WILL", o)
  ELSE SetUsState(t, o, "NO")

Respond_DONT(t, o) ==
  CASE t.us[o] = "YES" -> Send(SetUsState(t, o, "NO"), "WONT", o)
    [] t.us[o] = "WANTNO_OPPOSITE" -> Send(SetUsState(t, o, "WANTYES_EMPTY"), "WILL", o)
    [] OTHER -> SetUsState(t, o, "NO")

Respond(t, m) ==
  CASE m.command = "WILL" -> Respond_WILL(t, m.option)
    [] m.command = "WONT" -> Respond_WONT(t, m.option)
    [] m.command = "DO" -> Respond_DO(t, m.option)
    [] m.command = "DONT" -> Respond_DONT(t, m.option)

-----------------------------------------------------------------------------
TelnetInit ==
  LET off == [o \in Option |-> "NO"]
      start == TelnetSetup([him |-> off, us |-> off, out |-> <<>>])
  IN /\ him = start.him /\ us = start.us /\ toClient = start.out
     /\ toServer = <<>>
     /\ clientHim = off /\ clientUs = off
     /\ accepts \in SUBSET Option /\ offers \in SUBSET Option
     /\ asks = MaxAsks

\* The server reads a message.
ServerReads ==
  /\ toServer # <<>>
  /\ LET t == Respond(Server, Head(toServer))
     IN him' = t.him /\ us' = t.us /\ toClient' = t.out
  /\ toServer' = Tail(toServer)
  /\ UNCHANGED client

\* The client's own state x of an option once it is told on (or off): what it is
\* next and whether it answers.
Told(x, on, willing) ==
  CASE x = "NO" /\ on -> [next |-> IF willing THEN "YES" ELSE "NO", answers |-> TRUE, agrees |-> willing]
    [] x = "YES" /\ ~on -> [next |-> "NO", answers |-> TRUE, agrees |-> FALSE]
    [] x = "WANTYES" -> [next |-> IF on THEN "YES" ELSE "NO", answers |-> FALSE, agrees |-> FALSE]
    [] x = "WANTNO" -> [next |-> "NO", answers |-> FALSE, agrees |-> FALSE]
    [] OTHER -> [next |-> x, answers |-> FALSE, agrees |-> FALSE]

\* The client reads a message.
ClientReads ==
  /\ toClient # <<>>
  /\ LET m == Head(toClient)
         o == m.option
         ofHis == m.command \in {"WILL", "WONT"}
         on == m.command \in {"WILL", "DO"}
         told == IF ofHis THEN Told(clientHim[o], on, o \in accepts)
                 ELSE Told(clientUs[o], on, o \in offers)
         reply == IF ofHis THEN IF told.agrees THEN "DO" ELSE "DONT"
                  ELSE IF told.agrees THEN "WILL" ELSE "WONT"
     IN /\ IF ofHis
           THEN clientHim' = [clientHim EXCEPT ![o] = told.next] /\ UNCHANGED clientUs
           ELSE clientUs' = [clientUs EXCEPT ![o] = told.next] /\ UNCHANGED clientHim
        /\ toServer' = IF told.answers THEN Append(toServer, Msg(reply, o)) ELSE toServer
  /\ toClient' = Tail(toClient)
  /\ UNCHANGED <<him, us, accepts, offers, asks>>

Asked(x) == IF x = "NO" THEN "WANTYES" ELSE "WANTNO"

\* The client asks for a change of the server's side, or of its own; it asks only
\* for what it can do.
ClientAsks(o) ==
  /\ asks > 0 /\ asks' = asks - 1
  /\ \/ /\ clientHim[o] = "YES" \/ (clientHim[o] = "NO" /\ o \in accepts)
        /\ clientHim' = [clientHim EXCEPT ![o] = Asked(@)]
        /\ toServer' = Append(toServer, Msg(IF clientHim[o] = "NO" THEN "DO" ELSE "DONT", o))
        /\ UNCHANGED clientUs
     \/ /\ clientUs[o] = "YES" \/ (clientUs[o] = "NO" /\ o \in offers)
        /\ clientUs' = [clientUs EXCEPT ![o] = Asked(@)]
        /\ toServer' = Append(toServer, Msg(IF clientUs[o] = "NO" THEN "WILL" ELSE "WONT", o))
        /\ UNCHANGED clientHim
  /\ UNCHANGED <<him, us, toClient, accepts, offers>>

TelnetNext == ServerReads \/ ClientReads \/ \E o \in Option : ClientAsks(o)

\* Both ends read what arrives.
TelnetFairness == WF_telnetVars(ServerReads) /\ WF_telnetVars(ClientReads)

TelnetSpec == TelnetInit /\ [][TelnetNext]_telnetVars /\ TelnetFairness
-----------------------------------------------------------------------------
Quiet == toClient = <<>> /\ toServer = <<>>

\* With nothing on its way, both ends agree which options are on, except SGA of the
\* server's side: whoever counts on end-of-record marks gets them, and the size of
\* the window is sent only to a server that reads it.
Agreed ==
  Quiet => \A o \in Option :
    /\ (him[o] = "YES") <=> (clientUs[o] = "YES")
    /\ o # "SGA" => ((us[o] = "YES") <=> (clientHim[o] = "YES"))

\* Negotiation comes to an end, whatever the client asks for in between.
Settles == <>[]Quiet

\* No request of the client stays unanswered, for SGA of the server's side excepted.
Answered ==
  \A o \in Option :
    /\ clientUs[o] \in {"WANTYES", "WANTNO"} ~> clientUs[o] \in {"NO", "YES"}
    /\ o # "SGA" => clientHim[o] \in {"WANTYES", "WANTNO"} ~> clientHim[o] \in {"NO", "YES"}
=============================================================================
