-------------------------------- MODULE Input ---------------------------------
(***************************************************************************)
(* Typed input (process_input_helper and the tables it is driven by,       *)
(* bsd.cpp): bytes arrive in reads of any length and become lines,         *)
(* sub-options and answers.  A second parser that gets the same bytes in   *)
(* one read is kept beside the first.                                      *)
(***************************************************************************)
EXTENDS Integers, Sequences, FiniteSets, SequencesExt, Totals

CONSTANTS
  LineMax,     \* bytes that fit a line
  OptionMax,   \* SBUF_SIZE - 1: aOption up to qend
  MaxBytes     \* bound: bytes that arrive

ASSUME InputAssumption == LineMax \in Nat /\ OptionMax \in Nat

VARIABLES
  cut, whole,  \* see Fresh
  input_size,  \* of the descriptor
  bytes,       \* history: how many arrived
  overlong     \* history: a read ended within a sub-option that fills aOption

inputVars == <<cut, whole, input_size, bytes, overlong>>

\* Classes of bytes: printable, not printable, and those the tables tell apart.  IAC
\* and what follows it in the table are printable too; NAWS is not.
Byte == {"a", "NAWS", "BS", "LF", "CR", "SE", "AYT", "EC", "SB", "WILL", "IAC"}
Printable == Byte \ {"NAWS", "BS", "LF", "CR"}

\* state: raw_input_state; line: raw_input; option: aOption; lines: input_head and its
\* like; window: what the last NAWS told; replies: answers to AYT and to WILL.
FreshParser == [state |-> "Normal", line |-> <<>>, option |-> <<>>, lines |-> <<>>,
                window |-> <<>>, replies |-> <<>>, size |-> 0, lost |-> 0]

To(r, x) == [r EXCEPT !.state = x]

\* Mutant: a character that does not fit is counted like the others.
Accept_Counted(r, b) ==
  LET fits == Len(r.line) < LineMax
  IN IF b \notin Printable THEN To(r, "Normal")
     ELSE [To(r, "Normal") EXCEPT !.line = IF fits THEN Append(@, b) ELSE @, !.size = @ + 1]

Accept(r, b) ==
  IF b \notin Printable THEN To(r, "Normal")
  ELSE IF Len(r.line) < LineMax
       THEN [To(r, "Normal") EXCEPT !.line = Append(@, b), !.size = @ + 1]
       ELSE [To(r, "Normal") EXCEPT !.lost = @ + 1]

Erase(r) ==
  IF r.line = <<>> THEN To(r, "Normal")
  ELSE [To(r, "Normal") EXCEPT !.line = Front(@), !.size = @ - 1]

AcceptLine(r) ==
  IF r.line = <<>> THEN r ELSE [r EXCEPT !.lines = Append(@, r.line), !.line = <<>>]

AcceptOption(r, b) ==
  [To(r, "SB") EXCEPT !.option = IF Len(@) < OptionMax THEN Append(@, b) ELSE @]

\* A window is told by NAWS and four bytes; one stands for the four.
Complete(r) ==
  LET told == r.option # <<>> /\ Len(r.option) < OptionMax /\ r.option[1] = "NAWS" /\ Len(r.option) = 2
  IN [To(r, "Normal") EXCEPT !.option = <<>>, !.window = IF told THEN Tail(r.option) ELSE @]

Reply(r, what) == [To(r, "Normal") EXCEPT !.replies = Append(@, what)]

\* One byte, as nvt_input_action_table has it.
Feed(r, b) ==
  CASE r.state = "Normal" ->
         (CASE b = "IAC" -> To(r, "IAC") [] b = "BS" -> Erase(r)
            [] b = "LF" -> AcceptLine(r) [] b = "CR" -> r [] OTHER -> Accept(r, b))
    [] r.state = "IAC" ->
         (CASE b = "AYT" -> Reply(r, "Yes") [] b = "EC" -> Erase(r)
            [] b = "SB" -> [To(r, "SB") EXCEPT !.option = <<>>]
            [] b = "WILL" -> To(r, "WILL") [] b = "IAC" -> Accept(r, b) [] OTHER -> To(r, "Normal"))
    [] r.state = "WILL" -> IF b = "IAC" THEN To(r, "Normal") ELSE Reply(r, b)
    [] r.state = "SB" -> IF b = "IAC" THEN To(r, "SB_IAC") ELSE AcceptOption(r, b)
    [] r.state = "SB_IAC" ->
         (CASE b = "SE" -> Complete(r) [] b = "IAC" -> AcceptOption(r, b) [] OTHER -> r)

\* Mutant: what the end of a read leaves of a command is forgotten.
EndOfRead_Normal(r) == [To(r, "Normal") EXCEPT !.option = <<>>]

\* What the descriptor keeps between two reads.
EndOfRead(r) == IF Len(r.option) < OptionMax THEN r ELSE [r EXCEPT !.option = <<>>]

-----------------------------------------------------------------------------
InputInit ==
  /\ cut = FreshParser /\ whole = FreshParser
  /\ input_size = 0 /\ bytes = 0 /\ overlong = FALSE

\* A byte is parsed; a read may end behind it.
process_input_helper(b, end) ==
  LET c == Feed(cut, b)
      t == IF end THEN EndOfRead(c) ELSE c
  IN /\ bytes < MaxBytes /\ bytes' = bytes + 1
     /\ cut' = [t EXCEPT !.size = 0]
     /\ whole' = [Feed(whole, b) EXCEPT !.size = 0]
     /\ input_size' = input_size + t.size
     /\ overlong' = (overlong \/ (end /\ Len(c.option) = OptionMax))

\* Task_ProcessCommand takes the first line.
TakeLine ==
  /\ cut.lines # <<>> /\ whole.lines # <<>>
  /\ input_size' = input_size - Len(Head(cut.lines))
  /\ cut' = [cut EXCEPT !.lines = Tail(@)] /\ whole' = [whole EXCEPT !.lines = Tail(@)]
  /\ UNCHANGED <<bytes, overlong>>

\* load_restart_db keeps the state of the tables and loses what was typed.
Restarted(r) == [r EXCEPT !.line = <<>>, !.option = <<>>, !.lines = <<>>, !.lost = 0]

InputRestart ==
  /\ cut' = Restarted(cut) /\ whole' = Restarted(whole)
  /\ input_size' = 0
  /\ UNCHANGED <<bytes, overlong>>

InputNext ==
  \/ \E b \in Byte, end \in BOOLEAN : process_input_helper(b, end)
  \/ TakeLine \/ InputRestart

InputSpec == InputInit /\ [][InputNext]_inputVars
-----------------------------------------------------------------------------
\* It makes no difference where reads begin and end, within a telnet command too:
\* unless a read ends while a sub-option fills the buffer, of which the rest is then
\* taken for a new one (bsd.cpp:3197).
ReadsDoNotMatter == ~overlong => cut = whole

Lengths(ls) == [i \in 1 .. Len(ls) |-> Len(ls[i])]

\* The size of the input is that of the lines that wait and of the one being typed;
\* no line is empty or longer than its block (bsd.cpp:3202, netcommon.cpp:2723).
InputAccounted ==
  /\ input_size = Len(cut.line) + Total(Lengths(cut.lines))
  /\ \A i \in DOMAIN cut.lines : Len(cut.lines[i]) \in 1 .. LineMax

\* What is typed becomes lines and a size that do not depend on how it arrived.
InputExact == ReadsDoNotMatter /\ InputAccounted
=============================================================================
