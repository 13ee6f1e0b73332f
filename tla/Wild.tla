---------------------------------- MODULE Wild ----------------------------------
(***************************************************************************)
(* Wildcard matching (wild.cpp).  "*" stands for any text, "?" for one     *)
(* character, a backslash takes the next character literally.  The parts   *)
(* of the data that wildcards stand for are handed back as arguments.      *)
(* Every call counts, and beyond wild_invk_lim calls nothing matches.      *)
(***************************************************************************)
EXTENDS Integers, Sequences, SequencesExt, FiniteSets, FiniteSetsExt, Functions

Escape == "\\"

Lower(c) == IF c = "A" THEN "a" ELSE c
EQUAL(a, b) == Lower(a) = Lower(b)

\* The character that a pointer is at.
At(s) == IF s = << >> THEN "NUL" ELSE s[1]
Unescaped(t) == IF At(t) = Escape THEN Tail(t) ELSE t

No(ctr) == [is |-> FALSE, ctr |-> ctr]
Yes(ctr) == [is |-> TRUE, ctr |-> ctr]

-----------------------------------------------------------------------------
(* quick_wild: is there a match?                                           *)

\* Mutant: a "?" after a "*" need not stand for anything.
SkipWilds_Free(t, d) ==
  IF At(t) \in {"*", "?"} THEN [t |-> SelectSeq(t, LAMBDA c : c \notin {"*", "?"}), d |-> d] ELSE [t |-> t, d |-> d]

\* Past the wildcards that follow a "*"; a "?" takes a character of the data.
RECURSIVE SkipWilds(_, _)
SkipWilds(t, d) ==
  CASE At(t) = "*" -> SkipWilds(Tail(t), d)
    [] At(t) = "?" /\ d # << >> -> SkipWilds(Tail(t), Tail(d))
    [] OTHER -> [t |-> t, d |-> d]

RECURSIVE quick_wild(_, _, _, _), Quick(_, _, _, _), QuickScan(_, _, _, _), QuickOr(_, _, _, _)

quick_wild(t, d, ctr, lim) == IF ctr >= lim THEN No(ctr) ELSE Quick(t, d, ctr + 1, lim)

QuickLiteral(t, d, ctr, lim) ==
  IF ~EQUAL(At(d), At(t)) THEN No(ctr) ELSE IF d = << >> THEN Yes(ctr) ELSE Quick(Tail(t), Tail(d), ctr, lim)

QuickAfterStar(rest, ctr, lim) ==
  IF At(rest.t) = "?" THEN No(ctr)
  ELSE IF Unescaped(rest.t) = << >> THEN Yes(ctr)
  ELSE QuickScan(Unescaped(rest.t), rest.d, ctr, lim)

Quick(t, d, ctr, lim) ==
  CASE At(t) = "*" -> QuickAfterStar(SkipWilds(t, d), ctr, lim)
    [] At(t) = "?" -> IF d = << >> THEN No(ctr) ELSE Quick(Tail(t), Tail(d), ctr, lim)
    [] OTHER -> QuickLiteral(Unescaped(t), d, ctr, lim)

\* Wherever the first character after the wildcards matches, the rest may.
QuickOr(r, t, d, lim) == IF r.is THEN r ELSE QuickScan(t, Tail(d), r.ctr, lim)
QuickScan(t, d, ctr, lim) ==
  IF d = << >> THEN No(ctr)
  ELSE IF EQUAL(d[1], t[1]) THEN QuickOr(quick_wild(Tail(t), Tail(d), ctr, lim), t, d, lim)
  ELSE QuickScan(t, Tail(d), ctr, lim)

-----------------------------------------------------------------------------
(* wild: the same, with the arguments, numbered from 0.                    *)

Got(r, args) == [is |-> r.is, ctr |-> r.ctr, args |-> args]

\* How many "?" stand at the start of a pattern.
Marks(t) == Min({i \in 0 .. Len(t) : i = Len(t) \/ t[i + 1] # "?"})

\* One character of the data for each "?", from an argument on.
RECURSIVE FillMarks(_, _, _, _)
FillMarks(args, argpos, n, data) ==
  IF n = 0 \/ argpos \notin DOMAIN args THEN args
  ELSE FillMarks([args EXCEPT ![argpos] = <<data[1]>>], argpos + 1, n - 1, Tail(data))

RECURSIVE wild1(_, _, _, _, _, _), Wild1(_, _, _, _, _, _), Gather(_, _, _, _, _, _, _, _),
          Try(_, _, _, _, _, _, _, _, _), TryOr(_, _, _, _, _, _, _, _)

wild1(t, d, arg, args, ctr, lim) ==
  IF ctr >= lim THEN Got(No(ctr), args) ELSE Wild1(t, d, arg, args, ctr + 1, lim)

WildLiteral(t, d, arg, args, ctr, lim) ==
  IF ~EQUAL(At(d), At(t)) THEN Got(No(ctr), args)
  ELSE IF d = << >> THEN Got(Yes(ctr), args)
  ELSE Wild1(Tail(t), Tail(d), arg, args, ctr, lim)

\* The fast routine takes over when no argument is left to fill.
WildMark(t, d, arg, args, ctr, lim) ==
  IF arg + 1 \in DOMAIN args THEN Wild1(t, Tail(d), arg + 1, [args EXCEPT ![arg] = <<d[1]>>], ctr, lim)
  ELSE Got(quick_wild(t, Tail(d), ctr, lim), [args EXCEPT ![arg] = <<d[1]>>])

Wild1(t, d, arg, args, ctr, lim) ==
  CASE t = <<"*">> -> Got(Yes(ctr), [args EXCEPT ![arg] = d])
    [] At(t) = "*" /\ Len(t) > 1 -> Gather(Tail(t), d, d, arg, arg + 1, args, ctr, lim)
    [] At(t) = "?" -> IF d = << >> THEN Got(No(ctr), args) ELSE WildMark(Tail(t), d, arg, args, ctr, lim)
    [] OTHER -> WildLiteral(Unescaped(t), d, arg, args, ctr, lim)

\* A "*" of which the "?" that follow are known; another "*" leaves it nothing.  data is the
\* place where the "*" began, argpos its argument, arg the argument after it.
GatherOn(t, d, data, n, argpos, arg, args, ctr, lim) ==
  IF At(t) = "*"
  THEN IF arg \in DOMAIN args
       THEN Gather(Tail(t), d, SubSeq(data, n + 1, Len(data)), arg, arg + 1,
                   FillMarks([args EXCEPT ![argpos] = << >>], argpos + 1, n, data), ctr, lim)
       ELSE Got(quick_wild(t, d, ctr, lim),
                FillMarks([args EXCEPT ![argpos] = << >>], argpos + 1, n, data))
  ELSE Try(Unescaped(t), d, data, n, argpos, arg, args, ctr, lim)
Gather(t, d, data, argpos, arg, args, ctr, lim) ==
  IF Marks(t) > Len(d) THEN Got(No(ctr), args)
  ELSE GatherOn(SubSeq(t, Marks(t) + 1, Len(t)), SubSeq(d, Marks(t) + 1, Len(d)), data, Marks(t),
                argpos, arg + Marks(t), args, ctr, lim)

\* Mutant: the text of the "*" is cut without regard to the "?" that follow it.
StarText_All(data, d, n) == SubSeq(data, 1, Len(data) - Len(d))

\* What the "*" stands for when the data up to d are its own and those of n "?".
StarText(data, d, n) == SubSeq(data, 1, Len(data) - Len(d) - n)

Filled(args, argpos, data, d, n) ==
  FillMarks([args EXCEPT ![argpos] = StarText(data, d, n)], argpos + 1, n,
            SubSeq(data, Len(data) - Len(d) - n + 1, Len(data)))

\* The data from the first character on that matches.
Sought(t, d) == SubSeq(d, Min({i \in DOMAIN d : EQUAL(d[i], t[1])} \cup {Len(d) + 1}), Len(d))

TryAt(t, d, data, n, argpos, arg, args, ctr, lim) ==
  IF d = << >> THEN Got(No(ctr), args)
  ELSE TryOr(IF arg \in DOMAIN args THEN wild1(Tail(t), Tail(d), arg, args, ctr, lim)
             ELSE Got(quick_wild(Tail(t), Tail(d), ctr, lim), args),
             t, d, data, n, argpos, arg, lim)
TryOr(r, t, d, data, n, argpos, arg, lim) ==
  IF r.is THEN Got(r, Filled(r.args, argpos, data, d, n))
  ELSE Try(t, Tail(d), data, n, argpos, arg, r.args, r.ctr, lim)
Try(t, d, data, n, argpos, arg, args, ctr, lim) ==
  IF t = << >> THEN Got(Yes(ctr), Filled(args, argpos, data, << >>, n))
  ELSE TryAt(t, Sought(t, d), data, n, argpos, arg, args, ctr, lim)

\* Literal text ahead of the first wildcard is matched at once; "whole" if there is no other.
RECURSIVE Prefix(_, _)
Prefix(t, d) ==
  CASE At(t) \in {"*", "?"} -> [end |-> "wild", t |-> t, d |-> d]
    [] ~EQUAL(At(d), At(Unescaped(t))) -> [end |-> "differs"]
    [] d = << >> /\ Unescaped(t) = << >> -> [end |-> "whole"]
    [] OTHER -> Prefix(Tail(Unescaped(t)), Tail(d))

NoText == <<"NoText">>

\* Without a match there are no arguments, and an empty one is none.
wild(t, d, nargs, lim) ==
  LET p == Prefix(t, d)
      none == [i \in 0 .. nargs - 1 |-> NoText]
  IN IF p.end # "wild" THEN Got(IF p.end = "whole" THEN Yes(0) ELSE No(0), none)
     ELSE LET r == IF nargs = 0 THEN Got(quick_wild(p.t, p.d, 0, lim), none)
                   ELSE wild1(p.t, p.d, 0, [none EXCEPT ![0] = << >>], 0, lim)
          IN Got(r, [i \in DOMAIN r.args |-> IF ~r.is \/ r.args[i] = << >> THEN NoText ELSE r.args[i]])

-----------------------------------------------------------------------------
(* Laws, of a pattern and data.                                            *)

\* The units of a pattern: literal characters and wildcards; a backslash at the end is none.
RECURSIVE Units(_)
Units(t) ==
  CASE t = << >> \/ t = <<Escape>> -> << >>
    [] At(t) = Escape /\ Len(t) > 1 -> <<[is |-> "literal", c |-> t[2]]>> \o Units(SubSeq(t, 3, Len(t)))
    [] At(t) \in {"*", "?"} -> <<[is |-> t[1]]>> \o Units(Tail(t))
    [] OTHER -> <<[is |-> "literal", c |-> t[1]]>> \o Units(Tail(t))

\* The first i units match the first j characters.
Matched(u, d) ==
  LET m[i \in 0 .. Len(u), j \in 0 .. Len(d)] ==
        CASE i = 0 -> j = 0
          [] i > 0 /\ u[i].is = "*" -> m[i - 1, j] \/ (j > 0 /\ m[i, j - 1])
          [] i > 0 /\ u[i].is = "?" -> j > 0 /\ m[i - 1, j - 1]
          [] OTHER -> j > 0 /\ EQUAL(u[i].c, d[j]) /\ m[i - 1, j - 1]
  IN m[Len(u), Len(d)]

Wildcards(u) == SelectSeq([i \in DOMAIN u |-> i], LAMBDA i : u[i].is # "literal")

\* The data as the pattern makes it with the arguments in place of its wildcards.
Rebuilt(u, args) ==
  FlattenSeq([i \in DOMAIN u |->
    IF u[i].is = "literal" THEN <<u[i].c>>
    ELSE LET arg == args[Cardinality({k \in 1 .. i - 1 : u[k].is # "literal"})]
         IN IF arg = NoText THEN << >> ELSE arg])

SameText(s, d) == Len(s) = Len(d) /\ \A i \in DOMAIN s : EQUAL(s[i], d[i])

\* Both matchers find the matches that there are, the arguments put into the pattern give the
\* data back, a "?" is one character, and how many arguments are wanted does not change them;
\* out of calls, nothing is matched that should not be (wild.cpp:35-451).
WildRight(t, d) ==
  LET u == Units(t)
      there == Matched(u, d)
      wanted == Wildcards(u)
      whole == wild(t, d, Len(wanted) + 1, 1000)
  IN /\ quick_wild(t, d, 0, 1000).is = there
     /\ whole.is = there
     /\ there =>
          /\ SameText(Rebuilt(u, whole.args), d)
          /\ \A k \in DOMAIN wanted : u[wanted[k]].is = "?" => Len(whole.args[k - 1]) = 1
     /\ \A nargs \in 0 .. 2 :
          LET some == wild(t, d, nargs, 1000)
          IN /\ some.is = there
             /\ \A i \in DOMAIN some.args : i < Len(wanted) => some.args[i] = whole.args[i]
     /\ \A lim \in 1 .. 2 : quick_wild(t, d, 0, lim).is \/ wild(t, d, 2, lim).is => there
=============================================================================
