--------------------------------- MODULE Locks ---------------------------------
(***************************************************************************)
(* Locks (boolexp.cpp, unparse.cpp): the expression that @lock reads, the  *)
(* text that is stored, and its evaluation each time somebody tries the    *)
(* door.  A text is a sequence of tokens: the operators, and words, which  *)
(* refer to an object or test an attribute.                                *)
(***************************************************************************)
EXTENDS Integers, Sequences, SequencesExt, FiniteSets

Nothing == [type |-> "true"]  \* TRUE_BOOLEXP

Op(c) == [is |-> c]
Ref(thing) == [is |-> "ref", thing |-> thing]
Atr(sep, attr, val, bNumber) == [is |-> "atr", sep |-> sep, attr |-> attr, val |-> val, bNumber |-> bNumber]

-----------------------------------------------------------------------------
(* Parsing.  A reader is the player who parses, the objects that he can    *)
(* name or that exist, the attributes that have names, and is he God.      *)

IsAt(s, i, c) == i <= Len(s) /\ s[i].is = c

\* Where an object reference ends.
WordEnd(s, i) ==
  LET ends == {j \in i .. Len(s) : s[j].is \in {"&", "|", ")"}}
  IN IF ends = {} THEN Len(s) + 1 ELSE CHOOSE j \in ends : \A k \in ends : j <= k

test_atr(word, reader) ==
  IF IF word.bNumber THEN reader.God ELSE word.attr \in reader.attrs
  THEN [type |-> IF word.sep = "/" THEN "eval" ELSE "atr", thing |-> word.attr, val |-> word.val]
  ELSE Nothing

WordNode(word, reader) ==
  CASE word.is = "atr" -> test_atr(word, reader)
    [] word.is = "ref" -> IF word.thing \in reader.things THEN [type |-> "const", thing |-> word.thing]
                          ELSE Nothing
    [] OTHER -> Nothing

Read(b, at) == [b |-> b, at |-> at]
Closed(s, e) == IF e.b # Nothing /\ IsAt(s, e.at, ")") THEN Read(e.b, e.at + 1) ELSE Read(Nothing, e.at)
Prefixed(type, allowed, l) ==
  Read(IF l.b.type \in allowed THEN [type |-> type, sub1 |-> l.b] ELSE Nothing, l.at)
Joined(type, l, r) ==
  Read(IF r.b = Nothing THEN Nothing ELSE [type |-> type, sub1 |-> l.b, sub2 |-> r.b], r.at)

AnyNode == {"const", "atr", "eval", "indir", "is", "carry", "owner", "not", "and", "or"}

RECURSIVE parse_boolexp_E(_, _, _), parse_boolexp_T(_, _, _), parse_boolexp_F(_, _, _)

\* L -> (E); L -> object identifier
parse_boolexp_L(s, i, reader) ==
  IF IsAt(s, i, "(") THEN Closed(s, parse_boolexp_E(s, i + 1, reader))
  ELSE Read(IF WordEnd(s, i) = i + 1 THEN WordNode(s[i], reader) ELSE Nothing, WordEnd(s, i))

\* F -> !F; F -> @L; F -> =L; F -> +L; F -> $L
parse_boolexp_F(s, i, reader) ==
  IF i > Len(s) THEN Read(Nothing, i)
  ELSE CASE s[i].is = "!" -> Prefixed("not", AnyNode, parse_boolexp_F(s, i + 1, reader))
         [] s[i].is = "@" -> Prefixed("indir", {"const"}, parse_boolexp_L(s, i + 1, reader))
         [] s[i].is = "=" -> Prefixed("is", {"const", "atr"}, parse_boolexp_L(s, i + 1, reader))
         [] s[i].is = "+" -> Prefixed("carry", {"const", "atr"}, parse_boolexp_L(s, i + 1, reader))
         [] s[i].is = "$" -> Prefixed("owner", {"const"}, parse_boolexp_L(s, i + 1, reader))
         [] OTHER -> parse_boolexp_L(s, i, reader)

\* Mutant: the rest of a conjunction is read as a whole expression.
AndRest_All(s, l, reader) ==
  IF l.b # Nothing /\ IsAt(s, l.at, "&") THEN Joined("and", l, parse_boolexp_E(s, l.at + 1, reader)) ELSE l

\* T -> F; T -> F & T
AndRest(s, l, reader) ==
  IF l.b # Nothing /\ IsAt(s, l.at, "&") THEN Joined("and", l, parse_boolexp_T(s, l.at + 1, reader)) ELSE l
parse_boolexp_T(s, i, reader) == AndRest(s, parse_boolexp_F(s, i, reader), reader)

\* E -> T; E -> T | E
OrRest(s, l, reader) ==
  IF l.b # Nothing /\ IsAt(s, l.at, "|") THEN Joined("or", l, parse_boolexp_E(s, l.at + 1, reader)) ELSE l
parse_boolexp_E(s, i, reader) == OrRest(s, parse_boolexp_T(s, i, reader), reader)

\* What follows the expression is not looked at.
parse_boolexp(s, reader) == IF s = << >> THEN Nothing ELSE parse_boolexp_E(s, 1, reader).b

-----------------------------------------------------------------------------
(* The text of an expression, as it is stored.                             *)

\* Mutant: an alternative inside a conjunction stands without parentheses.
NeedsParens_NotOnly(type, outer) == outer = "not" /\ type \in {"and", "or"}

NeedsParens(type, outer) == (type = "and" /\ outer = "not") \/ (type = "or" /\ outer \in {"not", "and"})

Sign == [not |-> "!", indir |-> "@", is |-> "=", carry |-> "+", owner |-> "$", and |-> "&", or |-> "|",
         atr |-> ":", eval |-> "/"]

\* named: the attributes that still have a name.
RECURSIVE unparse_boolexp1(_, _, _)
unparse_boolexp1(b, outer, named) ==
  CASE b.type = "true" -> << >>
    [] b.type \in {"and", "or"} ->
         (IF NeedsParens(b.type, outer) THEN <<Op("(")>> ELSE << >>)
           \o unparse_boolexp1(b.sub1, b.type, named) \o <<Op(Sign[b.type])>>
           \o unparse_boolexp1(b.sub2, b.type, named)
           \o (IF NeedsParens(b.type, outer) THEN <<Op(")")>> ELSE << >>)
    [] b.type \in {"not", "indir", "is", "carry", "owner"} ->
         <<Op(Sign[b.type])>> \o unparse_boolexp1(b.sub1, b.type, named)
    [] b.type = "const" -> <<Op("("), Ref(b.thing), Op(")")>>
    [] b.type \in {"atr", "eval"} -> <<Atr(Sign[b.type], b.thing, b.val, b.thing \notin named)>>
unparse_boolexp_quiet(b, named) == unparse_boolexp1(b, "const", named)

-----------------------------------------------------------------------------
(* Evaluation.  A world says what a player is up against: who he is, what  *)
(* he carries, the stored lock of each object, the value of each attribute *)
(* of each object, who sees which, and what softcode answers.  The nest    *)
(* level is a global of the server.                                        *)

check_attr(w, obj, attr, val) ==
  (attr = "name" \/ <<obj, attr>> \in w.seen) /\ w.value[obj][attr] = val

\* The attribute of the lock's object, or of the object whose lock sent us here.
Answer(w, thing, from, attr) == IF w.softcode[from][attr] # "" THEN w.softcode[from][attr]
                                ELSE w.softcode[thing][attr]

Pass(pass, lev) == [pass |-> pass, lev |-> lev]

\* Mutant: a lock that nests too deep is refused without leaving its level.
Deep_Left(lev) == Pass(FALSE, lev + 1)

Deep(lev) == Pass(FALSE, lev)

Left(r) == Pass(r.pass, r.lev - 1)
Negated(r) == Pass(~r.pass, r.lev)

RECURSIVE eval_boolexp(_, _, _, _, _), eval_boolexp_atr(_, _, _, _)
BothPass(l, w, thing, from, b) == IF l.pass THEN eval_boolexp(w, thing, from, b, l.lev) ELSE l
EitherPass(l, w, thing, from, b) == IF l.pass THEN l ELSE eval_boolexp(w, thing, from, b, l.lev)
eval_boolexp(w, thing, from, b, lev) ==
  CASE b.type = "true" -> Pass(TRUE, lev)
    [] b.type = "and" -> BothPass(eval_boolexp(w, thing, from, b.sub1, lev), w, thing, from, b.sub2)
    [] b.type = "or" -> EitherPass(eval_boolexp(w, thing, from, b.sub1, lev), w, thing, from, b.sub2)
    [] b.type = "not" -> Negated(eval_boolexp(w, thing, from, b.sub1, lev))
    [] b.type = "indir" -> IF lev + 1 >= w.lock_nest_lim THEN Deep(lev)
                           ELSE Left(eval_boolexp_atr(w, b.sub1.thing, from, lev + 1))
    [] b.type = "const" -> Pass(b.thing = w.player \/ b.thing \in w.contents, lev)
    [] b.type = "atr" ->
         Pass(\E obj \in {w.player} \cup w.contents : check_attr(w, obj, b.thing, b.val), lev)
    [] b.type = "eval" -> Pass(Answer(w, thing, from, b.thing) = b.val, lev)
    [] b.type = "is" ->
         Pass(IF b.sub1.type = "const" THEN b.sub1.thing = w.player
              ELSE check_attr(w, w.player, b.sub1.thing, b.sub1.val), lev)
    [] b.type = "carry" ->
         Pass(IF b.sub1.type = "const" THEN b.sub1.thing \in w.contents
              ELSE \E obj \in w.contents : check_attr(w, obj, b.sub1.thing, b.sub1.val), lev)
    [] b.type = "owner" -> Pass(w.owner[b.sub1.thing] = w.owner[w.player], lev)
eval_boolexp_atr(w, thing, from, lev) ==
  eval_boolexp(w, thing, from, parse_boolexp(w.lock[thing], w.reader), lev)

\* A key is for players, and some players pass every lock.
could_doit(w, thing) ==
  /\ w.isPlayer \/ thing \notin w.keys
  /\ w.Pass_Locks \/ eval_boolexp_atr(w, thing, thing, 0).pass

-----------------------------------------------------------------------------
(* Laws, of an expression, a text, or a world.                             *)

RECURSIVE Operands(_, _)
Operands(type, b) == IF b.type = type THEN Operands(type, b.sub1) \o Operands(type, b.sub2) ELSE <<b>>

\* The expression without the way its conjuncts, or its alternatives, are grouped.
RECURSIVE Flat(_)
Flat(b) ==
  CASE b.type \in {"and", "or"} ->
         [type |-> b.type, subs |-> [i \in DOMAIN Operands(b.type, b) |-> Flat(Operands(b.type, b)[i])]]
    [] b.type = "not" -> [type |-> "not", subs |-> <<Flat(b.sub1)>>]
    [] OTHER -> b

\* What @lock stores is read back as the lock that was set, by whoever tries it
\* (boolexp.cpp:283-718, unparse.cpp:50-215, set.cpp:503-516).
StoredLockKept(b, reader) == Flat(parse_boolexp(unparse_boolexp_quiet(b, reader.attrs), reader)) = Flat(b)

Depth(s, i) == Cardinality({j \in 1 .. i : s[j].is = "("}) - Cardinality({j \in 1 .. i : s[j].is = ")"})
TopCuts(s, c) == {i \in DOMAIN s : s[i].is = c /\ Depth(s, i) = 0}
Sides(s, i) == {SubSeq(s, 1, i - 1), SubSeq(s, i + 1, Len(s))}

\* The expressions that the rules of locks allow, and when one of them holds.
RECURSIVE WellFormed(_)
WellFormed(s) ==
  \/ Len(s) = 1 /\ s[1].is = "ref"
  \/ Len(s) > 1 /\ s[1].is = "!" /\ TopCuts(s, "&") \cup TopCuts(s, "|") = {} /\ WellFormed(Tail(s))
  \/ /\ Len(s) > 2 /\ s[1].is = "(" /\ Depth(s, Len(s)) = 0 /\ \A i \in 1 .. Len(s) - 1 : Depth(s, i) > 0
     /\ WellFormed(SubSeq(s, 2, Len(s) - 1))
  \/ \E i \in TopCuts(s, "|") \cup TopCuts(s, "&") : \A side \in Sides(s, i) : WellFormed(side)

RECURSIVE Holds(_, _)
Holds(s, carried) ==
  CASE Len(s) = 1 -> s[1].thing \in carried
    [] TopCuts(s, "|") # {} -> \E i \in TopCuts(s, "|") : \E side \in Sides(s, i) : Holds(side, carried)
    [] TopCuts(s, "&") # {} -> \A i \in TopCuts(s, "&") : \A side \in Sides(s, i) : Holds(side, carried)
    [] s[1].is = "!" -> ~Holds(Tail(s), carried)
    [] s[1].is = "(" -> Holds(SubSeq(s, 2, Len(s) - 1), carried)

\* "not" binds more than "and", "and" more than "or" (boolexp.cpp:640-690).
PrecedenceRight(s, w) ==
  WellFormed(s) =>
    \A carried \in SUBSET w.reader.things :
      eval_boolexp([w EXCEPT !.contents = carried, !.player = 0], 0, 0, parse_boolexp(s, w.reader), 0).pass
        = Holds(s, carried)

\* The objects that a lock refers to by "@", and no lock that leads back to itself.
RECURSIVE Sent(_)
Sent(b) ==
  CASE b.type \in {"and", "or"} -> Sent(b.sub1) \cup Sent(b.sub2)
    [] b.type = "not" -> Sent(b.sub1)
    [] b.type = "indir" -> {b.sub1.thing}
    [] OTHER -> {}
RECURSIVE Reached(_, _)
Reached(w, things) ==
  LET more == things \cup UNION {Sent(parse_boolexp(w.lock[t], w.reader)) : t \in things}
  IN IF more = things THEN things ELSE Reached(w, more)
Grounded(w, thing) == \A t \in Reached(w, {thing}) :
                        t \notin Reached(w, Sent(parse_boolexp(w.lock[t], w.reader)))

\* Whatever locks refer to each other, in circles too, an evaluation ends at the nest level
\* where it began; without circles, "@" is as good as the lock it stands for
\* (boolexp.cpp:82-124).
IndirectionRight(w) ==
  \A thing \in DOMAIN w.lock :
    LET b == parse_boolexp(w.lock[thing], w.reader)
        r == eval_boolexp_atr(w, thing, thing, 0)
        indirect == [type |-> "indir", sub1 |-> [type |-> "const", thing |-> thing]]
    IN /\ r.lev = 0
       /\ Grounded(w, thing) => eval_boolexp(w, thing, thing, indirect, 0) = r
       /\ (Grounded(w, thing) /\ b.type \in {"and", "or"}) =>
            LET Of(sub) == eval_boolexp(w, thing, thing, sub, 0).pass
            IN r.pass = IF b.type = "and" THEN Of(b.sub1) /\ Of(b.sub2) ELSE Of(b.sub1) \/ Of(b.sub2)
=============================================================================
