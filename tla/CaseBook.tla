------------------------------- MODULE CaseBook -------------------------------
(***************************************************************************)
(* The inputs on which the pure algorithms are judged, and for each kind   *)
(* of input the law that it must obey.                                     *)
(***************************************************************************)
EXTENDS Integers, Sequences, SequencesExt, FiniteSets, TLC

CONSTANT DayTicks  \* see Calendar

Dates == INSTANCE DateParser
L == INSTANCE Lists
W == INSTANCE Wild
K == INSTANCE Locks

-----------------------------------------------------------------------------
(* Cases of the calendar.                                                  *)

Years == {-27256, -400, -4, -1, 0, 1, 4, 100, 400, 1600, 1601, 1900, 1999, 2000, 2001, 30826}

YearCases == [law : {"year"}, year : Years]
DivisionCases == [law : {"division"}, x : -30 .. 30]

On(year, month, day) == [year |-> year, month |-> month, day |-> day]

DateCases ==
  [law : {"date"},
   date : {On(1601, 1, 1), On(1996, 2, 29), On(1999, 3, 28), On(1999, 12, 31), On(2000, 1, 2),
           On(2005, 1, 1), On(2005, 1, 2), On(2008, 12, 29), On(2009, 12, 31), On(2010, 1, 3),
           On(2060, 1, 4), On(1978, 11, 12)}]

(* What a date may be written as, with the second of the day and whether a *)
(* zone is named.                                                          *)
Two(v) == Dates!Number(2, v)
Short(v) == Dates!Number(IF v < 10 THEN 1 ELSE 2, v)
Four(y) == Dates!Number(4, y)
Dash == Dates!Symbol("-")
Sp == Dates!Spaces
Clock == <<Two(13), Dates!Symbol(":"), Two(5), Dates!Symbol(":"), Two(9)>>
Noon == 13 * 3600 + 5 * 60 + 9

DayOfYear(t) == Dates!FixedFromGregorian(t) - Dates!FixedFromGregorian(On(t.year, 1, 1)) + 1

\* The week of a date, as ISO 8601 has it: the one its Thursday is in.
ISOWeek(t) ==
  LET day == Dates!FixedFromGregorian(t)
      monday == (day + 6) % 7
      thursday == Dates!GregorianFromFixed(day - monday + 3)
  IN [year |-> thursday.year, week |-> (thursday.dayOfYear - 1) \div 7 + 1, day |-> monday + 1]

ISODate(t) == <<Four(t.year), Dash, Two(t.month), Dash, Two(t.day)>>

Form(text, second, zoned) == [text |-> text, second |-> second, zoned |-> zoned]

\* Forms that are read whatever the date.
SureForms(t) ==
  {Form(ISODate(t), 0, FALSE),
   Form(ISODate(t) \o <<Dates!LetterT>> \o Clock \o <<Dates!ZoneName(0)>>, Noon, TRUE),
   Form(ISODate(t) \o <<Sp>> \o Clock \o <<Sp, Dash, Dates!Number(4, 1130)>>, Noon + 41400, TRUE),
   Form(<<Four(t.year), Dash, Dates!Number(3, DayOfYear(t))>>, 0, FALSE),
   Form(<<Dates!Number(7, t.year * 1000 + DayOfYear(t))>>, 0, FALSE),
   Form(<<Dates!Weekday(ISOWeek(t).day), Sp, Dates!Month(t.month), Sp, Two(t.day), Sp>>
          \o Clock \o <<Sp, Four(t.year)>>, Noon, FALSE),
   Form(<<Dates!Weekday(ISOWeek(t).day), Dates!Symbol(","), Sp, Two(t.day), Sp, Dates!Month(t.month),
          Sp, Four(t.year), Sp>> \o Clock \o <<Sp, Dates!Symbol("+"), Dates!Number(4, 1400)>>,
        Noon - 50400, TRUE)}

\* Forms in which a year may also be a time: read, or refused.
NamedForms(t) ==
  {Form(<<Dates!Month(t.month), Sp, Short(t.day), Dates!Symbol(","), Sp, Four(t.year)>>, 0, FALSE),
   Form(<<Short(t.day), Dates!Suffix, Sp, Dates!Month(t.month), Sp, Four(t.year)>>, 0, FALSE),
   Form(<<Dates!Month(t.month), Sp, Short(t.day), Sp, Four(t.year), Sp, Two(12), Dates!Symbol(":"), Two(5), Sp,
          Dates!Meridian(0)>>, 300, FALSE),
   Form(<<Four(ISOWeek(t).year), Dash, Dates!LetterW, Two(ISOWeek(t).week), Dash,
          Dates!Number(1, ISOWeek(t).day)>>, 0, FALSE)}

\* Day 4 of week 53, whether the year has one or not.
Week53Form(year) == <<Four(year), Dash, Dates!LetterW, Two(53), Dash, Dates!Number(1, 4)>>

Meant(t, form) ==
  [day |-> Dates!FixedFromGregorian(t) + form.second \div 86400, second |-> form.second % 86400,
   zoned |-> form.zoned]

-----------------------------------------------------------------------------
WeekCases == [law : {"week"}, year : {1976, 1977, 1981, 1992, 1993, 1998, 1999}]

Answered(texts, answers) == [text : texts, answers : {answers}]

\* What is read, with the answers that are right.
Readings(t) ==
  UNION {Answered({form.text}, {Meant(t, form)}) : form \in SureForms(t)}
    \cup UNION {Answered({form.text}, {Dates!NoDay, Meant(t, form)}) : form \in NamedForms(t)}

DaysOfWeek53(year) ==
  {Meant(t, Form(<< >>, 0, FALSE)) :
     t \in {t \in Dates!Dates(year) : ISOWeek(t) = [year |-> year, week |-> 53, day |-> 4]}}

WeekReadings(year, days) ==
  Answered({Week53Form(year)}, IF days = {} THEN {Dates!NoDay} ELSE days)

DateLaw == {"division", "year", "date", "week"}
DateHolds(c) ==
  CASE c.law = "division" -> Dates!DivisionFloors(c.x)
    [] c.law = "year" -> Dates!DatesInvert(c.year) /\ (c.year > 0 => Dates!YearsAlike(c.year, 2037))
    [] c.law \in {"date", "week"} ->
         \A r \in IF c.law = "date" THEN Readings(c.date) ELSE WeekReadings(c.year, DaysOfWeek53(c.year)) :
           Dates!ParseDate(r.text) \in r.answers

DateLaws == <<WeekCases, YearCases, DivisionCases, DateCases>>

-----------------------------------------------------------------------------
(* Cases of lists.                                                         *)

Texts(chars, n) == UNION {[1 .. k -> chars] : k \in 0 .. n}

WordCases ==
  [law : {"words"}, s : Texts({" ", "a", "b"}, 4), sep : {L!Blank}]
    \cup [law : {"words"}, s : Texts({" ", "a", "|"}, 4), sep : {<<"|">>}]
    \cup [law : {"words"}, s : Texts({"a", "|"}, 6), sep : {<<"|", "|">>}]

SomeLists == {L!arr2list(words, L!Blank) : words \in Texts({<<"a">>, <<"b">>, <<"c">>}, 3)}
SetCases == [law : {"sets"}, s : SomeLists]

ShuffleCases == [law : {"shuffle"}, n : 1 .. 4]
ChooseCases == [law : {"choose"}, weights : Texts(0 .. 2, 3)]

\* Every comparison of three elements, and every order of four.
SortCases ==
  [law : {"sort"}, n : {3}, less : SUBSET {p \in (1 .. 3) \X (1 .. 3) : p[1] # p[2]}]
    \cup [law : {"sort"}, n : {4},
          less : {{p \in (1 .. 4) \X (1 .. 4) : rank[p[1]] < rank[p[2]]} : rank \in [1 .. 4 -> 1 .. 3]}]

MungeCases == [law : {"munge"}, words : Texts({<<"a">>, <<"b">>}, 3) \ {<< >>}]

\* Every pattern of up to four characters, and every text of up to three.
WildCases == [law : {"wild"}, pattern : Texts({"a", "b", "*", "?", W!Escape}, 4)]

ListLaw == {"words", "sets", "shuffle", "choose", "sort", "munge", "wild"}
ListHolds(c) ==
  CASE c.law = "words" ->
         /\ L!WordsAgree(c.s, c.sep)
         /\ (Len(c.sep) = 1 => L!ItemsRight(c.s, <<"c">>, c.sep))
         /\ \A t \in {<<"a">>, <<"b", " ", "a">>} : L!WordsLeave(c.s, t, <<"a">>, c.sep)
    [] c.law = "sets" -> L!StepsMix(c.s) /\ \A t \in SomeLists : L!SetsExact(c.s, t, L!Blank)
    [] c.law = "shuffle" -> L!ShuffleFair(c.n)
    [] c.law = "choose" -> L!ChooseFair(c.weights)
    [] c.law = "sort" -> L!SortSafe(c.n, c.less)
    [] c.law = "wild" -> \A d \in Texts({"a", "A", "*"}, 3) : W!WildRight(c.pattern, d)
    [] c.law = "munge" ->
         L!MungePairs(c.words, SubSeq(<< <<"a">>, <<"b">>, <<"c">> >>, 1, Len(c.words)))

ListLaws == <<WordCases, SetCases, ShuffleCases, ChooseCases, SortCases, MungeCases, WildCases>>

-----------------------------------------------------------------------------
(* Cases of locks.                                                         *)

Reader == [things |-> {1, 2}, attrs |-> {"vip"}, God |-> FALSE]

Thing(n) == [type |-> "const", thing |-> n]
Leaves == {Thing(1), Thing(2), [type |-> "atr", thing |-> "vip", val |-> "yes"]}
Marked == [type : {"is", "carry", "owner", "indir"}, sub1 : {Thing(1)}]
            \cup [type : {"is"}, sub1 : {[type |-> "atr", thing |-> "vip", val |-> "yes"]}]
Nots(S) == [type : {"not"}, sub1 : S]
Pairs(S) == [type : {"and", "or"}, sub1 : S, sub2 : S]
Trees == LET small == Leaves \cup Nots(Leaves) \cup Pairs(Leaves)
         IN Marked \cup Nots(Marked) \cup Pairs(Leaves \cup Marked) \cup Nots(small) \cup Pairs(small)

TreeCases == [law : {"kept"}, tree : Trees]

\* How the texts begin that are read; up to three tokens follow.
Tokens == {K!Ref(1), K!Ref(2), K!Op("!"), K!Op("&"), K!Op("|"), K!Op("("), K!Op(")")}
TextCases == [law : {"precedence"}, text : [1 .. 2 -> Tokens]]

\* Locks of three objects that refer to each other.
LockTexts ==
  {<< >>, <<K!Ref(1)>>, <<K!Ref(3)>>, <<K!Op("@"), K!Ref(1)>>, <<K!Op("@"), K!Ref(2)>>,
   <<K!Op("!"), K!Op("@"), K!Ref(2)>>, <<K!Op("@"), K!Ref(1), K!Op("|"), K!Op("@"), K!Ref(2)>>,
   <<K!Op("@"), K!Ref(2), K!Op("&"), K!Atr(":", "vip", "yes", FALSE)>>, <<K!Atr("/", "vip", "yes", FALSE)>>,
   <<K!Op("@"), K!Op("("), K!Op("!"), K!Ref(2), K!Op(")")>>}
LockedCases == [law : {"indirection"}, lock : [1 .. 3 -> LockTexts]]

Vip == [vip |-> "yes"]
NotVip == [vip |-> ""]
Door == [player |-> 1, contents |-> {2}, reader |-> [Reader EXCEPT !.things = 1 .. 3], owner |-> <<1, 1, 2>>,
         seen |-> {<<1, "vip">>}, value |-> <<Vip, NotVip, NotVip>>, softcode |-> <<Vip, NotVip, NotVip>>,
         lock_nest_lim |-> 5, isPlayer |-> TRUE, keys |-> {3}, Pass_Locks |-> FALSE]
Behind(lock) == [lock |-> lock] @@ Door

LockLaw == {"kept", "precedence", "indirection"}
LockHolds(c) ==
  CASE c.law = "kept" -> K!StoredLockKept(c.tree, Reader)
    [] c.law = "precedence" ->
         \A rest \in Texts(Tokens, 3) :
           K!PrecedenceRight(c.text \o rest, [Door EXCEPT !.reader = Reader])
    [] c.law = "indirection" -> K!IndirectionRight(Behind(c.lock))

LockLaws == <<TreeCases, TextCases, LockedCases>>
=============================================================================
