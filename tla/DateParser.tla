----------------------------- MODULE DateParser -----------------------------
(***************************************************************************)
(* ParseDate (timeutil.cpp): a date in any of many forms, read by narrowing*)
(* down what each token could be.  A token is a record [could, kind, text, *)
(* digits, value]: could is the set of the meanings it may still have, and *)
(* digits how many a number was written with.                              *)
(***************************************************************************)
EXTENDS Calendar, Sequences, FiniteSets

LOCAL INSTANCE SequencesExt
LOCAL INSTANCE FiniteSetsExt

Token(kind, text, digits, value, could) ==
  [kind |-> kind, text |-> text, digits |-> digits, value |-> value, could |-> could]

\* Beyond either end of the list.
Nothing == Token("none", "", 0, 0, {})

-----------------------------------------------------------------------------
(* Meanings.                                                               *)

YearLike == {"YEAR", "YD", "YMD", "MDY", "DMY"}
WholeDates == {"YMD", "MDY", "DMY"}
Hours == {"HOUR_TIME", "HMS_TIME"}
ZoneHours == {"HOUR_TIMEZONE", "HMS_TIMEZONE"}
Separable == {"YEAR", "MONTH", "DAY_OF_MONTH", "DAY_OF_YEAR", "WEEK_OF_YEAR", "DAY_OF_WEEK"}
TimeLike == Hours \cup ZoneHours \cup {"TIMEZONE", "MINUTE", "SECOND", "SUBSECOND", "MERIDIAN"}
DateLike == YearLike \cup Separable \cup {"WEEK_OF_YEAR_PREFIX"}

\* By the number of digits.
InitialCouldBe ==
  <<{"YEAR", "MONTH", "DAY_OF_MONTH", "DAY_OF_WEEK", "SUBSECOND"} \cup Hours \cup ZoneHours,
    {"YEAR", "MONTH", "DAY_OF_MONTH", "WEEK_OF_YEAR", "MINUTE", "SECOND", "SUBSECOND"} \cup Hours \cup ZoneHours,
    {"YEAR", "HMS_TIME", "HMS_TIMEZONE", "DAY_OF_YEAR", "SUBSECOND"},
    {"YEAR", "HMS_TIME", "HMS_TIMEZONE", "YD", "SUBSECOND"},
    {"YEAR", "HMS_TIME", "HMS_TIMEZONE", "YD", "SUBSECOND"},
    {"HMS_TIME", "HMS_TIMEZONE", "YMD", "MDY", "DMY", "YD", "SUBSECOND"},
    {"YMD", "YD", "SUBSECOND"}, {"YMD", "YD"}, {"YMD"}>>

\* The last two, four or three digits of v.
Low(v, k) == v % 10 ^ k
High(v, k) == v \div 10 ^ k

IsMonth(v) == v \in 1 .. 12
IsDay(v) == v \in 1 .. 31
IsClock(n, v) ==
  CASE n <= 2 -> v \in 0 .. 24
    [] n \in {3, 4} -> High(v, 2) \in 0 .. 24 /\ Low(v, 2) <= 59
    [] n \in {5, 6} -> High(v, 4) \in 0 .. 24 /\ High(Low(v, 4), 2) <= 59 /\ Low(v, 2) <= 59
    [] OTHER -> FALSE

\* Whether a number v written with n digits can be what the meaning says.
Valid(meaning, n, v) ==
  CASE meaning = "MONTH" -> IsMonth(v)
    [] meaning = "DAY_OF_MONTH" -> IsDay(v)
    [] meaning = "DAY_OF_YEAR" -> v \in 1 .. 366
    [] meaning = "WEEK_OF_YEAR" -> v \in 1 .. 53
    [] meaning = "DAY_OF_WEEK" -> v \in 1 .. 7
    [] meaning \in {"HMS_TIME", "HMS_TIMEZONE"} -> IsClock(n, v)
    [] meaning = "YMD" -> IsMonth(High(Low(v, 4), 2)) /\ IsDay(Low(v, 2))
    [] meaning = "MDY" -> IsMonth(High(v, 4)) /\ IsDay(High(Low(v, 4), 2))
    [] meaning = "DMY" -> IsDay(High(v, 4)) /\ IsMonth(High(Low(v, 4), 2))
    [] meaning = "YD" -> Low(v, 3) \in 1 .. 366
    [] meaning \in {"HOUR_TIME", "HOUR_TIMEZONE"} -> v \in 0 .. 24
    [] meaning \in {"MINUTE", "SECOND"} -> v <= 59
    [] OTHER -> TRUE

-----------------------------------------------------------------------------
(* Tokens.                                                                 *)

\* A number of more than nine digits could be nothing.
Number(n, v) ==
  Token("number", "", n, v,
        IF n > 9 THEN {} ELSE {m \in InitialCouldBe[n] : Valid(m, n, v)})

Symbol(c) ==
  Token("symbol", c, 1, 0,
        CASE c = ":" -> {"TIME_FIELD_SEPARATOR"}
          [] c = "-" -> {"DATE_FIELD_SEPARATOR", "SIGN"}
          [] c = "+" -> {"SIGN"}
          [] c = "/" -> {"DATE_FIELD_SEPARATOR"}
          [] c = "." -> {"DATE_FIELD_SEPARATOR", "SECONDS_DECIMAL"}
          [] c = "," -> {"REMOVEABLE", "SECONDS_DECIMAL", "DAY_OF_MONTH_SUFFIX"})

Spaces == Token("spaces", " ", 1, 0, {"WHITESPACE"})

\* Words of PD_TextTable; the letters and names of zones that are like these are left out.
Month(m) == Token("text", "month", 3, m, {"MONTH"})
Weekday(d) == Token("text", "weekday", 3, d, {"DAY_OF_WEEK"})
ZoneName(hhmm) == Token("text", "zone", 3, hhmm, {"TIMEZONE"})
LetterT == Token("text", "t", 1, -700, {"DATE_TIME_SEPARATOR", "TIMEZONE"})
LetterW == Token("text", "w", 1, -1000, {"WEEK_OF_YEAR_PREFIX", "TIMEZONE"})
Suffix == Token("text", "th", 2, 0, {"DAY_OF_MONTH_SUFFIX"})
Meridian(h) == Token("text", "meridian", 2, h, {"MERIDIAN"})

-----------------------------------------------------------------------------
(* Passes.  PD_Pass2 and PD_Pass5 go over the list once and look at the    *)
(* neighbours of a token: prev is the last that was kept, next what comes. *)

As(token, could) == [token EXCEPT !.could = could]
Less(token, out) == As(token, token.could \ out)
Only(token, in) == As(token, token.could \cap in)
Has(token, in) == token.could \cap in # {}

Prev(done) == IF done = << >> THEN Nothing ELSE Last(done)
Next_(rest) == IF Len(rest) < 2 THEN Nothing ELSE rest[2]

\* What a colon, a decimal point, a separator, a suffix and a sign say of the tokens around
\* them, in this order; s is [prev, node, next].
ByColon(s) ==
  LET hours == {"HOUR_TIME", "HOUR_TIMEZONE"}
      node == As(s.node, {"REMOVEABLE"})
  IN IF ~Has(s.node, {"TIME_FIELD_SEPARATOR"}) THEN s
     ELSE IF Has(s.prev, hours) /\ Has(s.next, {"MINUTE"})
     THEN [prev |-> Only(s.prev, hours), node |-> node, next |-> As(s.next, {"MINUTE"})]
     ELSE IF Has(s.prev, {"MINUTE"}) /\ Has(s.next, {"SECOND"})
     THEN [prev |-> As(s.prev, {"MINUTE"}), node |-> node, next |-> As(s.next, {"SECOND"})]
     ELSE [s EXCEPT !.node = node]

ByDecimal(s) ==
  IF ~Has(s.node, {"SECONDS_DECIMAL"}) THEN s
  ELSE [prev |-> s.prev, node |-> As(s.node, {"REMOVEABLE"}),
        next |-> IF s.prev.could = {"SECOND"} /\ Has(s.next, {"SUBSECOND"})
                 THEN As(s.next, {"SUBSECOND"}) ELSE s.next]

BySubsecond(s) ==
  IF s.node.could = {"SUBSECOND"} THEN s ELSE [s EXCEPT !.node = Less(@, {"SUBSECOND"})]

BySeparator(s) ==
  IF ~Has(s.node, {"DATE_FIELD_SEPARATOR"}) THEN s
  ELSE IF Has(s.prev, Separable) /\ Has(s.next, Separable)
  THEN [prev |-> Only(s.prev, Separable), node |-> As(s.node, {"REMOVEABLE"}),
        next |-> Only(s.next, Separable)]
  ELSE [s EXCEPT !.node = Less(@, {"DATE_FIELD_SEPARATOR"})]

BySuffix(s) ==
  IF ~Has(s.node, {"DAY_OF_MONTH_SUFFIX"}) THEN s
  ELSE [s EXCEPT !.node = As(@, {"REMOVEABLE"}),
                 !.prev = IF Has(@, {"DAY_OF_MONTH"}) THEN As(@, {"DAY_OF_MONTH"}) ELSE @]

BySign(s) ==
  LET signable == {"HMS_TIME", "HMS_TIMEZONE"} \cup
                  (IF s.node.text = "-" THEN {"YEAR", "YD", "YMD"} ELSE {})
  IN IF s.node.could # {"SIGN"} THEN s
     ELSE IF Has(s.next, signable) THEN [s EXCEPT !.next = Only(@, signable)]
     ELSE [s EXCEPT !.node = As(@, {"REMOVEABLE"})]

\* Mutant: hours without a sign may be a zone.
SignedHours_Any(s) ==
  [s EXCEPT !.node = Less(@, IF s.prev.could = {"SIGN"} THEN Hours ELSE {})]

\* Hours with a sign belong to a zone, others do not.
SignedHours(s) ==
  [s EXCEPT !.node = Less(@, IF s.prev.could = {"SIGN"} THEN Hours ELSE ZoneHours)]

RECURSIVE Pass2(_, _)
Pass2(done, rest) ==
  LET s == SignedHours(BySign(BySuffix(BySeparator(BySubsecond(ByDecimal(ByColon(
             [prev |-> Prev(done), node |-> rest[1], next |-> Next_(rest)])))))))
      kept == IF done = << >> THEN << >> ELSE [done EXCEPT ![Len(done)] = s.prev]
  IN IF rest = << >> THEN done
     ELSE Pass2(IF Has(s.node, {"WHITESPACE", "REMOVEABLE"}) THEN kept ELSE Append(kept, s.node),
                IF Len(rest) < 2 THEN << >> ELSE <<s.next>> \o SubSeq(rest, 3, Len(rest)))

PD_Pass2(list) == Pass2(<< >>, list)

\* What no other token can be when one is c; {} for a c that says nothing of others.
CantBe(c) ==
  CASE c = {"YEAR"} -> YearLike
    [] c = {"MONTH"} \/ c = {"DAY_OF_MONTH"} ->
         c \cup {"WEEK_OF_YEAR", "DAY_OF_YEAR", "YD", "WEEK_OF_YEAR_PREFIX"} \cup WholeDates
    [] c = {"DAY_OF_WEEK"} -> c
    [] c = {"WEEK_OF_YEAR"} -> {"WEEK_OF_YEAR", "MONTH", "DAY_OF_MONTH"} \cup WholeDates
    [] c = {"DAY_OF_YEAR"} ->
         {"DAY_OF_YEAR", "MONTH", "DAY_OF_MONTH", "WEEK_OF_YEAR", "WEEK_OF_YEAR_PREFIX"} \cup WholeDates
    [] c = {"YD"} ->
         YearLike \cup {"MONTH", "DAY_OF_MONTH", "WEEK_OF_YEAR", "WEEK_OF_YEAR_PREFIX"}
    [] c # {} /\ c \subseteq WholeDates ->
         YearLike \cup {"MONTH", "DAY_OF_MONTH", "WEEK_OF_YEAR_PREFIX", "WEEK_OF_YEAR", "DAY_OF_YEAR"}
    [] c \in {{"TIMEZONE"}, {"HOUR_TIMEZONE"}, {"HMS_TIMEZONE"}} -> ZoneHours \cup {"TIMEZONE"}
    [] c \in {{"HOUR_TIME"}, {"HMS_TIME"}} -> Hours
    [] OTHER -> {}

PD_Deduction(list) ==
  FoldLeft(LAMBDA l, i : [j \in DOMAIN l |-> IF j = i THEN l[j] ELSE Less(l[j], CantBe(l[i].could))],
           list, [i \in DOMAIN list |-> i])

\* The last k digits of a token, and the others.
Ends(t, k, could) == [t EXCEPT !.digits = k, !.value = Low(@, k), !.could = could]
Starts(t, k, could) == [t EXCEPT !.digits = @ - k, !.value = High(@, k), !.could = could]

\* A number that is several fields becomes as many tokens.
BrokenDown(t) ==
  LET Three(a, b, c) == <<Starts(t, 4, {a}), Ends(Starts(t, 2, {}), 2, {b}), Ends(t, 2, {c})>>
      Clock(hour) == CASE t.digits <= 2 -> <<As(t, {hour})>>
                       [] t.digits \in {3, 4} -> <<Starts(t, 2, {hour}), Ends(t, 2, {"MINUTE"})>>
                       [] OTHER -> Three(hour, "MINUTE", "SECOND")
  IN CASE t.could = {"HMS_TIME"} -> Clock("HOUR_TIME")
       [] t.could = {"HMS_TIMEZONE"} -> Clock("HOUR_TIMEZONE")
       [] t.could = {"YD"} -> <<Starts(t, 3, {"YEAR"}), Ends(t, 3, {"DAY_OF_YEAR"})>>
       [] t.could = {"YMD"} -> Three("YEAR", "MONTH", "DAY_OF_MONTH")
       [] t.could = {"MDY"} -> Three("MONTH", "DAY_OF_MONTH", "YEAR")
       [] t.could = {"DMY"} -> Three("DAY_OF_MONTH", "MONTH", "YEAR")
       [] OTHER -> <<t>>

PD_BreakItDown(list) == FlattenSeq([i \in DOMAIN list |-> BrokenDown(list[i])])

-----------------------------------------------------------------------------
\* Mutant: a day of the month may follow the year.
Follows_DayAfterYear(prev, node) ==
  Less(node, (IF Has(prev, {"HOUR_TIME", "HOUR_TIMEZONE"}) THEN {} ELSE {"MINUTE"})
             \cup (IF Has(prev, {"MINUTE"}) THEN {} ELSE {"SECOND"}))

\* A minute follows an hour, a second a minute, and no day of the month a year.
Follows(prev, node) ==
  Less(node, (IF Has(prev, {"HOUR_TIME", "HOUR_TIMEZONE"}) THEN {} ELSE {"MINUTE"})
             \cup (IF Has(prev, {"MINUTE"}) THEN {} ELSE {"SECOND"})
             \cup (IF prev.could = {"YEAR"} THEN {"DAY_OF_MONTH"} ELSE {}))

OnlyHour(t) ==
  CASE t.could = Hours -> As(t, {"HOUR_TIME"})
    [] t.could = ZoneHours -> As(t, {"HOUR_TIMEZONE"})
    [] OTHER -> t

\* seen and maybe: an hour has come, or a token that could be one.
RECURSIVE Pass5(_, _, _, _)
Pass5(done, rest, seen, maybe) ==
  LET followed == Follows(Prev(done), OnlyHour(rest[1]))
      timed == Less(followed, (IF maybe THEN {} ELSE {"TIMEZONE"})
                              \cup (IF seen THEN {"DATE_TIME_SEPARATOR"} ELSE {}))
      splits == timed.could = {"DATE_TIME_SEPARATOR"}
      tail == [i \in 1 .. Len(rest) - 1 |-> IF splits THEN Less(rest[i + 1], DateLike) ELSE rest[i + 1]]
      prefixes == Has(timed, {"WEEK_OF_YEAR_PREFIX"}) /\ tail # << >> /\ Has(tail[1], {"WEEK_OF_YEAR"})
      node == IF splits \/ prefixes \/ timed.could = {"WEEK_OF_YEAR_PREFIX"}
              THEN As(timed, {"REMOVEABLE"}) ELSE timed
      head == [i \in DOMAIN done |-> IF splits THEN Less(done[i], TimeLike) ELSE done[i]]
  IN IF rest = << >> THEN done
     ELSE Pass5(IF Has(node, {"REMOVEABLE"}) THEN head ELSE Append(head, node),
                IF prefixes THEN [tail EXCEPT ![1] = As(@, {"WEEK_OF_YEAR"})] ELSE tail,
                seen \/ (node.could # {} /\ node.could \subseteq Hours),
                maybe \/ Has(node, Hours))

PD_Pass5(list) == Pass5(<< >>, list, FALSE, FALSE)

\* A field that only one token can give is that token.
PD_Pass6(list) ==
  LET count(in) == Cardinality({i \in DOMAIN list : Has(list[i], in)})
      year == count(YearLike)
      month == count({"MONTH"} \cup WholeDates)
      day == count({"DAY_OF_MONTH"} \cup WholeDates)
      week == count({"WEEK_OF_YEAR"}) = 1 /\ count({"DAY_OF_WEEK"}) = 1
      yearDay == count({"DAY_OF_YEAR", "YD"}) = 1
      byMonth == month = 1 /\ day = 1 /\ ~week /\ ~yearDay
      byYearDay == ~byMonth /\ yearDay /\ ~week
      byWeek == ~byMonth /\ ~byYearDay /\ week
      only == (IF year = 1 THEN YearLike ELSE {})
              \cup (IF count(Hours) = 1 THEN Hours ELSE {})
              \cup (IF byMonth THEN {"MONTH", "DAY_OF_MONTH"} \cup WholeDates ELSE {})
              \cup (IF byYearDay THEN {"DAY_OF_YEAR", "YD"} ELSE {})
              \cup (IF byWeek THEN {"WEEK_OF_YEAR", "DAY_OF_WEEK"} ELSE {})
      cantBe == (IF month = 0 \/ day = 0 THEN {"MONTH", "DAY_OF_MONTH"} ELSE {})
                \cup (IF count({"DAY_OF_WEEK"}) = 0 THEN {"WEEK_OF_YEAR"} ELSE {})
                \cup (IF byMonth THEN {"WEEK_OF_YEAR", "YD"} ELSE {})
                \cup (IF byYearDay THEN {"WEEK_OF_YEAR", "MONTH", "DAY_OF_MONTH"} \cup WholeDates ELSE {})
                \cup (IF byWeek THEN {"YD", "MONTH", "DAY_OF_MONTH"} \cup WholeDates ELSE {})
      forced(t) == IF Has(t, only) THEN Only(t, only) ELSE t
      left(t) == IF t.could \ cantBe # {} THEN Less(t, cantBe) ELSE t
  IN [i \in DOMAIN list |-> left(forced(list[i]))]

-----------------------------------------------------------------------------
(* Fields: a function on the names of those that are there.                *)

With(fields, name, v) == [f \in DOMAIN fields \cup {name} |-> IF f = name THEN v ELSE fields[f]]

Signed(list, i, v) ==
  IF i > 1 /\ list[i - 1].could = {"SIGN"} /\ list[i - 1].text = "-" THEN -v ELSE v

\* Fields that are read one at a time.
Single == {"YEAR", "DAY_OF_YEAR", "MONTH", "DAY_OF_MONTH", "WEEK_OF_YEAR", "DAY_OF_WEEK"}

Bad == [bad |-> TRUE]

RECURSIVE GetFields(_, _, _)
GetFields(list, i, fields) ==
  LET could == list[i].could
      v == list[i].value
      Is(k, meaning) == k <= Len(list) /\ list[k].could = {meaning}
      minute == Is(i + 1, "MINUTE")
      second == minute /\ Is(i + 2, "SECOND")
      part == second /\ Is(i + 3, "SUBSECOND")
      after == i + 1 + (IF minute THEN 1 ELSE 0) + (IF second THEN 1 ELSE 0) + (IF part THEN 1 ELSE 0)
      meridian == Is(after, "MERIDIAN")
      clock == [HOUR |-> IF meridian THEN (IF v = 12 THEN 0 ELSE v) + list[after].value ELSE v,
                MINUTE |-> IF minute THEN list[i + 1].value ELSE 0,
                SECOND |-> IF second THEN list[i + 2].value ELSE 0]
      zone == Signed(list, i, v * 60 + (IF minute THEN list[i + 1].value ELSE 0))
      named == 60 * Quot(v, 100) + Rem(v, 100)
  IN IF i > Len(list) THEN fields
     ELSE IF could = {"YEAR"} THEN GetFields(list, i + 1, With(fields, "YEAR", Signed(list, i, v)))
     ELSE IF \E m \in Single : could = {m}
     THEN GetFields(list, i + 1, With(fields, CHOOSE m \in Single : could = {m}, v))
     ELSE IF could = {"HOUR_TIME"}
     THEN GetFields(list, after + (IF meridian THEN 1 ELSE 0), With(fields, "CLOCK", clock))
     ELSE IF could = {"HOUR_TIMEZONE"}
     THEN GetFields(list, i + 1 + (IF minute THEN 1 ELSE 0), With(fields, "ZONE", zone))
     ELSE IF could = {"TIMEZONE"} THEN GetFields(list, i + 1, With(fields, "ZONE", named))
     ELSE IF Has(list[i], {"SIGN", "DATE_TIME_SEPARATOR"}) THEN GetFields(list, i + 1, fields)
     ELSE Bad

\* Mutant: every year may have a week 53.
Week53_Always(g) == TRUE

\* Whether a day of week 53 is of a year that has one; the day as a date, 0 for Sunday.
Week53(g) ==
  LET j == g.day - (IF g.dayOfWeek = 0 THEN 7 ELSE g.dayOfWeek)
  IN IF g.month = 12 THEN j < 28 ELSE j < -3

\* The day, from 1 January 1, that the fields name; NoDay when they do not.
NoDay == [none |-> TRUE]

DayOf(fields) ==
  LET has(in) == in \subseteq DOMAIN fields
      date == [year |-> fields["YEAR"], month |-> fields["MONTH"], day |-> fields["DAY_OF_MONTH"]]
      before == FixedFromGregorian([year |-> fields["YEAR"] - 1, month |-> 12, day |-> 27])
      sunday == before - iMod(before - Epoch + 1, 7)
      weekDay == sunday + 7 * fields["WEEK_OF_YEAR"] + fields["DAY_OF_WEEK"]
  IN IF ~has({"YEAR"}) THEN NoDay
     ELSE IF has({"MONTH", "DAY_OF_MONTH"})
     THEN IF isValidDate(date) THEN [day |-> FixedFromGregorian(date)] ELSE NoDay
     ELSE IF has({"DAY_OF_YEAR"})
     THEN [day |-> FixedFromGregorian([year |-> fields["YEAR"], month |-> 1, day |-> 1])
                   + fields["DAY_OF_YEAR"] - 1]
     ELSE IF has({"WEEK_OF_YEAR", "DAY_OF_WEEK"})
     THEN IF fields["WEEK_OF_YEAR"] = 53 /\ ~Week53(GregorianFromFixed(weekDay)) THEN NoDay
          ELSE [day |-> weekDay]
     ELSE NoDay

\* A day and its seconds, which a zone moves.
ConvertAllFieldsToLinearTime(fields) ==
  LET c == fields["CLOCK"]
      clock == IF "CLOCK" \in DOMAIN fields THEN 3600 * c.HOUR + 60 * c.MINUTE + c.SECOND ELSE 0
      zone == IF "ZONE" \in DOMAIN fields THEN 60 * fields["ZONE"] ELSE 0
      seconds == clock - zone
  IN [day |-> DayOf(fields).day + iFloorDivision(seconds, 86400), second |-> iMod(seconds, 86400),
      zoned |-> "ZONE" \in DOMAIN fields]

Round(list) == PD_Pass6(PD_Pass5(PD_BreakItDown(PD_Deduction(list))))

DateOf(fields) ==
  IF fields = Bad \/ DayOf(fields) = NoDay THEN NoDay ELSE ConvertAllFieldsToLinearTime(fields)

ParseDate(list) == DateOf(GetFields(Round(Round(PD_Pass2(list))), 1, << >>))
=============================================================================
