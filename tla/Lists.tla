--------------------------------- MODULE Lists ---------------------------------
(***************************************************************************)
(* Lists of words as softcode has them (functions.cpp, funceval.cpp): a    *)
(* text that a separator divides.  A text is a sequence of characters, a   *)
(* separator a text of one character or more.                              *)
(***************************************************************************)
EXTENDS Integers, Sequences, SequencesExt, FiniteSets, FiniteSetsExt

\* The characters of the models, as strcmp orders them; NUL ends a text.
ASCII == <<"NUL", " ", "a", "b", "c", "|">>
Rank(c) == CHOOSE i \in DOMAIN ASCII : ASCII[i] = c

Blank == <<" ">>

\* strcmp(s, t) < 0.
Before(s, t) ==
  \/ Len(s) < Len(t) /\ s = SubSeq(t, 1, Len(s))
  \/ \E i \in DOMAIN s \cap DOMAIN t :
       SubSeq(s, 1, i - 1) = SubSeq(t, 1, i - 1) /\ Rank(s[i]) < Rank(t[i])

\* Where the first copy of a text starts, 0 for nowhere (strstr).
StrStr(s, pat) ==
  LET at == {i \in 1 .. Len(s) - Len(pat) + 1 : SubSeq(s, i, i + Len(pat) - 1) = pat}
  IN IF at = {} THEN 0 ELSE Min(at)

From(s, i) == SubSeq(s, i, Len(s))

\* The first place from i on that holds no blank.
PastBlanks(s, i) == Min({j \in i .. Len(s) : s[j] # " "} \cup {Len(s) + 1})

LastInk(s) == Max({i \in DOMAIN s : s[i] # " "} \cup {0})
TrimRight(s, sep) == IF sep = Blank THEN SubSeq(s, 1, LastInk(s)) ELSE s
trim_space_sep(s, sep) ==
  IF sep = Blank THEN SubSeq(s, PastBlanks(s, 1), LastInk(s)) ELSE s

-----------------------------------------------------------------------------
(* Words.                                                                  *)

\* Mutant: next_token without the second loop: two blanks hold an empty word.
Onward_One(s, i, sep) == i

\* Where the token after a separator starts.
Onward(s, i, sep) == IF sep = Blank THEN PastBlanks(s, i) ELSE i

\* The tokens that next_token or split_token finds one after the other, each with its place.
RECURSIVE TokensFrom(_, _, _)
TokensFrom(s, i, sep) ==
  LET cut == StrStr(From(s, i), sep)
  IN IF cut = 0 THEN <<[at |-> i, text |-> From(s, i)]>>
     ELSE <<[at |-> i, text |-> SubSeq(s, i, i + cut - 2)]>>
            \o TokensFrom(s, Onward(s, i + cut - 1 + Len(sep), sep), sep)
Tokens(s, sep) == TokensFrom(s, 1, sep)
split_token(s, sep) == [i \in DOMAIN Tokens(s, sep) |-> Tokens(s, sep)[i].text]

list2arr(s, sep) ==
  LET t == trim_space_sep(s, sep) IN IF t = << >> THEN << >> ELSE split_token(t, sep)

\* print_sep and safe_str of each (sep may be the empty text).
arr2list(words, sep) ==
  FoldLeftDomain(LAMBDA text, i : text \o (IF i = 1 THEN << >> ELSE sep) \o words[i], << >>, words)

countwords(s, sep) == Len(list2arr(s, sep))

fun_first(s, sep) == split_token(trim_space_sep(s, sep), sep)[1]
fun_last(s, sep) == Last(split_token(trim_space_sep(s, sep), sep))
fun_rest(s, sep) ==
  LET t == trim_space_sep(s, sep)
      words == Tokens(t, sep)
  IN IF Len(words) = 1 THEN << >> ELSE From(t, words[2].at)

fun_extract(s, start, len, sep, osep) ==
  LET t == trim_space_sep(s, sep)
      words == Tokens(t, sep)
  IN IF \/ start < 1 \/ len < 1 \/ start > Len(words)
        \/ From(t, words[start].at) = << >>
     THEN << >>
     ELSE arr2list([i \in 1 .. Min({len, Len(words) - start + 1}) |-> words[start + i - 1].text], osep)

\* Which word holds a place of the text, or the blanks before it; one more than there are
\* if none does.
fun_wordpos(s, charpos, sep) ==
  LET skipped == IF sep = Blank THEN PastBlanks(s, 1) - 1 ELSE 0
      words == Tokens(trim_space_sep(s, sep), sep)
  IN Min({i \in DOMAIN words : charpos < skipped + words[i].at + Len(words[i].text)}
         \cup {Len(words) + 1})

\* The words that a test lets pass (here a set of words), and where they stand.
MatchedPlaces(s, matched, sep) ==
  LET words == split_token(trim_space_sep(s, sep), sep)
  IN SelectSeq([i \in DOMAIN words |-> i], LAMBDA i : words[i] \in matched)

fun_member(s, word, sep) ==
  LET places == MatchedPlaces(s, {word}, sep) IN IF places = << >> THEN 0 ELSE places[1]

fun_elements(s, numbers, sep, osep) ==
  LET words == list2arr(s, sep)
      there == SelectSeq(numbers, LAMBDA n : n \in DOMAIN words)
  IN arr2list([i \in DOMAIN there |-> words[there[i]]], osep)

\* The first copy goes; leading blanks are an empty word here.
fun_remove(s, word, sep, osep) ==
  LET words == split_token(s, sep)
      copies == {i \in DOMAIN words : words[i] = word}
  IN arr2list(IF copies = {} THEN words ELSE RemoveAt(words, Min(copies)), osep)

-----------------------------------------------------------------------------
(* One word deleted, replaced or inserted (a separator of one character).  *)

\* The text that a trim has ended early: its trailing blanks follow a NUL.
Trimmed(s, sep) ==
  IF sep = Blank /\ LastInk(s) \in 1 .. Len(s) - 1 THEN [s EXCEPT ![LastInk(s) + 1] = "NUL"] ELSE s

\* Mutant: an insertion just past the end is refused like the others.
Overruns_Insert(flag, el, n) == el > n

\* The place is beyond the list; an insertion may stand at its end.
Overruns(flag, el, n) == el > n + (IF flag = "insert" THEN 1 ELSE 0)

do_itemfuns(flag, s, el, word, sep) ==
  LET t == trim_space_sep(s, sep)
      words == Tokens(t, sep)
      n == Len(words)
      After(i) == IF i < n THEN sep \o From(t, words[i + 1].at) ELSE << >>
      before == IF el = 1 THEN << >>
                ELSE SubSeq(t, 1, words[el - 1].at + Len(words[el - 1].text) - 1) \o sep
  IN IF s = << >> THEN IF flag = "insert" /\ el = 1 THEN word ELSE << >>
     ELSE IF el < 1 THEN s
     ELSE IF Overruns(flag, el, n) THEN Trimmed(s, sep)
     ELSE CASE flag = "delete" /\ el = 1 -> IF n = 1 THEN << >> ELSE From(t, words[2].at)
            [] flag = "delete" /\ el > 1 -> SubSeq(before, 1, Len(before) - Len(sep)) \o After(el)
            [] flag = "replace" -> before \o word \o After(el)
            [] flag = "insert" ->
                 before \o word \o (IF el > n THEN << >> ELSE sep \o words[el].text \o After(el))

\* Words that equal one word give way to those of a second list.
fun_splice(s, t, word, sep, osep) ==
  IF countwords(s, sep) # countwords(t, sep) THEN <<"unequal">>
  ELSE LET p == split_token(TrimRight(s, sep), sep)
           q == split_token(TrimRight(t, sep), sep)
       IN arr2list([i \in 1 .. countwords(s, sep) |-> IF p[i] = word THEN q[i] ELSE p[i]], osep)

-----------------------------------------------------------------------------
(* Lists as sets: two sorted arrays are merged.                            *)

asort(words) == SortSeq(words, Before)

RECURSIVE PastEqual(_, _)
PastEqual(words, old) ==
  IF words # << >> /\ old = <<words[1]>> THEN PastEqual(Tail(words), old) ELSE words

\* Mutant: what is left of a list is copied without a look at the last word.
StripRest_All(words, old) == words

\* The rest of a sorted list without what repeats.
RECURSIVE StripRest(_, _)
StripRest(words, old) ==
  IF words = << >> THEN << >>
  ELSE IF old = <<words[1]>> THEN StripRest(Tail(words), old)
  ELSE <<words[1]>> \o StripRest(Tail(words), <<words[1]>>)

RECURSIVE UnionOf(_, _, _)
UnionOf(p1, p2, old) ==
  LET a == PastEqual(p1, old)
      b == PastEqual(p2, old)
  IN IF a = << >> \/ b = << >> THEN StripRest(a \o b, old)
     ELSE IF Before(a[1], b[1]) THEN <<a[1]>> \o UnionOf(Tail(a), b, <<a[1]>>)
     ELSE <<b[1]>> \o UnionOf(a, Tail(b), <<b[1]>>)

RECURSIVE InterOf(_, _)
InterOf(a, b) ==
  IF a = << >> \/ b = << >> THEN << >>
  ELSE IF a[1] = b[1] THEN <<a[1]>> \o InterOf(PastEqual(a, <<a[1]>>), PastEqual(b, <<a[1]>>))
  ELSE IF Before(a[1], b[1]) THEN InterOf(Tail(a), b) ELSE InterOf(a, Tail(b))

RECURSIVE DiffOf(_, _)
DiffOf(a, b) ==
  IF a = << >> THEN << >>
  ELSE IF b = << >> \/ Before(a[1], b[1]) THEN <<a[1]>> \o DiffOf(PastEqual(a, <<a[1]>>), b)
  ELSE IF a[1] = b[1] THEN DiffOf(PastEqual(a, <<a[1]>>), PastEqual(b, <<a[1]>>))
  ELSE DiffOf(a, PastEqual(b, <<b[1]>>))

handle_sets(oper, s, t, sep, osep) ==
  LET a == asort(list2arr(s, sep))
      b == asort(list2arr(t, sep))
  IN arr2list(CASE oper = "union" -> UnionOf(a, b, << >>)
                [] oper = "intersect" -> InterOf(a, b)
                [] oper = "diff" -> DiffOf(a, b), osep)

-----------------------------------------------------------------------------
(* Chance: what each outcome of the generator leads to.                    *)

Swapped(s, i, j) == [s EXCEPT ![i] = s[j], ![j] = s[i]]

\* Mutant: any place may be chosen, not only those that are left.
ShuffleRange_All(i, n) == 1 .. n

\* The numbers that the generator may return for place i of n.
ShuffleRange(i, n) == i .. n

ShuffleChoices(n) == {js \in [1 .. n - 1 -> 1 .. n] : \A i \in 1 .. n - 1 : js[i] \in ShuffleRange(i, n)}
fun_shuffle(words, js) ==
  FoldLeftDomain(LAMBDA s, i : Swapped(s, i, js[i]), words, js)

\* Where the numbers of an item end; an item of no weight has none.
Breakpoint(weights, i) ==
  IF weights[i] = 0 THEN 0 ELSE FoldLeft(LAMBDA sum, w : sum + w, 0, SubSeq(weights, 1, i))

\* Mutant: the break point itself is the item's too.
Falls_On(num, point) == point # 0 /\ num <= point

Falls(num, point) == point # 0 /\ num < point

\* The item chosen, by its place, 0 for none.
fun_choose(weights, num) ==
  LET over == {i \in DOMAIN weights : Falls(num, Breakpoint(weights, i))}
  IN IF over = {} THEN 0 ELSE Min(over)

-----------------------------------------------------------------------------
(* Sorting by a comparison of the player's, which may be no order at all.  *)
(* less holds the pairs for which the comparison returns less than zero.   *)

\* What is less than the pivot moves up behind it; then the pivot goes between.
Partition(array, left, right, less) ==
  LET Walk(s, i) == IF <<s.array[i], s.array[left]>> \in less
                    THEN [array |-> Swapped(s.array, s.last + 1, i), last |-> s.last + 1]
                    ELSE s
      walked == FoldLeft(Walk, [array |-> array, last |-> left],
                         [i \in 1 .. right - left |-> left + i])
  IN [walked EXCEPT !.array = Swapped(walked.array, walked.last, left)]

\* Mutant: the upper part starts with the pivot's neighbour but one.
UpperPart_Off(last) == last + 2

UpperPart(last) == last + 1

\* Every array that the choices of pivots can lead to.
RECURSIVE sane_qsort(_, _, _, _)
BothParts(cut, left, right, less) ==
  UNION {sane_qsort(lower, UpperPart(cut.last), right, less) :
           lower \in sane_qsort(cut.array, left, cut.last - 1, less)}
sane_qsort(array, left, right, less) ==
  IF right <= left THEN {array}
  ELSE UNION {BothParts(Partition(Swapped(array, left, i), left, right, less), left, right, less) :
                i \in left .. right}

-----------------------------------------------------------------------------
(* Lists handed to a function, a word or some words at a time.             *)

\* The arguments of each call that mix makes.
fun_mix(lists, sep) ==
  LET cp == [i \in DOMAIN lists |-> split_token(trim_space_sep(lists[i], sep), sep)]
      nwords == Max({countwords(lists[i], sep) : i \in DOMAIN lists})
  IN [wc \in 1 .. nwords |->
        [i \in DOMAIN lists |-> IF wc <= Len(cp[i]) THEN cp[i][wc] ELSE << >>]]

\* Mutant: a call takes one word more than the step.
StepEnd_Off(wc, step) == wc * step + 1

StepEnd(wc, step) == wc * step

\* The arguments of each call that step makes.
fun_step(s, step, sep) ==
  LET cp == split_token(trim_space_sep(s, sep), sep)
  IN [wc \in 1 .. (Len(cp) + step - 1) \div step |->
        SubSeq(cp, (wc - 1) * step + 1, Min({StepEnd(wc, step), Len(cp)}))]

\* Mutant: a word that was found is not struck out.
Struck_Not(words, j) == words

Struck(words, j) == [words EXCEPT ![j] = << >>]

\* The words of the second list, in the order that the results have in the first.
RECURSIVE Munged(_, _, _)
Munged(results, ptrs1, ptrs2) ==
  IF results = << >> THEN << >>
  ELSE LET found == {j \in DOMAIN ptrs1 : ptrs1[j] = results[1]}
       IN IF found = {} THEN Munged(Tail(results), ptrs1, ptrs2)
          ELSE <<ptrs2[Min(found)]>> \o Munged(Tail(results), Struck(ptrs1, Min(found)), ptrs2)
fun_munge(list1, list2, rlist, sep) ==
  LET ptrs1 == list2arr(list1, sep)
      ptrs2 == list2arr(list2, sep)
  IN IF Len(ptrs1) # Len(ptrs2) THEN <<"unequal">>
     ELSE arr2list(Munged(list2arr(rlist, sep), ptrs1, ptrs2), sep)

-----------------------------------------------------------------------------
(* Laws, of a text, two texts, or a number.                                *)

\* A text of one empty word is an empty list.
Listed(words) == IF words = << << >> >> THEN << >> ELSE words

\* What C reads of a text.
CText(s) == SubSeq(s, 1, Min({i \in DOMAIN s : s[i] = "NUL"} \cup {Len(s) + 1}) - 1)

\* Every function that counts words counts the same ones (functions.cpp:546-578, 2374-2424,
\* 3007, 4281-4450; funceval.cpp:2458, 2838): first and rest make up the list, a word is
\* extracted, found and placed where it is.
WordsAgree(s, sep) ==
  LET words == list2arr(s, sep)
  IN /\ IF words = << >> THEN fun_first(s, sep) = << >> /\ fun_rest(s, sep) = << >>
        ELSE /\ fun_first(s, sep) = words[1] /\ fun_last(s, sep) = Last(words)
             /\ list2arr(fun_rest(s, sep), sep) = Listed(Tail(words))
     /\ list2arr(arr2list(words, sep), sep) = Listed(words)
     /\ \A i \in DOMAIN words :
          /\ fun_extract(s, i, 1, sep, sep) = words[i]
          /\ fun_elements(s, <<i>>, sep, sep) = words[i]
          /\ fun_member(s, words[i], sep) = Min({j \in DOMAIN words : words[j] = words[i]})
     /\ sep = Blank =>
          \A p \in DOMAIN s : s[p] # " " =>
            fun_wordpos(s, p, sep) =
              Cardinality({q \in 1 .. p : s[q] # " " /\ (q = 1 \/ s[q - 1] = " ")})

\* A word w is deleted, replaced or inserted where the other functions find it, and a place
\* beyond the list changes nothing (functions.cpp:4021-4216).
ItemsRight(s, w, sep) ==
  LET words == list2arr(s, sep)
      n == Len(words)
      Done(flag, el) == list2arr(CText(do_itemfuns(flag, s, el, w, sep)), sep)
  IN s = << >> \/ words # << >> =>
       /\ \A el \in 1 .. n + 1 : Done("insert", el) = InsertAt(words, el, w)
       /\ \A el \in 1 .. n :
            /\ Done("delete", el) = Listed(RemoveAt(words, el))
            /\ Done("replace", el) = Listed(ReplaceAt(words, el, w))
       /\ \A el \in {0, n + 2} : Done("insert", el) = words
       /\ \A el \in {0, n + 1} : Done("delete", el) = words

\* Words are taken out, or given way, one at a time (functions.cpp:4223, 6035).
WordsLeave(s, t, w, sep) ==
  LET words == list2arr(s, sep)
      others == list2arr(t, sep)
      where == fun_member(s, w, sep)
      spliced == list2arr(fun_splice(arr2list(words, sep), arr2list(others, sep), w, sep, sep), sep)
  IN /\ list2arr(fun_remove(arr2list(words, sep), w, sep, sep), sep) =
          Listed(IF where = 0 THEN words ELSE RemoveAt(words, where))
     /\ Len(words) = Len(others) =>
          \A i \in DOMAIN spliced : spliced[i] \in {words[i], others[i]} /\ (spliced[i] = w => others[i] = w)

\* The set functions give the set, each element once and in order (functions.cpp:7645).
SetsExact(s, t, sep) ==
  LET a == ToSet(list2arr(s, sep))
      b == ToSet(list2arr(t, sep))
      Written(set) == arr2list(SetToSortSeq(set, Before), sep)
  IN /\ handle_sets("union", s, t, sep, sep) = Written(a \cup b)
     /\ handle_sets("intersect", s, t, sep, sep) = Written(a \cap b)
     /\ handle_sets("diff", s, t, sep, sep) = Written(a \ b)

\* Every order of n words comes from exactly one run of the generator, so each is as likely
\* as the others (funceval.cpp:2578-2641).
ShuffleFair(n) ==
  LET orders == {fun_shuffle([i \in 1 .. n |-> i], js) : js \in ShuffleChoices(n)}
  IN Cardinality(orders) = Cardinality(ShuffleChoices(n)) /\ orders = Permutations(1 .. n)

\* Of the numbers below the sum of the weights each item has as many as it weighs
\* (functions.cpp:6521).
ChooseFair(weights) ==
  LET sum == FoldLeft(LAMBDA total, w : total + w, 0, weights)
  IN \A i \in DOMAIN weights : Cardinality({num \in 0 .. sum - 1 : fun_choose(weights, num) = i}) = weights[i]

\* Whatever the comparison and the pivots, no element is lost; and an order sorts
\* (funceval.cpp:2720).
SortSafe(n, less) ==
  \A out \in sane_qsort(SubSeq([k \in 1 .. n |-> k], 1, n), 1, n, less) :
    /\ ToSet(out) = 1 .. n
    /\ (\A a, b, c \in 1 .. n : <<a, c>> \in less => <<a, b>> \in less \/ <<b, c>> \in less) =>
         (\A i, j \in 1 .. n : i < j /\ <<out[j], out[i]>> \in less => <<out[i], out[j]>> \in less)

\* A step of two is a mix of the odd words and the even ones (funceval.cpp:2942-3100).
StepsMix(s) ==
  LET words == list2arr(s, Blank)
      Every(parity) ==
        arr2list([i \in 1 .. (Len(words) + parity) \div 2 |-> words[2 * i - parity]], Blank)
      calls == fun_step(s, 2, Blank)
  IN words # << >> =>
       /\ FlattenSeq(calls) = words
       /\ fun_mix(<<Every(1), Every(0)>>, Blank) =
            [wc \in DOMAIN calls |-> IF Len(calls[wc]) = 2 THEN calls[wc] ELSE calls[wc] \o << << >> >>]

\* When the function gives back the first list in another order, each word of the second
\* goes along with its own, even of two that are equal (funceval.cpp:3211).
MungePairs(words, twins) ==
  \A order \in Permutations(DOMAIN words) :
    LET moved == [i \in DOMAIN words |-> words[order[i]]]
        out == list2arr(fun_munge(arr2list(words, Blank), arr2list(twins, Blank), arr2list(moved, Blank),
                                  Blank), Blank)
        Of(t) == CHOOSE i \in DOMAIN twins : twins[i] = t
    IN /\ Len(out) = Len(words) /\ ToSet(out) = ToSet(twins)
       /\ \A i \in DOMAIN out : words[Of(out[i])] = moved[i]
=============================================================================
