----------------------------- MODULE TextLayers -----------------------------
(***************************************************************************)
(* The layers of the moderator that look at characters: SlurFilter,        *)
(* UnicodeClassifier and UrlExtractor.  A message is a sequence of code    *)
(* points [k, c]: k is the class the code tells apart, c the letter it     *)
(* stands for.  The steps are the ways one word may be spelt.              *)
(***************************************************************************)
EXTENDS Integers, Sequences, SequencesExt, FiniteSets

CONSTANTS
    Listed, Exempt,        \* the operator's lists: sets of words in plain letters
    Doubled,               \* letters some listed word has twice in a row
    Endings,              \* suffixes a speaker may add
    Links, Allow, Block,   \* needles a link may contain, those allowed and blocked
    CombiningT, ExoticT, FormatT, UnicodeMax, BlockedScore, UnknownScore,  \* in hundredths
    MaxSpelling            \* edits to a message

VARIABLES
    message,
    link,          \* the needles found in the link of the message, {} for none
    claim,         \* history: "listed", "exempt", "broken" or "other"
    edits

txVars == <<message, link, claim, edits>>

Plain(w) == [i \in DOMAIN w |-> [k |-> "plain", c |-> w[i]]]

TxInit ==
    /\ edits = 0 /\ link = {}
    /\ \/ claim = "listed" /\ \E w \in Listed \ Exempt : message = Plain(w)
       \/ claim = "exempt" /\ \E w \in Exempt : message = Plain(w)

-----------------------------------------------------------------------------
(* SlurFilter.                                                             *)

is_invisible(p) == p.k \in {"mark", "zero"}
LeetLetters == {"o", "i", "e", "a", "s", "t", "g"}   \* the ones a digit is folded to
fold_confusable(p) == IF p.k = "alike" THEN <<p.c>> ELSE <<" ">>

\* One decoded code point: invisible ones vanish, invalid bytes and letters of
\* no known likeness are boundaries, the rest is a lower-case letter.
fold(p) ==
    CASE p.k = "bad" -> <<" ">>
      [] is_invisible(p) -> <<>>
      [] p.k \in {"plain", "upper", "digit"} -> <<p.c>>
      [] p.k = "punct" -> <<" ">>
      [] OTHER -> fold_confusable(p)

\* The runs of equal characters of s, as [c, n].
Runs(s) ==
    FoldLeft(LAMBDA rs, c : IF rs # <<>> /\ Last(rs).c = c THEN [rs EXCEPT ![Len(rs)].n = @ + 1]
                            ELSE Append(rs, [c |-> c, n |-> 1]), <<>>, s)

kept_two(r) == IF r.c # " " /\ r.n >= 3 THEN 2 ELSE r.n

kept(r) == IF r.c # " " /\ r.n >= 3 THEN 1 ELSE r.n

normalize(m) ==
    LET folded == FlattenSeq([i \in DOMAIN m |-> fold(m[i])])
        runs == Runs(folded)
    IN  FlattenSeq([i \in DOMAIN runs |-> [j \in 1 .. kept(runs[i]) |-> runs[i].c]])

tokenize(s) ==
    LET add(ts, c) == IF c = " " THEN Append(ts, <<>>) ELSE [ts EXCEPT ![Len(ts)] = Append(@, c)]
    IN  SelectSeq(FoldLeft(add, <<<<>>>>, s), LAMBDA t : t # <<>>)

StripOrder == <<<<"e", "r", "s">>, <<"i", "n", "g">>, <<"e", "d">>, <<"e", "r">>, <<"e", "s">>, <<"s">>>>

strip_suffix(t) ==
    LET fits(x) == Len(t) >= Len(x) + 3 /\ IsSuffix(x, t)
        hits == {i \in DOMAIN StripOrder : fits(StripOrder[i])}
    IN  IF hits = {} THEN t ELSE SubSeq(t, 1, Len(t) - Len(StripOrder[CHOOSE i \in hits : \A j \in hits : i <= j]))

FirstTokens(raw) == {tokenize(normalize(Plain(w)))[1] : w \in {x \in raw : tokenize(normalize(Plain(x))) # <<>>}}
load_wordlist == {t \in FirstTokens(Listed) : Len(t) >= 3}
load_exceptions == FirstTokens(Exempt)

scan(m) ==
    \E i \in DOMAIN tokenize(normalize(m)) :
       LET t == tokenize(normalize(m))[i] IN
       /\ t \notin load_exceptions
       /\ \/ t \in load_wordlist
          \/ strip_suffix(t) # t /\ strip_suffix(t) \notin load_exceptions /\ strip_suffix(t) \in load_wordlist

-----------------------------------------------------------------------------
(* UnicodeClassifier and UrlExtractor: scores in hundredths.               *)

Count(m, kinds) == Cardinality({i \in DOMAIN m : m[i].k \in kinds})
classify_script(p) == CASE p.k \in {"plain", "upper"} -> {"latin"} [] p.k = "alike" -> {"cyrillic"}
                        [] p.k = "odd" -> {"exotic"} [] OTHER -> {}
Over(n, total, threshold) ==
    LET ratio == (100 * n) \div total IN
    IF ratio > threshold THEN (100 * (ratio - threshold)) \div (IF threshold > 99 THEN 1 ELSE 100 - threshold) ELSE 0

RawScore(m) ==
    LET invalid == Count(m, {"bad"})
        total == Len(m) - invalid
    IN  IF m = <<>> THEN 0 ELSE IF total = 0 THEN UnicodeMax
        ELSE Over(Count(m, {"mark"}), total, CombiningT) + Over(Count(m, {"odd"}), total, ExoticT)
             + Over(Count(m, {"zero"}), total, FormatT)
             + (IF Cardinality(UNION {classify_script(m[i]) : i \in DOMAIN m}) >= 3 THEN 30 ELSE 0)
             + (100 * invalid) \div (invalid + total)

classify(m) == IF RawScore(m) > UnicodeMax THEN UnicodeMax ELSE RawScore(m)

\* The allow list wins; then one blocked link is enough.
extract(l) == CASE l = {} \/ l \cap Allow # {} -> 0 [] l \cap Block # {} -> BlockedScore [] OTHER -> UnknownScore

-----------------------------------------------------------------------------
(* Spellings.                                                              *)

Edit(m, what) == edits < MaxSpelling /\ edits' = edits + 1 /\ message' = m /\ claim' = what /\ UNCHANGED link

\* A letter in capitals, as a digit, as a look-alike of another script.
Restyle(i, k) ==
    message[i].k = "plain" /\ (k = "digit" => message[i].c \in LeetLetters) /\ Edit([message EXCEPT ![i].k = k], claim)

\* Something invisible between two letters.
Insert(i, k) == Edit(InsertAt(message, i, [k |-> k, c |-> "-"]), claim)

\* A letter held down; not one that the list has doubled.
Stretch(i) ==
    /\ message[i].k \notin {"mark", "zero", "odd", "bad", "punct"} /\ message[i].c \notin Doubled
    /\ Edit(InsertAt(InsertAt(message, i, message[i]), i, message[i]), claim)

Suffix(s) == edits = 0 /\ Edit(message \o Plain(s), claim)

\* A boundary inside the word: a space, an undecodable byte, an unknown letter.
Break(i, k) ==
    /\ claim # "other" /\ i > 1
    /\ Edit(InsertAt(message, i, [k |-> k, c |-> "-"]), IF claim = "listed" /\ edits = 0 THEN "broken" ELSE "other")

\* A link with these needles in it follows the text.
AddLink(l) == edits < MaxSpelling /\ edits' = MaxSpelling /\ link' = l /\ UNCHANGED <<message, claim>>

TxNext ==
    \/ \E l \in SUBSET Links : AddLink(l)
    \/ \E i \in DOMAIN message :
          \/ \E k \in {"upper", "digit", "alike"} : Restyle(i, k)
          \/ \E k \in {"mark", "zero"} : Insert(i, k)
          \/ \E k \in {"punct", "bad", "odd"} : Break(i, k)
          \/ Stretch(i)
    \/ \E s \in Endings : Suffix(s)

-----------------------------------------------------------------------------
\* Scores stay within what the configuration allows, however many of the
\* contributions of a message add up.
ScoresBounded == classify(message) \in 0 .. UnicodeMax /\ extract(link) \in {0, UnknownScore, BlockedScore}

\* A listed word is found however it is styled, stretched or laced with invisible
\* characters, with a suffix or without.
SpellingsCaught == claim = "listed" => scan(message)

\* An exempt word is never taken for a listed one, nor are the pieces of a word
\* that something visible has broken up.
InnocentPasses == claim \in {"exempt", "broken"} => ~scan(message)

\* The word list finds the listed words in every spelling, and nothing else (SlurFilter::scan); the scores of the other
\* layers stay within their bounds.
WordsJudged == SpellingsCaught /\ InnocentPasses /\ ScoresBounded
=============================================================================
