-------------------------------- MODULE Scorer --------------------------------
(***************************************************************************)
(* score_article (packages/alerts/scorer.py) and extract_entities          *)
(* (entity_extractor.py).  A text is a set of words; Inside[w] are the     *)
(* words found in w by substring, w itself included when it is one of the  *)
(* MAGNITUDE_WORDS, so that "halted" counts for "halt" too.                *)
(***************************************************************************)
EXTENDS Integers, FiniteSets, FiniteSetsExt

CONSTANTS
  Inside,       \* the words of the lists below that a word contains
  Magnitude,    \* MAGNITUDE_WORDS
  TitleSignals  \* "breaking", "alert", "halt", "crisis"

\* w in text_lower, for each word of the lists
Found(text) == UNION {Inside[w] : w \in text}

\* Tickers match whole words, entities any part of the text.
WatchlistMatches(text, tickers, entities) ==
  (tickers \cap text) \cup (entities \cap Found(text))

\* int(credibility * 20), from hundredths
CredibilityPoints(credibility) == (credibility * 20) \div 100

\* Mutated form: the words are not capped.
MagnitudePointsUncapped(text) == 8 * Cardinality(Magnitude \cap Found(text))

MagnitudePoints(text) == Min({8 * Cardinality(Magnitude \cap Found(text)), 25})
WatchlistPoints(matches) == Min({12 * Cardinality(matches), 35})
SignalPoints(title) == IF Found(title) \cap TitleSignals # {} THEN 10 ELSE 0
Recency == 5

\* article.text + " " + article.title
Score(article, tickers, entities) ==
  LET text == article.text \cup article.title
      matches == WatchlistMatches(text, tickers, entities)
      score == CredibilityPoints(article.credibility) + MagnitudePoints(text)
                 + WatchlistPoints(matches) + SignalPoints(article.title) + Recency
  IN  Min({score, 100})
=============================================================================
