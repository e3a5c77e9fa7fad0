-------------------------------- MODULE Dedup ---------------------------------
(***************************************************************************)
(* canonical_url (packages/ingestion/dedup.py).  A URL is its path, split  *)
(* into a stem and the slashes it ends with, its query, a sequence of      *)
(* parts, and its fragment.  A part has a key, in upper or lower case, and *)
(* a value, which may end with slashes too.                                *)
(***************************************************************************)
EXTENDS Naturals, Sequences, SequencesExt, Selection

CONSTANTS
  Stems, Keys, Fragments,
  Tracking,     \* keys dropped: utm_source, ..., ref, source, fbclid, ...
  NoFragment

Part == [key : Keys \cup Tracking, upper : BOOLEAN, slashes : Nat]
Url == [stem : Stems, slashes : Nat, query : Seq(Part), fragment : Fragments \cup {NoFragment}]

\* Mutated form: keys are compared as they are written.
IsTrackingAsWritten(part) == part.key \in Tracking /\ ~part.upper

\* part.split("=")[0].lower() in {...}
IsTracking(part) == part.key \in Tracking

Kept(query) == Selected(query, {part \in ToSet(query) : ~IsTracking(part)})

\* urlunparse(cleaned).rstrip("/"): the slashes at the very end go, those of
\* the last part of the query or, without a query, those of the path.
CanonicalUrl(url) ==
  LET query == Kept(url.query)
      last == Len(query)
  IN  IF query = <<>>
      THEN [url EXCEPT !.slashes = 0, !.query = <<>>, !.fragment = NoFragment]
      ELSE [url EXCEPT !.query = [query EXCEPT ![last].slashes = 0],
                       !.fragment = NoFragment]
=============================================================================
