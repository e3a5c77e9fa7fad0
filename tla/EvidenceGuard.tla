---------------------------- MODULE EvidenceGuard -----------------------------
(***************************************************************************)
(* EvidenceGuard (packages/rag/evidence_guard.py) with complete_json       *)
(* (llm_client.py): which answers of the language model pass.              *)
(*                                                                         *)
(* raw is an answer: its JSON, and what stands around it (an opening fence *)
(* and the line break after it, a closing fence, prose before or after).   *)
(* The JSON is an object with the chunk ids of its citations, and for each *)
(* item of its sections the ids it names, the empty set for a plain text.  *)
(***************************************************************************)
EXTENDS Sequences, SequencesExt

CONSTANTS
  Objects,      \* the objects an answer may hold
  NotAnObject   \* JSON of another shape, on which resp.get fails

RawAnswers ==
  [before : BOOLEAN, after : BOOLEAN, opened : BOOLEAN, newline : BOOLEAN,
   closed : BOOLEAN, json : Objects \cup {NotAnObject}]

Raised == [passed |-> FALSE]
Passed(json) == [passed |-> TRUE, json |-> json]

\* complete_json: a fence is taken off when the answer begins with it, up to
\* the first line break, and at the end only if it was there at the beginning.
Parses(raw) ==
  /\ ~raw.before /\ ~raw.after
  /\ raw.closed => raw.opened
  /\ raw.opened => raw.newline

\* Mutated form: items are not looked at.
ValidCitationsOnly(json, chunks) == ToSet(json.citations) \subseteq chunks

\* _validate_citations: citations name chunks of the context (an entry with
\* no chunk_id names none), and items name citations.
ValidCitations(json, chunks) ==
  /\ \A i \in DOMAIN json.citations : json.citations[i] \in chunks
  /\ \A i \in DOMAIN json.items : json.items[i] \subseteq ToSet(json.citations)

\* briefing, alert and qa
Answer(raw, chunks) ==
  IF Parses(raw) /\ raw.json # NotAnObject /\ ValidCitations(raw.json, chunks)
  THEN Passed(raw.json) ELSE Raised
=============================================================================
