------------------------------ MODULE BlobStore -------------------------------
(***************************************************************************)
(* BlobStore (packages/ingestion/blob_store.py): one file per page, under  *)
(* the SHA-256 of the page.  Several processes put pages into one          *)
(* directory without a lock: put checks that the file is absent, opens it, *)
(* which truncates it, and writes it, and may fail after each step.        *)
(***************************************************************************)
CONSTANTS
  Processes,    \* worker processes
  Pages         \* pages: a page and its digest are one to one

VARIABLES
  files,        \* files[p]: "absent", "partial" (truncated) or "whole"
  putting,      \* putting[w]: the step of the put of process w, with its page
  torn          \* history: pages whose file a put left truncated

NoPut == [step |-> "none"]

BlobInit ==
  /\ files = [p \in Pages |-> "absent"]
  /\ putting = [w \in Processes |-> NoPut]
  /\ torn = {}

\* if not path.exists()
PutChecks(w, p) ==
  /\ putting[w] = NoPut /\ files[p] = "absent"
  /\ putting' = [putting EXCEPT ![w] = [step |-> "absent", page |-> p]]
  /\ UNCHANGED <<files, torn>>

\* The file is there: whatever is in it, nothing is written.
PutFinds(w, p) ==
  /\ putting[w] = NoPut /\ files[p] # "absent"
  /\ UNCHANGED <<files, putting, torn>>

\* write_bytes opens the file: it is truncated, even if another process has
\* written it since it was found absent.
PutOpens(w) ==
  /\ putting[w].step = "absent"
  /\ files' = [files EXCEPT ![putting[w].page] = "partial"]
  /\ putting' = [putting EXCEPT ![w].step = "open"]
  /\ UNCHANGED torn

\* Mutated form: the file is open no longer, and not written yet.
PutWritesLater(w) ==
  /\ putting[w].step = "open"
  /\ putting' = [putting EXCEPT ![w] = NoPut]
  /\ UNCHANGED <<files, torn>>

PutWrites(w) ==
  /\ putting[w].step = "open"
  /\ files' = [files EXCEPT ![putting[w].page] = "whole"]
  /\ putting' = [putting EXCEPT ![w] = NoPut]
  /\ UNCHANGED torn

\* OSError, or the death of the process, in the middle of a put.
PutBreaks(w) ==
  /\ putting' = [putting EXCEPT ![w] = NoPut]
  /\ torn' = IF putting[w].step = "open" /\ files[putting[w].page] = "partial"
             THEN torn \cup {putting[w].page} ELSE torn
  /\ UNCHANGED files

-----------------------------------------------------------------------------

BlobTypeOK ==
  /\ files \in [Pages -> {"absent", "partial", "whole"}]
  /\ putting \in [Processes -> {NoPut} \cup [step : {"absent", "open"}, page : Pages]]
  /\ torn \in SUBSET Pages

\* BlobStore.put: a file that is not the whole page, which get returns as if
\* it were, is being written at this moment, or a put of that page broke off.
PartialIsAccounted ==
  \A p \in Pages :
    files[p] = "partial" =>
      \/ p \in torn
      \/ \E w \in Processes : putting[w] = [step |-> "open", page |-> p]
=============================================================================
