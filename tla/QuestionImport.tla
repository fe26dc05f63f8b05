--------------------------- MODULE QuestionImport ---------------------------
(***************************************************************************)
(* The import of a batch of questions: the panel of                          *)
(* QuestionBankAdminPage.tsx and the service it calls                         *)
(* (internal/questionbank/application/import_service.go).                     *)
(***************************************************************************)
EXTENDS BrowserTab

CONSTANTS
  BatchIds,     \* the identifiers that may be typed
  BatchTexts,   \* the items that may be typed
  MaxImports,   \* bound: dry runs and writes begun in the page
  MaxOtherRuns   \* bound: dry runs of another administrator

ASSUME QuestionImportAssumption ==
  BatchIds # {} /\ BatchTexts # {} /\ MaxImports \in Nat /\ MaxOtherRuns \in Nat

Batches == [id : BatchIds, text : BatchTexts]
NothingStored == [status |-> "none", text |-> CHOOSE text \in BatchTexts : TRUE]
StoredBatches == [status : {"none", "preflight", "imported", "rolled_back"}, text : BatchTexts]

QuestionImportTypeOK ==
  Mounted("import") =>
    /\ screen \in [page : {"import"}, batch : Batches, passed : BOOLEAN, hurried : BOOLEAN,
                   imports : 0..MaxImports]
    /\ server \in [batch : [BatchIds -> StoredBatches], checked : SUBSET Batches,
                   others : 0..MaxOtherRuns]

ImportInit ==
  \E batch \in Batches :
    /\ screen = [page |-> "import", batch |-> batch, passed |-> FALSE, hurried |-> FALSE,
                 imports |-> 0]
    /\ calls = {}
    /\ server = [batch |-> [id \in BatchIds |-> NothingStored], checked |-> {}, others |-> 0]

(***************************************************************************)
(* The import of a batch: a dry run first, and the write only after one that *)
(* passed.                                                                  *)
(***************************************************************************)
Checks == {c \in calls : c.kind = "import" /\ c.dry}

\* onChange of either field: what passed is forgotten.  "hurried" remembers that
\* a check of the batch before was still under way.
Retyped(p, batch) ==
  [p EXCEPT !.batch = batch, !.passed = FALSE, !.hurried = @ \/ Checks # {}]

TypeBatch(batch) ==
  /\ batch # screen.batch
  /\ screen' = Retyped(screen, batch) /\ UNCHANGED <<calls, server>>

ImportBatch(dry) ==
  /\ (~dry => screen.passed) /\ screen.imports < MaxImports
  /\ screen' = [screen EXCEPT !.imports = @ + 1]
  /\ calls' = calls \cup {[kind |-> "import", n |-> screen.imports, dry |-> dry,
                           batch |-> screen.batch, stage |-> "sent"]}
  /\ UNCHANGED server

\* SaveImportPreflight keeps the digest of a batch that passed, unless one of its
\* name was written.  What does not pass (duplicates, conflicts, images) is not kept.
Preflight(stored, batch) ==
  [stored EXCEPT !.batch[batch.id] = [status |-> "preflight", text |-> batch.text],
                 !.checked = @ \cup {batch}]
MayCheck(batch) == server.batch[batch.id].status \in {"none", "preflight"}

BatchChecked(c) ==
  /\ c.kind = "import" /\ c.dry /\ c.stage = "sent" /\ MayCheck(c.batch)
  /\ server' = Preflight(server, c.batch)
  /\ Advances(c, "passed") /\ UNCHANGED screen

AnotherChecks(batch) ==
  /\ server.others < MaxOtherRuns /\ MayCheck(batch)
  /\ server' = [Preflight(server, batch) EXCEPT !.others = @ + 1]
  /\ UNCHANGED <<screen, calls>>

\* RollbackImportBatch, which the page does not offer: all of it still drafts.
RollbackBatch(id) ==
  /\ server.others < MaxOtherRuns /\ server.batch[id].status = "imported"
  /\ server' = [server EXCEPT !.batch[id].status = "rolled_back", !.others = @ + 1]
  /\ UNCHANGED <<screen, calls>>

\* Not expired either: a write may always be refused.
PreflightOf(batch) ==
  server.batch[batch.id] = [status |-> "preflight", text |-> batch.text]

BatchWritten(c) ==
  /\ c.kind = "import" /\ ~c.dry /\ c.stage = "sent" /\ PreflightOf(c.batch)
  /\ server' = [server EXCEPT !.batch[c.batch.id] =
                  [status |-> "imported", text |-> c.batch.text]]
  /\ Advances(c, "passed") /\ UNCHANGED screen

\* After a write the list is read again (QuestionBankAdmin).
ImportArrives(c) ==
  /\ c.kind = "import" /\ c.stage = "passed"
  /\ screen' = [screen EXCEPT !.passed = c.dry]
  /\ Ended(c) /\ UNCHANGED server

\* An answer that the batch is not valid takes the verdict back, an error does not.
ImportFails(c) ==
  /\ c.kind = "import"
  /\ screen' \in {screen, [screen EXCEPT !.passed = FALSE]}
  /\ Ended(c) /\ UNCHANGED server

ImportNext ==
  \/ \E batch \in Batches : TypeBatch(batch) \/ AnotherChecks(batch)
  \/ \E dry \in BOOLEAN : ImportBatch(dry)
  \/ \E id \in BatchIds : RollbackBatch(id)
  \/ \E c \in calls : BatchChecked(c) \/ BatchWritten(c) \/ ImportArrives(c) \/ ImportFails(c)

ImportSpec == ImportInit /\ [][ImportNext]_tabVars

(***************************************************************************)
(* Properties                                                              *)
(***************************************************************************)
\* "Write remains disabled until the matching UI dry-run returns PASS"
\* (docs/domains/questionbank/QUESTION_BANK_MEDIA_PARITY_CERTIFICATION.md:48): as
\* long as nobody changes the batch while a dry run is under way, the write is
\* offered only for a batch that passed as it stands.  And without that
\* exception, what is imported is a batch that passed, whoever checked it.
OfferedWasChecked == screen.passed /\ ~screen.hurried => screen.batch \in server.checked

ImportedWasChecked ==
  \A id \in BatchIds :
    server.batch[id].status \in {"imported", "rolled_back"} =>
      [id |-> id, text |-> server.batch[id].text] \in server.checked

\* No batch reaches the bank that did not pass its dry run as it stands
\* (import_service.go, QuestionBankAdminPage.tsx).
ImportIsChecked == Mounted("import") => OfferedWasChecked /\ ImportedWasChecked
=============================================================================
