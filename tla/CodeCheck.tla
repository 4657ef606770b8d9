----------------------------- MODULE CodeCheck -----------------------------
(***************************************************************************)
(* The check of metric codes in the two batch wizards of the web front end *)
(* (useMetricCodeCheck.ts, with its callers BatchMetricModal.vue and       *)
(* BatchDerivedModal.vue, and metric.service checkCodes as the server).    *)
(* Verdicts are cached per code; an edit asks again only about the codes   *)
(* whose number in the batch has changed since the last request.           *)
(*                                                                         *)
(* A code is taken by a metric or free; malformed codes, and codes other   *)
(* users take meanwhile, are left out.  A batch of more than 50 codes,     *)
(* which is asked about in slices, is left out too.                        *)
(***************************************************************************)
EXTENDS Naturals, FiniteSets

CONSTANTS
  Rows,     \* the rows of the wizard, by their places
  Codes,    \* the codes they may have
  Calls     \* bound: requests in flight at once

ASSUME CodeAssumption == Rows \subseteq Nat /\ IsFiniteSet(Rows)

VARIABLES
  step,       \* 1: the table is chosen; 2: its rows are edited; 3: the outcome is shown
  row,        \* the code of each row
  picked,     \* the rows that are ticked
  taken,      \* on the server: the codes of metrics
  mine,       \* history: the codes this wizard has created metrics for
  items,      \* lastItems: the rows the last submit sent
  failedAt,   \* batchResult: the places in its batch of the items the server refused
  created,    \* createdCodes
  timer,      \* codeCheckTimer is set
  lastBatch,  \* lastBatchCodes: how often each code occurs in it
  asked,      \* askedCodes
  issue,      \* codeIssues
  call,       \* the requests in flight: what they ask, and what was taken when they were served
  clouded     \* history: since the last full check alone in flight, a request has failed or
              \* has been sent before another was answered

codeVars == <<step, row, picked, taken, mine, items, failedAt, created, timer, lastBatch, asked,
              issue, call, clouded>>
outcomeVars == <<items, failedAt, created>>
checkVars == <<lastBatch, asked, call, clouded>>

Blank   == "blank"
Verdict == {"free", "taken", "duplicate"}
Counts  == [Codes -> 0 .. Cardinality(Rows)]
NoCodes == [c \in Codes |-> 0]
Call    == [pc : {"none", "sent", "served"}, want : Counts, seen : SUBSET Codes]
NoCall  == [pc |-> "none", want |-> NoCodes, seen |-> {}]

CodeTypeOK ==
  /\ step \in 1 .. 3 /\ row \in [Rows -> Codes \cup {Blank}] /\ picked \in SUBSET Rows
  /\ taken \in SUBSET Codes /\ mine \in SUBSET taken /\ created \in SUBSET taken
  /\ items \in SUBSET Rows /\ failedAt \in SUBSET (0 .. Cardinality(Rows)) /\ timer \in BOOLEAN
  /\ lastBatch \in Counts
  /\ asked \in SUBSET Codes /\ issue \in [Codes -> Verdict \cup {"none"}]
  /\ call \in [Calls -> Call] /\ clouded \in BOOLEAN

\* batchCodeList
Batch(rows, codes) == [c \in Codes |-> Cardinality({r \in rows : codes[r] = c})]

\* checkCodes, with `have` the codes of metrics.
Judged(c, count, have) ==
  IF c \in have THEN "taken" ELSE IF count > 1 THEN "duplicate" ELSE "free"

InFlight == {k \in Calls : call[k].pc # "none"}

\* Faulty variant: a code is asked about once.
Diff_Once(batch) == [c \in Codes |-> IF c \in asked THEN 0 ELSE batch[c]]

\* diffCodes
Diff(batch) == [c \in Codes |-> IF c \in asked /\ lastBatch[c] = batch[c] THEN 0 ELSE batch[c]]

\* runCodeCheck, as far as its request.  `full`: it asks about the whole batch.
SendCheck(batch, want, before, full) ==
  /\ lastBatch' = batch
  /\ IF want = NoCodes
     THEN asked' = before /\ UNCHANGED <<call, clouded>>
     ELSE /\ asked' = before \cup {c \in Codes : want[c] > 0}
          /\ \E k \in Calls \ InFlight : call' = [call EXCEPT ![k] = [NoCall EXCEPT !.pc = "sent", !.want = want]]
          /\ clouded' = (InFlight # {} \/ (clouded /\ ~full))

RefreshAll(codes, rows, before) == SendCheck(Batch(rows, codes), Batch(rows, codes), before, TRUE)

-----------------------------------------------------------------------------

\* A wizard is opened, its rows are filled in and all of them ticked: applyModel, gotoPreview.
\* resetCodeChecks forgets the verdicts and not the requests in flight.
Fill(codes) ==
  /\ step' = 2 /\ row' = codes /\ picked' = Rows /\ items' = {} /\ failedAt' = {} /\ created' = {}
  /\ mine' = {} /\ issue' = [c \in Codes |-> "none"] /\ timer' = FALSE
  /\ RefreshAll(codes, Rows, {}) /\ UNCHANGED taken

CodeInit ==
  /\ step = 1 /\ row = [r \in Rows |-> Blank] /\ picked = {} /\ taken = {} /\ mine = {}
  /\ items = {} /\ failedAt = {} /\ created = {} /\ timer = FALSE /\ lastBatch = NoCodes /\ asked = {}
  /\ issue = [c \in Codes |-> "none"] /\ call = [k \in Calls |-> NoCall] /\ clouded = FALSE

\* Before the wizard is opened, others give codes to metrics.
OthersTake(c) ==
  /\ step = 1 /\ taken' = taken \cup {c}
  /\ UNCHANGED <<step, row, picked, mine, outcomeVars, timer, issue, checkVars>>

\* A watch of the wizard: scheduleCodeCheck.
EditCode(r, c) ==
  /\ step = 2 /\ row[r] # c /\ row' = [row EXCEPT ![r] = c] /\ timer' = TRUE
  /\ UNCHANGED <<step, picked, taken, mine, outcomeVars, issue, checkVars>>

Tick(r) ==
  /\ step = 2 /\ picked' = (picked \ {r}) \cup ({r} \ picked) /\ timer' = TRUE
  /\ UNCHANGED <<step, row, taken, mine, outcomeVars, issue, checkVars>>

TimerFires ==
  /\ timer /\ timer' = FALSE
  /\ SendCheck(Batch(picked, row), Diff(Batch(picked, row)), asked, FALSE)
  /\ UNCHANGED <<step, row, picked, taken, mine, outcomeVars, issue>>

\* The server lists the metrics.
CheckServed(k) ==
  /\ call[k].pc = "sent" /\ call' = [call EXCEPT ![k].pc = "served", ![k].seen = taken]
  /\ UNCHANGED <<step, row, picked, taken, mine, outcomeVars, timer, lastBatch, asked, issue,
                 clouded>>

\* mergeCodeIssues
CheckAnswered(k) ==
  /\ call[k].pc = "served"
  /\ issue' = [c \in Codes |-> IF call[k].want[c] = 0 THEN issue[c]
                               ELSE Judged(c, call[k].want[c], call[k].seen)]
  /\ call' = [call EXCEPT ![k] = NoCall]
  /\ UNCHANGED <<step, row, picked, taken, mine, outcomeVars, timer, lastBatch, asked, clouded>>

\* The codes are asked about again at the next occasion.
CheckFailed(k) ==
  /\ call[k].pc # "none"
  /\ asked' = {c \in asked : call[k].want[c] = 0} /\ clouded' = TRUE
  /\ call' = [call EXCEPT ![k] = NoCall]
  /\ UNCHANGED <<step, row, picked, taken, mine, outcomeVars, timer, lastBatch, issue>>

\* isCodeConflict
Conflict(r) == row[r] \notin created /\ issue[row[r]] \in {"taken", "duplicate"}

\* handleAddSuffix: rows in conflict get codes of their own, but for one row of each group of
\* duplicates.  The watch of the codes sets the timer too.
AddSuffix ==
  LET targets == {r \in picked : Conflict(r)}
      blocked == {row[r] : r \in picked} \cup {c \in Codes : issue[c] \in {"taken", "duplicate"}} IN
  /\ step = 2 /\ targets # {}
  /\ \E kept \in SUBSET {r \in targets : issue[row[r]] = "duplicate"}, codes \in [Rows -> Codes] :
       /\ \A r \in targets : issue[row[r]] = "duplicate" =>
            Cardinality({q \in kept : row[q] = row[r]}) = 1
       /\ \A r \in Rows : IF r \in targets \ kept THEN codes[r] \notin blocked ELSE codes[r] = row[r]
       /\ \A r, q \in targets \ kept : r # q => codes[r] # codes[q]
       /\ row' = codes /\ timer' = (timer \/ codes # row)
       /\ SendCheck(Batch(picked, codes), Diff(Batch(picked, codes)), asked, FALSE)
  /\ UNCHANGED <<step, picked, taken, mine, outcomeVars, issue>>

\* The server creates what it can of the rows: free codes, and each once.
Creatable(rows) == {ok \in SUBSET {r \in rows : row[r] \notin taken} :
                      \A r, q \in ok : r # q => row[r] # row[q]}

Creates(ok) ==
  LET codes == {row[r] : r \in ok} IN taken' = taken \cup codes /\ mine' = mine \cup codes

\* The place of a row among those a submit sends.
Place(r, rows) == Cardinality({q \in rows : q < r})

\* submitItems and recordSubmitOutcome
Submit(rows) ==
  /\ rows # {} /\ items' = rows
  /\ \E ok \in Creatable(rows) :
       /\ Creates(ok) /\ created' = {row[r] : r \in ok}
       /\ failedAt' = {Place(r, rows) : r \in rows \ ok}
  /\ step' = 3 /\ UNCHANGED <<row, picked, timer, issue, checkVars>>

\* submitItems, when the request fails or its answer is lost: the server may have created the
\* metrics, and the wizard stays where it is, but for the items (in step 2 nobody reads them).
SubmitFails(rows) ==
  /\ rows # {} /\ items' = IF step = 2 THEN items ELSE rows
  /\ \E ok \in Creatable(rows) : Creates(ok)
  /\ clouded' = TRUE
  /\ UNCHANGED <<step, row, picked, failedAt, created, timer, lastBatch, asked, issue, call>>

\* handleSubmit, in step 3: the items at the places of those that were refused.
Retry == {r \in items : Place(r, items) \in failedAt}

\* backToEditCodes.  The batch and its outcome are read in step 3 only, which another submit
\* opens: they are forgotten here.
BackToEditCodes ==
  /\ step = 3 /\ step' = 2 /\ RefreshAll(row, picked, asked)
  /\ items' = {} /\ failedAt' = {}
  /\ UNCHANGED <<row, picked, taken, mine, created, timer, issue>>

CodeNext ==
  \/ \E codes \in [Rows -> Codes] : Fill(codes)
  \/ \E c \in Codes : OthersTake(c)
  \/ \E r \in Rows : Tick(r) \/ \E c \in Codes : EditCode(r, c)
  \/ TimerFires
  \/ \E k \in Calls : CheckServed(k) \/ CheckAnswered(k) \/ CheckFailed(k)
  \/ AddSuffix
  \/ LET rows == IF step = 2 THEN picked ELSE Retry IN Submit(rows) \/ SubmitFails(rows)
  \/ BackToEditCodes

CodeSpec == CodeInit /\ [][CodeNext]_codeVars

-----------------------------------------------------------------------------

\* Once the wizard has come to rest, the verdict on every ticked row is the one the server
\* would give for the batch as it is, though only what had changed was asked about - as long
\* as no request, for a check or to submit, failed or overlapped another.
VerdictsCurrent ==
  (step = 2 /\ ~timer /\ InFlight = {} /\ ~clouded) =>
    \A r \in picked : issue[row[r]] = Judged(row[r], Batch(picked, row)[row[r]], taken)

(* What comments say and the code does not do: TLC refutes them.                   *)

\* diffCodes: no verdict that is out of date is left (requests overlap and are answered out
\* of order, even before anything is submitted).
NoStaleVerdict ==
  (step = 2 /\ mine = {} /\ ~timer /\ InFlight = {} /\ {row[r] : r \in picked} \subseteq asked) =>
    \A r \in picked : issue[row[r]] = Judged(row[r], Batch(picked, row)[row[r]], taken)

\* createdCodes: a row whose metric has been created is not in conflict (it is if the answer to
\* its submit was lost, and after a second submit, which forgets the rows of the first).
CreatedNoConflict == \A r \in picked : row[r] \in mine => ~Conflict(r)

\* lastItems, aligned by results.index: as long as items have failed there is something to
\* retry (a retry whose request fails replaces lastItems and leaves batchResult).
RetryFindsItems == step = 3 /\ failedAt # {} => Retry # {}
=============================================================================
