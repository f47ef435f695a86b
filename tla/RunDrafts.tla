----------------------------- MODULE RunDrafts -----------------------------
(***************************************************************************)
(* Two kinds of working records the payroll contract keeps beside its runs *)
(* (contracts/payroll/src/lib.rs): correctable run drafts, and checkpoints *)
(* of long batch executions.  Draft entry points ask the pause manager;    *)
(* checkpoint entry points do not.                                         *)
(***************************************************************************)
EXTENDS PauseManager

CONSTANTS
    Period,        \* period labels
    Amount,        \* totals of drafts
    BatchKey,      \* employer, batch root, asset and execution nonce of a batch
    Index,         \* checkpoint indexes
    MaxAmendments, \* bound of the checked instance
    MaxCheckpoints \* the largest value of the u32 counter total_checkpoints

RunDraftState == {"Pending", "Finalized", "Submitted", "Cancelled", "Expired"}

BatchCheckpointState ==
    {"Started", "PartiallyCheckpointed", "Resumed", "Completed", "Failed"}

BatchCheckpoint ==
    [state : BatchCheckpointState, last : Index, total : 1..MaxCheckpoints,
     completed : BOOLEAN, failed : BOOLEAN]

ASSUME DraftAssumption ==
    /\ Amount \subseteq Nat \ {0}
    /\ Index \subseteq Nat
    /\ MaxAmendments \in Nat
    /\ MaxCheckpoints \in Nat \ {0}
    /\ None \notin Nat
    /\ None \notin BatchCheckpoint

VARIABLES
    runDraftCounter,
    runDraft,             \* the draft of each identifier handed out
    activeDraftForPeriod,
    batchCheckpoint,
    resumes,              \* history: how often each batch was resumed
    pauseManagerSet

draftVars == <<runDraftCounter, runDraft, activeDraftForPeriod>>
checkpointVars == <<batchCheckpoint, resumes>>
vars == <<draftVars, checkpointVars, pauseManagerSet, pauseVars>>

PayrollRunDraft ==
    [total : Amount, period : Period, state : RunDraftState,
     amendments : 0..MaxAmendments]

DraftId == 1..runDraftCounter

NotPaused == pauseManagerSet => ~IsPaused

----------------------------------------------------------------------------
(***************************************************************************)
(* Drafts.                                                                 *)
(***************************************************************************)
draftFrame == <<checkpointVars, pauseManagerSet, pauseVars>>

\* Mutant: only the latest draft is looked at.
PeriodFree_LatestOnly(p) == runDraftCounter > 0 => runDraft[runDraftCounter].period # p

PeriodFree(p) == activeDraftForPeriod[p] = None

\* The entry for the period is not removed by any other entry point.
CreateRunDraft(amount, p) ==
    LET id == runDraftCounter + 1 IN
    /\ NotPaused
    /\ PeriodFree(p)
    /\ runDraftCounter' = id
    /\ runDraft' = [i \in DraftId \cup {id} |->
                      IF i = id THEN [total |-> amount, period |-> p, state |-> "Pending",
                                      amendments |-> 0]
                                ELSE runDraft[i]]
    /\ activeDraftForPeriod' = [activeDraftForPeriod EXCEPT ![p] = id]
    /\ UNCHANGED draftFrame

Amendable(d) == runDraft[d].state = "Pending"

AmendRunDraft(d, amount) ==
    /\ NotPaused
    /\ Amendable(d)
    /\ runDraft[d].amendments < MaxAmendments
    /\ runDraft' = [runDraft EXCEPT ![d].total = amount, ![d].amendments = @ + 1]
    /\ UNCHANGED <<runDraftCounter, activeDraftForPeriod, draftFrame>>

FinalizeRunDraft(d) ==
    /\ NotPaused
    /\ runDraft[d].state = "Pending"
    /\ runDraft' = [runDraft EXCEPT ![d].state = "Finalized"]
    /\ UNCHANGED <<runDraftCounter, activeDraftForPeriod, draftFrame>>

AllowedDraftTransitions ==
    ({"Pending"} \X {"Finalized", "Submitted", "Cancelled", "Expired"})
    \cup ({"Finalized"} \X {"Submitted", "Cancelled", "Expired"})

\* submit_run_draft, cancel_run_draft and expire_run_draft differ in the state
\* they write.
MoveRunDraft(d, next) ==
    /\ NotPaused
    /\ <<runDraft[d].state, next>> \in AllowedDraftTransitions
    /\ runDraft' = [runDraft EXCEPT ![d].state = next]
    /\ UNCHANGED <<runDraftCounter, activeDraftForPeriod, draftFrame>>

SubmitRunDraft(d) == MoveRunDraft(d, "Submitted")

CancelRunDraft(d) == MoveRunDraft(d, "Cancelled")

ExpireRunDraft(d) == MoveRunDraft(d, "Expired")

----------------------------------------------------------------------------
(***************************************************************************)
(* Batch checkpoints.                                                      *)
(***************************************************************************)
checkpointFrame == <<draftVars, pauseManagerSet, pauseVars>>

BeginBatchExecutionCheckpoint(k, i) ==
    /\ batchCheckpoint[k] = None
    /\ batchCheckpoint' = [batchCheckpoint EXCEPT
                             ![k] = [state |-> "Started", last |-> i, total |-> 1,
                                     completed |-> FALSE, failed |-> FALSE]]
    /\ UNCHANGED <<resumes, checkpointFrame>>

\* Mutant: the failed flag is forgotten.
Progressed_StaleFlag(c, i, s) ==
    [c EXCEPT !.last = i, !.state = s, !.total = @ + 1, !.completed = (s = "Completed")]

Progressed(c, i, s) ==
    [c EXCEPT !.last = i, !.state = s, !.total = @ + 1,
              !.completed = (s = "Completed"), !.failed = (s = "Failed")]

CanCount(c) == c.total < MaxCheckpoints

RecordBatchCheckpointProgress(k, i, s) ==
    LET c == batchCheckpoint[k] IN
    /\ c # None
    /\ ~c.completed
    /\ ~c.failed
    /\ i >= c.last
    /\ s \notin {"Started", "Resumed"}
    /\ CanCount(c)
    /\ batchCheckpoint' = [batchCheckpoint EXCEPT ![k] = Progressed(c, i, s)]
    /\ UNCHANGED <<resumes, checkpointFrame>>

\* Mutant: a batch can be resumed twice from the same checkpoint.
Resumable_Again(c) == c.state \notin {"Completed", "Failed"}

Resumable(c) ==
    /\ c.state \notin {"Resumed", "Completed", "Failed"}
    /\ ~c.completed
    /\ ~c.failed

ResumeBatchExecution(k, i) ==
    /\ batchCheckpoint[k] # None
    /\ i = batchCheckpoint[k].last
    /\ Resumable(batchCheckpoint[k])
    /\ batchCheckpoint' = [batchCheckpoint EXCEPT ![k].state = "Resumed"]
    /\ resumes' = [resumes EXCEPT ![k] = @ + 1]
    /\ UNCHANGED checkpointFrame

SetPauseManager ==
    /\ pauseManagerSet' = TRUE
    /\ UNCHANGED <<draftVars, checkpointVars, pauseVars>>
----------------------------------------------------------------------------
Init ==
    /\ PauseInit
    /\ runDraftCounter = 0
    /\ runDraft = [i \in {} |-> None]
    /\ activeDraftForPeriod = [p \in Period |-> None]
    /\ batchCheckpoint = [k \in BatchKey |-> None]
    /\ resumes = [k \in BatchKey |-> 0]
    /\ pauseManagerSet = FALSE

DraftNext ==
    \/ \E amount \in Amount, p \in Period : CreateRunDraft(amount, p)
    \/ \E d \in DraftId, amount \in Amount : AmendRunDraft(d, amount)
    \/ \E d \in DraftId : FinalizeRunDraft(d)
    \/ \E d \in DraftId : SubmitRunDraft(d)
    \/ \E d \in DraftId : CancelRunDraft(d)
    \/ \E d \in DraftId : ExpireRunDraft(d)

CheckpointNext ==
    \/ \E k \in BatchKey, i \in Index : BeginBatchExecutionCheckpoint(k, i)
    \/ \E k \in BatchKey, i \in Index, s \in BatchCheckpointState :
         RecordBatchCheckpointProgress(k, i, s)
    \/ \E k \in BatchKey, i \in Index : ResumeBatchExecution(k, i)

Next ==
    \/ DraftNext
    \/ CheckpointNext
    \/ SetPauseManager
    \/ PauseNext /\ UNCHANGED <<draftVars, checkpointVars, pauseManagerSet>>

Spec == Init /\ [][Next]_vars

----------------------------------------------------------------------------
TypeOK ==
    /\ PauseTypeOK
    /\ runDraftCounter \in Nat
    /\ runDraft \in [DraftId -> PayrollRunDraft]
    /\ activeDraftForPeriod \in [Period -> DraftId \cup {None}]
    /\ batchCheckpoint \in [BatchKey -> BatchCheckpoint \cup {None}]
    /\ resumes \in [BatchKey -> Nat]
    /\ pauseManagerSet \in BOOLEAN

\* A period has at most one draft, and the index names it: create_run_draft
\* refuses a second one whatever became of the first (issue #398).
OneDraftPerPeriod ==
    \A d \in DraftId, p \in Period :
        runDraft[d].period = p <=> activeDraftForPeriod[p] = d

\* Finalizing a draft makes its terms permanent: from then on the total and
\* the number of amendments stand, and a submitted, cancelled or expired draft
\* does not change at all (finalize_run_draft, issue #89).
DraftStep ==
    \A d \in DraftId :
        /\ runDraft[d].state # "Pending" =>
             /\ runDraft'[d].total = runDraft[d].total
             /\ runDraft'[d].amendments = runDraft[d].amendments
             /\ runDraft'[d].state # "Pending"
        /\ runDraft[d].state \in {"Submitted", "Cancelled", "Expired"} =>
             runDraft'[d] = runDraft[d]

\* A batch moves forward: its checkpoint index never decreases, its counter of
\* checkpoints neither decreases nor passes its width, and once it is completed
\* or failed its checkpoint is never begun, advanced or resumed again
\* (ERR_BATCH_CHECKPOINT_MISMATCH).
CheckpointStep ==
    \A k \in BatchKey :
        batchCheckpoint[k] # None =>
            /\ batchCheckpoint'[k] # None
            /\ batchCheckpoint'[k].last >= batchCheckpoint[k].last
            /\ batchCheckpoint'[k].total \in batchCheckpoint[k].total..MaxCheckpoints
            /\ batchCheckpoint[k].state \in {"Completed", "Failed"} =>
                 batchCheckpoint'[k] = batchCheckpoint[k]

CheckpointsForward == [][CheckpointStep]_vars

\* A batch is resumed at most once from each checkpoint, so never more often
\* than checkpoints were recorded: two resume_batch_execution calls always
\* have progress between them.
ResumedOncePerCheckpoint ==
    \A k \in BatchKey :
        batchCheckpoint[k] # None => resumes[k] <= batchCheckpoint[k].total
=============================================================================
