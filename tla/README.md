# A TLA+ development for zk-payroll-contracts

This directory holds TLA+ models of the Soroban contracts under `contracts/`
and of the command-line client under `cli/`, the TLC configurations that check
them on small instances, and proofs checked by TLAPS that hold for every
instance. Paths and line numbers refer to the repository. `PROJECT.json` maps
each definition to the lines it models.

## 1. The system

A company pays employees through a set of contracts. Every invocation of a
contract is atomic: a panic anywhere in it, or in a contract it calls, undoes
everything. Concurrency is therefore the interleaving of whole invocations, by
different roles, on different contracts, with the ledger clock moving between
them. The command-line client is different: its commands are operating-system
processes over one SQLite file, which interleave statement by statement and can
die between two of them.

| component | state | operations | talks to |
|---|---|---|---|
| `payroll`: runs | run counter, nonces, pending / executed / cancelled records, canonical run state, pending counter | prepare, finalize, cancel, direct batch, reconcile, conformance hook, metadata and draft hashes | token, commitment contract, verifier, pause manager |
| `payroll`: treasury | locked funds, deposits, emergency request | deposit, request / approve / cancel withdrawal, reservations | token |
| `payroll`: roles, configuration | admin, treasury owner, three kinds of proposals, allowlist (twice), company state, pause manager | rotation, handover, allow / disallow, set state | - |
| `payroll`: reviews, archive | reviewers, one review per run, challenge flags, two archive markers | review, challenge, archive | clock |
| `payroll`: drafts, checkpoints | drafts, period index, batch checkpoints | create / amend / finalize / submit / cancel / expire, begin / progress / resume | pause manager |
| `payroll`: other records | compliance holds, reservation expiry, quorum, batch splits, evidence pointers, storage version | place, release, consume, record | clock |
| `salary_commitment` | active commitments, history, uniqueness index, locks, nullifiers, reference ids, roles | store, update, rotate, lock, unlock, nullify, set reference, rotate admin | pause manager |
| `pause_manager` | four pause categories, operator | pause, unpause, by category, rotate operator | asked by all |
| `proof_verifier` | verification key, proof references | set key, register, revoke, verify | ledger sequence |
| `payment_executor` | periods, payments, nullifiers, assets | create / close period, pay, batch | registry, commitment contract, verifier, token |
| `payroll_registry` | companies, employees, rotations, thresholds | register, add, remove, update, rotate | pause manager |
| `audit_module` | view keys, delegation lists, audit log | generate, refresh, delegate, extend, revoke, verify, report, query | pause manager, ledger sequence |
| `token` | balances | mint, transfer | - |
| `cli` | a database of salaries and blinding factors | init-company, add-employee, reconcile | SQLite, Soroban RPC |

What makes the system hard: a run can be resolved in several ways and its
reservation must be released exactly once; counters and indexes are stored
beside the records they summarise; two state machines (reconciliation and the
conformance hook) write one state; the admin can change in two ways while
runs, reviews and proposals are in flight; balances are checked in one
invocation and used in another; approvals, references and view keys expire;
delegations form graphs that a revocation walks; clients retry and crash.

## 2. Modules

`Payroll.tla` models the core of the payroll contract: 37 entry points as 35
actions, plus five environment actions (clock, pause managers, and the two
writes of the commitment contract's admin a batch depends on). Storage keys are
variables of the same name; a missing entry is `None`. The caller is not a
parameter, because an invocation by anybody but the address an entry point
authorises fails.

- `PreparePayrollRun`, `FinalizePayrollRun`, `CancelPayrollRun`,
  `BatchProcessPayroll`: all checks of the entry point are conjuncts in the
  order of the code; allocation of the identifier and the nonce
  (`AllocateRun`), the reservation, the canonical state and the pending counter
  are part of the action. A batch includes the calls it makes to the
  commitment contract (`BatchCommitments`) and the token transfers.
- `UpdateReconciliationStatus` and `TransitionPayrollRunState` share
  `AllowedTransitions`, the table of the source.
- A nonce is a pair of numbers, its two 16-byte halves; only the first is
  compared (`NonceValue`), both identify it.
- `add_locked_funds` and `subtract_locked_funds` are public functions of the
  contract as well as helpers. They are also modelled as entry points
  (`CallAddLockedFunds`, `CallSubtractLockedFunds`); `directLock` records their
  net effect, so that the properties can tell it from the reservations of runs.
- Left out: timestamps other than review times, employee counts, labels,
  events, the storage-version check (modelled in `PayrollRecords.tla`; it
  passes in every state `set_storage_version` can produce), and the proof
  verification inside a batch (constant true).

`PayrollProperties.tla` states what the contract guarantees, and two statements
of the documents that it does not keep. `RunLedger.tla` is the abstract
specification: run identifiers are taken in order, each run is reserved or
settled at once, a reserved run is settled or released once, and the reserved
amount moves only with them.

`PauseManager.tla` models the pause manager. It is extended by
`SalaryCommitment.tla`, `RunDrafts.tla`, `PayrollRegistry.tla` and
`AuditModule.tla`; all ask `IsPaused`, which is true as soon as one category is
paused. `Payroll.tla` uses a coarser view, the set of pause managers that answer
"paused". `Storage.tla` declares `None`, the missing entry, for the modules that
are combined with others.

`RunDrafts.tla` models the drafts and the batch checkpoints of the payroll
contract; `resumes` is a history variable. `PayrollRecords.tla` extends it with
the other records the contract keeps beside its runs: compliance holds,
expiring reservations, quorum approvals, evidence pointers, batch splits and
the storage version. A pointer's identifier is a hash of the content and the
time (`GeneratePointerId` keeps the two it is computed from), so evidence
created twice in one ledger has one identifier.

`PayrollRegistry.tla` models the registry: companies and the index from admins
to companies, employees, the two-step rotations of both roles and the approval
thresholds. `Reindexed` keeps the order of the two writes of
`accept_admin_rotation` (remove the old admin's entry, then set the new one's),
which matters when both are the same account.

`PaymentExecutor.tla` composes the registry, the verifier and the pause manager
with the executor and the token it moves. `Pay` holds all the checks and writes of `execute_payment` for a set of
payees: a single payment has one, and a batch, which the code runs as
consecutive single payments in one invocation, succeeds exactly when no payee
and no nullifier occurs twice and the treasury covers the sum. The key of a
payment is the employee and the period number, without the company, as in the
code. `receipt` is a history variable, the amount of each recorded payment,
which the code hands to the token and adds to the total but does not keep.
Employees are assumed not to be treasuries. The steps of the registry that the
executor can observe are steps of its specification, and so is the one step of
the verifier it can observe, the installation of the verification key: a
payment asks the verifier with two public inputs, the commitment and the amount,
and is refused until a key of the matching length is set.

`SalaryCommitment.tla` models the commitment contract and `ProofVerifier.tla`
the verification key and the proof references against the ledger sequence.

`AuditModule.tla` models view keys, delegations and the audit log.
`Descendants` is what `revoke_descendants` reaches: the smallest set that holds
the listed delegates and is closed under their lists. The recursion removes a
list only after it visited all its members, so on a cycle it does not come back
and the invocation fails; `Terminates` says when it does come back. Lists are
sets, since a duplicate entry changes nothing that is read. Ledger sequence and
timestamp are one clock. A query is modelled by the positions of the entries it
returns, in the order of the log. Key bytes and commitment openings only refuse a call
and are left out.

`PayrollCli.tla` models the client. A process has a program counter and its
local values; one step is one SQL statement, one RPC call or one block of
output. `Stop` kills a process, or fails its statement, at any step. Salaries
are `u64` values stored in a signed column: `ToColumn` and `FromColumn` wrap
modulo `Word`. A row keeps the blinding factor and the salary; `printed` is a
history variable, the openings of the commitments shown to the user. The public
keys of employees are `StellarKey` here.

The `*Proofs.tla` modules and `SumTheorems.tla` hold the theorems; section 5
says which is about what. The `MC*.tla` modules instantiate the specifications for TLC; each
`.cfg` is one run. Where elements of a set are only compared for equality the
set is declared symmetric. `name_Variant` definitions marked *Mutant* are
deliberately wrong forms of the definition that follows them; each property of
each passing run is violated by one of them, which shows that the property
depends on the code modelled by that definition.

## 3. Runs

Passing runs (no deadlock, no violation, all states explored):

| run | shows | instance |
|---|---|---|
| `lifecycle` | `RunPartition`, `PendingCountExact`, `StateAgreesWithRecords`, `EscapeHatch`, `SettlementFinal`, `ImplementsLedger` | three runs, every reconciliation status, the hook's states that matter for a resolved run, one pause manager; the first run is also reviewed, challenged and archived, with approval expiry 1 within two ticks |
| `funds` | `TypeOK`, `ReservationsBalance`, `TokensConserved`, `WithdrawalKeepsReservations`, `RunTermsKept` | two runs or batches over two employees, amounts 1 and 2 against a treasury of 3, two deposits, one draft hash, one direct reservation call |
| `roles` | `NonceOnce`, `NonceOrder`, `SupportedAssetsAgree`, `ConfigLocked` | two accounts, four nonces in two values, two assets, two company states |
| `records` | `OneDraftPerPeriod`, `ResumedOncePerCheckpoint`, `EvidenceIndexed`, `CheckpointsForward`, `TrailPermanent` | two periods, two amendments, two batches of up to four checkpoints, three holds, two assets, two approvals, two digests, two batches to split, versions 0 to 2, two ticks |
| `commitments` | `ValuesUnique`, `VersionChain`, `ReferencesInverse`, `HistoryAppendOnly` | two employees, four values, two reference ids; pausing as a whole and of a category other than payroll |
| `references` | `LifetimeCapped`, `UnusableForever` | two references, two proofs, lifetime cap 2 within five ledgers, two key lengths |
| `registry` | `AdminIndexSound`, `AdminProposalCurrent`, `ThresholdsWait` | two companies, two admins rotated into each other; employees, treasury and thresholds of one of them; thresholds 0 to 2, grace periods 0 and 1 |
| `executor` | `BooksExact`, `OnePeriodOpen`, `PaidInWindow`, `TokensFollowRecords`, `TreasuryOfCompanyPays` | two companies, two periods between them, two employees, two nullifiers, amounts -1, 0, 5 and 10 with 10 the least one allowed, proof age 1 within two ticks, one treasury rotation |
| `audit` | `NoOrphans`, `PeriodsPartition`, `CyclesPermanent` | three auditors, two of them granted keys, up to three entries in the delegation lists, expirations 0 and 1, one closed ledger, one log entry |
| `cli` | `PrintedOpensRow`, `ReportSound`, `CommandsEnd` | two processes, two employees and one other address, four-valued words, pages of up to two events of five kinds |

Why the bounds are enough. Two runs show every interaction of a pending run
with another pending, executed or cancelled one; `lifecycle` adds a third so
that the counter passes through an intermediate value and the mutated lock,
which is off by one, is caught. The treasury holds less than two large runs
need, so reservations exceed it. Two nonce values with two low halves give
equal values under different nonces. Two ticks let an approval be fresh and
expire, and be renewed before or after. Four values let an employee's
commitment be stored, updated and rotated while another employee competes for
the values. A lifetime cap of two ledgers within five lets a reference expire
with time left to register again. Two companies and two admins let an account
administer both and lose either. Two periods between two companies are either
two of one company, the second after the first is closed, or one of each with
the same number; a treasury covers one payment of 10 and not two, so a batch
can be refused for its second payment. Three auditors and three list entries
allow chains of depth two, a delegate with two parents, a self-delegation and
cycles of two and three. Two processes are enough for every race of one command
with another; a word of four values makes the salary 3 a negative column.

Two runs restrict what is explored with a state constraint. In `lifecycle`,
reviews and time are explored for the first run before a second one is started:
reviews are stored per run and no entry point reads those of another run. In
`records`, each family of records is explored by itself: the families share the
pause manager, the admin and the clock, and no operation of one reads another.

Runs that must find a violation, each for a statement of the repository the
code does not keep:

| run | statement | what happens |
|---|---|---|
| `doc_admin` | lib.rs:782-788, the acting admin does not change while a run is pending | `accept_admin_handover` does not pass the gate |
| `doc_nonce` | docs/payroll-idempotency-and-replay-protection.md:98-105, a new nonce executes normally | a second batch meets the nullifiers of the first, which depend on positions alone |

Other places where text and code differ, seen while modelling and without a
run:

- Runs. `finalize_payroll_run` writes `ReconciliationRequired` over
  `Submitted` and over terminal states, which docs/payroll-state-machine.md:23,55
  excludes; it moves no token, though lib.rs:2285 and
  docs/reconciliation-states.md:27 say payments are executed; the hook reaches
  `Completed` without reconciliation (docs/payroll-state-machine.md:18);
  `Failed` to `Reconciled` and updates of settled runs are refused
  (docs/reconciliation-states.md:68-70 allows them); `prepare_payroll_run` does
  not consume the draft commitment (lib.rs:2485); a rotation proposal can
  outlive its proposer (lib.rs:3034); `archive_payroll_run_with_reason` ignores
  challenges (lib.rs:3883); a rejection does not stop finalization
  (docs/security/reviewer-authorization.md:50).
- Records beside runs. No execution path reads a compliance hold, though
  lib.rs:276 has it block "affected payroll execution"; holds do not compare
  the caller with the stored admin (lib.rs:3700, 3761);
  `release_expired_reservation` does not touch the locked funds (lib.rs:3831
  speaks of making "funds available"); the totals of child batches are not
  compared with the parent's (lib.rs:366); `ActiveDraftForPeriod` outlives the
  pending draft (lib.rs:523-526, acknowledged at 2647-2650).
- Commitments and references. `store_commitment` replaces a locked commitment
  (salary_commitment lib.rs:76-78); the version restarts on rotation
  (docs/sdk-interface-spec.md:954); with an operator set, the admin cannot
  record nullifiers (salary_commitment lib.rs:433); a reference is still usable
  in the ledger its field comment calls the first unusable one (proof_verifier
  lib.rs:39).
- Registry and executor. An account can administer two companies after a
  rotation and is then indexed for one of them at most (payroll_registry
  lib.rs:106 rejects duplicates at registration only); a treasury rotation is
  proposed by the admin; `set_initial_approval_threshold` does not ask for a
  registered company or for its admin; the executor does not consult an
  employee's eligibility status (payroll_registry lib.rs:28-29); periods of two
  companies with the same number share the payment key (payment_executor
  lib.rs:31 speaks of "a unique period per company"), so an employee of both is
  refused the second payment.
- Audit. Queries return entries for the company "default" only (lib.rs:703-705
  and docs/sdk-interface-spec.md:896 speak of entries per company); the entry
  for a mismatch is rolled back with the call (docs/sdk-interface-spec.md:842,
  "Records audit log entry"); the scope checked on verification is the
  caller's argument, not the key's; authorization looks at the parent and no
  further up; a revocation also takes the key of a listed auditor that was
  granted anew by somebody else; delegating and extending do not ask the pause
  manager; a refresh does not raise the limit for delegates; generated keys
  name the module's own address as granter.
- Client. The executor publishes the company as a number
  (events/src/lib.rs:495-506) while cli/src/rpc.rs:11 expects a symbol, so its
  payments are not among those `reconcile` reports; one page of at most 200
  events is read, without a cursor (rpc.rs:89); a message names a command
  `update-salary` that does not exist; a process that dies between the insert
  and the output leaves a row whose commitment was never shown, and a retry is
  refused; the commitment is computed by three different functions in
  salary_commitment (lib.rs:460), the client and the audit module.

## 4. Fairness and liveness

No entry point of a contract is ever called by the system itself: everything
happens because somebody decides to call it, and nothing obliges anybody to.
The specifications of contracts therefore state no fairness, and progress is
stated as possibility: `EscapeHatch` says that every pending run can be
cancelled in every reachable state.

The client does run by itself once started. `PayrollCli!Fairness` is weak
fairness of the steps of each process: the operating system schedules it,
SQLite's busy timeout returns, and the HTTP client gives up after thirty
seconds (`FetchTimeout`). The answer of the RPC, the start of a command and the
death of a process are not fair. `CommandsEnd` says that under this assumption
every started command ends; without the timeout it does not.

## 5. Proofs

Assumptions on constants are the `ASSUME`s of each module: amounts are positive
naturals, inputs have the types of the arguments, `None` is no stored value.
They leave the number of runs, accounts, employees, auditors, processes and
periods arbitrary; every bound of an instance is a constant, and the theorems
hold for all its values. In the proof modules `USE Zenon` makes Zenon the prover
of every leaf that names none; the leaves about arithmetic, records or sequences
name `SMT`.

`SumTheorems.tla`: lemmas about `SumFunctionOnSet`, the sum of a function over a
finite set. The library's induction theorems take an operator, which the provers
cannot instantiate, but induction over the subsets of a finite set can be stated
with a set in its place (`SubsetInduction`, from the well-foundedness of the
strict subset order). The sum is an entry of a table defined by recursion on the
set; the table exists and is unique (`SumTableExists`, `SumTableUnique`), which
gives the equation that takes out one element (`SumUnfold`). From there, by the
same induction: any element can be the one taken out (`SumRemove`), a sum
changes by the difference when one term does (`SumChange`), splits over a
disjoint union (`SumUnion`) and over a sum of functions (`SumPlus`).

`PayrollProofs.tla`
- `TypeCorrect`: `Spec => []TypeOK`. Each group of actions keeps the types of
  the groups of variables it touches (`RunTypeStep`, `FundTypeStep`, ...). The
  treasury stays a natural number because a batch and a withdrawal are checked
  against the balance.
- `RunPartitionHolds`: `Spec => []RunPartition`. The invariant is inductive
  together with `TypeOK`: a fresh identifier has no record because it is above
  the counter, a resolved run leaves `pendingRun` in the step that writes the
  other record, and nothing removes those.
- `PendingCancellableHolds`: every pending run passes the whole guard of
  `CancelPayrollRun`. This is what `EscapeHatch` comes down to once `ENABLED` is
  set aside, and it follows from the partition.

`PayrollRunProofs.tla`
- `ImplementsLedgerHolds`: `Spec => ImplementsLedger`, the refinement of
  `RunLedger`. `LedgerStep` shows for each action which abstract step it is,
  with the run's status read off the three records (`LedgerReads`, which is
  where the partition is needed); the other actions leave the mapped variables
  alone.
- `NonceOnceHolds`, `NonceOrderHolds`. `NonceOrder` is not inductive: it says
  nothing of the nonce stored as an admin's last one. `LastNonce` adds that it
  is at least every nonce of that admin's runs; then a nonce above the last one
  is above all of them, also after other admins took turns.
- `RunTermsHold`, `SettlementFinalHolds`, `StateAgreesHolds`. One lemma
  (`RecordStep`) shows for each operation that it respects the records. The
  partition is what makes it go through: the stored state of an executed or
  cancelled run is present, so the table of transitions, in which `Completed`
  and `Cancelled` have no successor, applies to it.

`PayrollLedgerProofs.tla`
- `PendingCountHolds`: `Spec => []PendingCountExact`. From the partition: a
  prepared run is a new element of the finite set of pending runs, a resolved
  one an element that leaves it.
- `ConfigLockHolds`: `Spec => ConfigLocked`. With the counter exact, a non-empty
  set of pending runs makes the guard `pendingRunCount = 0` false, and every
  action that changes the locked configuration has that guard.
- `ReservationsBalanceHolds`. `ReservationCases` sorts the steps into three: a
  run is added to the pending ones, a run is taken from them, or the pending
  runs stay and `lockedFunds` moves only together with `directLock`. The sum
  over the pending runs gains or loses one term in the first two.
- `WithdrawalKeepsReservationsHolds`, from the balance of reservations: the
  withdrawal is checked, when it is approved, against `lockedFunds`, which is
  the sum the property speaks of.
- `TokensConservedHolds`: a batch moves the sum of its payments, computed from
  the amounts, and adds each payment to one employee; the two sums are equal
  whatever the number of employees (`SumTheorems`).
- `SupportedAssetsAgreeHolds`: the list does not exist until the first change,
  so the invariant is about the list the next change would start from.

`PaymentExecutorProofs.tla`: what each step of the executor keeps (`NextKeeps`),
then the registry and the verifier it asks
- `AdminIndexSoundHolds`, `AdminProposalCurrentHolds`, `ThresholdsWaitHolds`,
  from `RegistryInv`: types, the two invariants, and `SequenceFresh`, that a
  company number not handed out yet has no company. Without the last a
  registration could overwrite a company that the index or a proposal names.
- `LifetimeCappedHolds` and `UnusableForeverHolds`, from the invariant that a
  stored reference was registered in the past and expires within the cap
  (`ReferencesWithinCap`); `LifetimeCapped` alone is not inductive, because it
  says nothing of a reference while it is revoked.

`PaymentBooksProofs.tla`
- `OnePeriodOpenHolds`, `PaidInWindowHolds`, `NullifiersExactHolds` (a conjunct
  of `BooksExact`), from `ExecutorInv`: types of periods, `OnePeriodOpen`, and
  for every recorded payment the window of its period and its own nullifier.
  `PeriodsStay` says that a period keeps its start and, once closed, its end,
  which is why a payment recorded in time stays so.
- `BooksExactHolds`, `TokensFollowRecordsHolds`, `TreasuryOfCompanyPaysHolds`,
  from `RegistryInv`, `ExecutorInv` and `BooksInv`: amounts are naturals,
  nothing is noted for a payment not made (`MoneyOK`), and totals, counts and
  tokens agree with the records. A payment adds its payees to those paid in one
  period by one company: they are new because `Unpaid` looks at the record of
  the employee and the period whoever wrote it, so the sum of that period grows
  by the sum of the batch and all other sums stay (`PayPaidIn`). The registry's
  invariant is needed because the treasury that is debited is read from it
  (`RegistryStays`).

`SalaryCommitmentProofs.tla`, first about the client, then about the contract
- `PrintedOpensRowHolds`, `ReportSoundHolds`, from `CliInv`: for each process
  what its local values promise at its program counter (`HeldOK`), and that
  printed openings match rows. Rows are never changed or removed
  (`RowsKept`), so what another process holds stays true (`OthersKeep`), and a
  salary read back from the signed column is the one written
  (`ColumnRoundTrip`).
- `ReferencesInverseHolds`: the two reference maps are inverse. Inductive with
  their types; the only writer is `set_employee_reference_id`, and the guard
  that the new identifier is free or the employee's own is what keeps two
  employees apart.
- `ValuesUniqueHolds`: no commitment value is bound twice. The invariant speaks
  of positions (0 is the active record, i the i-th snapshot). A store replaces
  position 0 by a value outside the index; an update or a rotation moves the
  value of position 0 to the end of the history and puts a new one in its
  place, which is an injection of the new positions other than 0 into the old
  ones.
- `VersionChainHolds`, by appending one snapshot to a chain, and
  `HistoryAppendOnlyHolds`, which also needs that only the pause manager's own
  categories are ever paused (`CategoriesOK`).

`PayrollRecordsProofs.tla`, first about the audit module, then about the records
- `PeriodsPartitionHolds`, from `LogInv`: no entry is stamped later than the
  clock. The positions in the two periods are disjoint and cover the log, and so
  do, in each, those that passed and those that failed.
- `NoOrphansHolds`, from `AuditInv`: `NoOrphans` and `ChildrenListed`, that a
  parent lists the holders of the keys it delegated. A revocation takes a set
  closed under the lists (`DescendantsClosed`), so with a parent its children go.
- `CyclesPermanentHolds`: delegation only adds to the lists, and a revocation
  that returns has met no cycle, so it removes no list of one.
- `OneDraftPerPeriodHolds`: inductive with the types (`DraftInv`), since no
  amendment or change of state touches the period of a draft.
- `ResumedOncePerCheckpointHolds`, `CheckpointsForwardHolds`, from
  `CheckpointInv`: a batch was resumed at most as often as checkpoints were
  recorded, equally often only while it is in state `Resumed`, and the two flags
  agree with the state. The middle part is what a second resume runs into.
- `EvidenceIndexedHolds`: inductive by itself. `TrailPermanentHolds` needs
  `HoldsCounted`, that the hold identifiers are 1 to n: the next identifier is
  computed from their number and must be free.

Only model-checked: liveness (`CommandsEnd`) and what is stated with `ENABLED`
(`EscapeHatch`), for the prover has neither. Every other property of a passing
run is also a theorem.

## 6. Not modelled

- Cryptography: commitment hashes, Groth16 verification, the circuits and their
  prover. Where the code branches on a verdict the model branches on it too;
  what the verdict means is outside TLA+'s reach.
- `events`, `shared_errors`, `module_template`: no state of the system. The
  shape of the events the client reads is modelled in `PayrollCli.tla`.
- `payroll/src/idempotency.rs`, `payroll/src/assets.rs` and
  `audit_module/src/challenge.rs`: no `mod` declaration reaches them, so they
  are not part of any contract.
- The checksum of a wallet string in `add_employee_by_wallet`
  (payroll_registry lib.rs:310-398): it only refuses the call, and its loops
  over bits are beyond TLC's evaluation depth.
- Poseidon, XDR decoding and the layout of the report in the client.

Hazards known and without a property of their own: a batch is compared with the
treasury balance, reserved funds included (lib.rs:2550), which the source does
not promise otherwise; the storage-version gate (1294) passes in every state
that can be written; the two archive markers are independent (3889); the payroll
contract and the executor may be given different pause managers (executor 382);
one draft can back several runs (2200); a rotation proposal survives a handover
(3205); one page of events is read (cli rpc.rs:89).
