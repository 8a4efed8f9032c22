# Verification of the validator scoring sidecar

TLA+ models of the sidecar, TLC runs over small instances of them, and TLAPS
proofs for every value of the constants. The reference is the code under
`src/src/validator_scoring_sidecar/`; `PROJECT.json` says, for every definition,
which lines it stands for.

## The system

A validator operator runs one *sidecar*. For each scoring round of the foundation
it downloads the frozen input package, scores it with a pinned model, **commits**
to a salted hash of its outputs by a memo transaction on the PFTL chain while the
round's commit window is open, and **reveals** outputs and salt in the later
reveal window. What must be right is the order of this: commit before anybody can
know the outputs, reveal exactly what was committed, never early, through any
kill, retry, RPC failure or second command on the same data directory.

    entrypoint.sh loop ──► participate pass ──┬─ score phase   (short locked sections)
    (watchdog, interval)                      └─ chain phases  (one locked section)
                                                 reveals ► announcement walk ► commits
    operator one-shots: score, sync, fetch-input-package, preflight, ...
                  │                                   │
             SQLite store, package cache,        PFTL RPC: close time, account_tx,
             hashes files, flock                 submit_and_wait
                  │
             foundation scoring API, IPFS, Modal or local inference

### Inventory

| Component (source) | State it keeps | Operations | What is hard | What makes it correct |
|---|---|---|---|---|
| Round store (`state.py`) | one SQLite row per round, chain cursor, publisher cache, schema version | one upsert per lifecycle step, each its own transaction; queries for pending commits and reveals | an upsert must keep columns it does not own; migrations are several transactions | nothing a reveal needs is ever lost or moved once the round is bound to it |
| Participation pass (`participate.py`) | none between passes | score, reveal all, walk announcements, commit all | error containment: which failure ends the round, the phase, or the pass | each pass idempotent; a committed round settles whatever the other rounds do |
| Commit (`commit.py`) | the row | window gate, scan for an own commit, persist salt, broadcast, record | kill between persist, broadcast and record; commit still in flight; low balance | persist before broadcast, reuse the salt, never seal twice |
| Reveal (`reveal.py`) | the row | integrity guard, window gate, scan, broadcast, record or miss | same, plus the outputs may have been re-scored | reveals only what opens the commit, never early, always in the end |
| Commit-reveal protocol (`scoring/_vendor_source/commit_reveal.py`) | none | commitment hash, memo encoding, window order | - | binding and hiding; windows ordered |
| Scoring workflow (`score.py`, `verification.py`) | the row, one hashes file per package | read row, fetch, infer, write hashes, record; deferred comparison | state read under the lock and written back after it was released | never takes a committed round back |
| Lock and sync (`sync.py`) | an flock | non-blocking acquire; sync command | no waiting: whoever finds it held fails | store writes of two processes never overlap |
| Chain access (`chain.py`) | the cursor, in the store | poll with paging and cursor, decode announcements, authored-memo scan, submit and wait | pruned history, cursor inside a ledger, 200-entry scan limit | no announcement skipped or repeated |
| Inference (`inference.py`, `_modal_app.py`) | call id, in the row | submit, poll, resume, cancel, local request | timeout against a late answer, resume after a kill | a generation is paid for again only for a fault, and none beyond the commit deadline |
| Input packages (`input_package.py`) | cache directory per package | fetch, verify, replace atomically | kill between two renames, concurrent fetch | a cached package is complete and verified |
| Deployment (`deployment.py`, `manifest.py`, `modal_deployer.py`, `local_runtime.py`) | deployment record file, Modal app, local container | choose latest deployable round, check, deploy | stale record, race of two deployers | no deploy loop, never scores with a mismatching runtime |
| Validator list (`scoring/selector.py`) | none | UNL selection with seats, cap and gap | ties, thresholds, cap, repeated selection | bounded size and churn, incumbents kept, no oscillation |
| Score formulas (`scoring/formula.py`, `diversity.py`) | none | arithmetic on one validator's figures | - | - |
| Response parsing (`scoring/parser.py`) | none | parse model text | text | - |
| Publisher account (`participate.py` 815-848, `state.py` 850-948) | cached address, one cursor per account | resolve, fall back to the cache | the foundation moves while passes run and die | memos go to the account in use, nothing announced there is lost |
| Preflight (`preflight.py`) | none of its own | checks of keys, node, balance and publisher; its reproduction calls `score_round`, which writes the latest round's row | - | - |
| Entrypoint (`entrypoint.sh`) | timer marker | loop, watchdog, signals | pass, timer and signal race | the loop never hangs |
| CLI, config, wallet, HTTP client | none | argument and error mapping | - | - |

The hazards each of them is exposed to, with their lines, are listed in
`PROJECT.json`.

## The modules

| Module | Models | Extends |
|---|---|---|
| `RoundStore` | one row of `sidecar_rounds`, the writes and queries of `state.py` as operators on rows | `Naturals` |
| `Ledger` | the chain as the sidecar uses it: close time, transactions in flight, validated, expired, and the limited scan | `RoundStore` |
| `Participation` | processes: participation loops and `score` one-shots, the lock, every step of score, reveal, walk and commit; kills and the environment | `Ledger` |
| `SealedRound` | the abstract promise: a round is sealed once, opened only with the sealed body and not before its time | - |
| `ParticipationProperties` | all properties, the refinement mapping, the inductive invariant | `Participation`, instance of `SealedRound` |
| `MCParticipation` | constants for TLC | `ParticipationProperties` |
| `AnnouncementFeed` | the abstract promise to the walk: the publisher's transactions in order, at least once, none passed over that is still retained | `Naturals`, `Sequences` |
| `ChainWatcher` | `PftlAccountWatcher` with the walk that consumes it, a node that closes and prunes ledgers meanwhile, interrupted passes | instance of `AnnouncementFeed` |
| `PublisherAccount` | which account a pass watches and writes to when the foundation moves; cursors, windows and commits per account | - |
| `PublisherProperties` | its properties, the refinement mapping and the inductive invariant | instances of `PublisherAccount` and `AnnouncementFeed` |
| `InferenceJob` | one round's inference: budget, submit, poll, resume by call id, the direct transport, the row and the lock around them | - |
| `PackageCache` | the package directory under forced and plain fetches, sync and score: file by file, rename by rename | - |
| `RuntimeProvisioning`, `MCRuntime` | manifest gate, deployment record, Modal app and local container, the commands that deploy, and scoring on what they left | - |
| `SchemaMigration` | `open()` on the store of any release, statement by statement | - |
| `UNLSelection`, `MCSelection` | `select_unl`, one validator at a time, and selections repeated from their result | - |
| `Watchdog` | `entrypoint.sh`: shell, pass, watchdog subshell, trap, marker files, restarts | - |

`Participation`, `ChainWatcher`, `InferenceJob`, `PackageCache`, `RuntimeProvisioning`,
`SchemaMigration`, `UNLSelection` and `Watchdog` each have a module `..._proofs`; the
theorems about `PublisherAccount` are in `ChainWatcher_proofs`, which extends
`PublisherProperties` beside `ChainWatcher`: one is a feed, the other a feed for each account.

The components meet at narrow interfaces, and each module takes the others' side
of it as small as the promise it relies on:

- `Participation` models what an announcement does to the store and takes the feed
  as a sequence read in order from the cursor; `ChainWatcher` shows that paging,
  pruning and the stored cursor provide such a feed. The interface is
  `AnnouncementFeed`. `PublisherAccount` has one such feed for each account.
- `Participation` takes a scoring as an output that may differ from the one before;
  what a scoring costs and whether it ends is `InferenceJob`, on which runtime it
  ran is `RuntimeProvisioning`, from which files is `PackageCache`, and what the
  scores become is `UNLSelection`.
- `Watchdog` gives the kills and the restarts that every other module takes as
  faults, and the fairness they rest on: the next pass comes.
- Every module takes for granted a store that `SchemaMigration` has opened.

### State and code

An action is one step between two points where something else may happen: a
locked section, a write, an RPC, a rename, a statement. A comment over it says which.

**Participation.**

| Variable | In the code |
|---|---|
| `rows` | table `sidecar_rounds`; a row in state `"ABSENT"` does not exist. NULL is `None`, or 0 for a salt or a transaction hash |
| `files` | `verification_hashes` file of the round's package |
| `cursor` | `chain_cursors`, as the number of announcements passed |
| `lock` | `SidecarLock`, for the section that spans steps (the chain phases); the score phase's short sections are single actions guarded by `lock = None` |
| `proc` | the locals of a running command, by program counter: close time read, body to send, row as read before the lock was released |
| `latest`, `feed` | the foundation's latest round and the publisher's announcements |
| `now`, `pool`, `ledger`, `buried`, `nextTx` | the chain: close time of the validated ledger, own transactions in flight and validated, entries out of the scan's reach |
| `sent`, `sent_at` | history: everything ever broadcast and when; no action reads them |
| `nextSalt` | `os.urandom` never repeats |

`CommitClock → CommitRecover | CommitWindowClosed | CommitSignerFails |
CommitPersist → CommitBroadcast | CommitLowBalance → CommitConfirmed |
SubmissionFailed` is `submit_commit` in the order of its branches, and
`RevealClock → ...` is `submit_reveal`. `Crash` stands for the watchdog's kill,
an operator's, and any `PftlRpcError`, `SidecarStateError` or lost lock race,
which all end a pass in the same way: the lock goes, the store stays.

**ChainWatcher.** `cursor` is the row of `chain_cursors` (absent: `NoCursor`);
`min`, `marker`, `entries`, `retries` are locals of `_fetch_all` and `_fetch_pages`,
`todo` the list `poll` returned, less what the walk has passed; `log`, `latest`,
`floor` are the node's account history, its latest validated and its earliest
retained ledger; `handled` is a history. A transaction is its index in `log`; the
marker is the index of the next page's first entry. `AfterCursor` and
`CursorMissing` are `_after_cursor` as a set: the loop's flags amount to them since
the list is sorted by ledger and stable within one.

**PublisherAccount.** `cached` is table `foundation_publisher`, `cursors` the
`chain_cursors` row of each account, `windows` and `committed` what the round rows
hold; `publisher`, `announced`, `listed` are the foundation's side. `memos` are the commits in
the order they were sent: on their way, validated, behind 200 newer entries of their
account, or dropped. `Commit → Broadcast → Record | SubmissionFailed` is `submit_commit` with its
scan, its broadcast and its wait. `answered`, `current`, `skipped`, and of a memo that
its pass has `abandoned` it, are histories.

**InferenceJob.** `row` is state, error category and `inference_call_id`; `job` the
server's generations by call id, with `submitted` their number; `otherHolds` the lock
in another command's hands; `windowLeft` the time to `commit_closes_at`, in poll
intervals; in `proc`, `budget` is what is left of `poll_deadline`, `fresh` whether this pass
has already submitted (`ModalBackend` resubmits once after a failed resume, never has already submitted (`ModalBackend` resubmits once after a failed resume, never after
its own submit), `capped` whether the deadline was known. What became of a call id is
kept in three histories: it never got into the row (`lost`), the row had it and forgot it
(`erased`), a poll of it was answered with FAILED (`denied`), true or not.

**PackageCache.** `cache`, `temp[p]`, `old[p]` are the directories `<hash>`, `.<hash>.tmp-*`
and `.<hash>.old-*`, each absent, partial, whole or corrupt; `row` is the round's state
with its hash of `selected_unl` and its commit; `holder` the lock, which the sync keeps over its
fetch and a score only takes for single writes.

**RuntimeProvisioning.** `record` is `deployment_record.json`; `modalApp` and
`container` what the two endpoints serve. A manifest is the value it pins for each
runtime field plus the set of fields that fail on their own; `Check` is
`check_compatibility`, field group by field group. `verdict` and `scoredOn` are the outcome
of a round and, as a history, the runtime that produced it. Three more histories are for
the properties: `last` (the loop's last recorded deployment), `unrecorded` (modes whose
endpoint changed and whose record did not follow) and `untouched` (commands that
nobody has overtaken with a deployment since they deployed or read the record).

**SchemaMigration.** `version` is `user_version`, `schema` the tables, index and
columns there are; `proc` where a command is in `_ensure_schema`, with the columns
`PRAGMA table_info` told it.

**UNLSelection.** `waiting` is the part of the sorted list not yet placed; a list in
rank order is the set of its members, as nothing but membership and rank is used.
`Repeat` and `Improve` select again, to compare two runs of a function.

**Watchdog.** `shell` is the line the entrypoint is at, `run` the pass's process id and
phase, `watchdog` the subshell, `markers` the files `/tmp/...timeout.<pid>`, `age` the
seconds since the pass began in units of the head-room. `rang` and `stale` are histories.

### What is abstracted

- The three output fingerprints are one value, since every query and guard of the
  chain phases asks for all of them; two scorings of a round may give different
  outputs, as two runtimes can.
- The commitment is the pair of what is hashed (binding and hiding). Round,
  network and validator key are those of the row; a changed key is a
  `RevealError`, as an output that no longer opens is.
- The four window columns are one record, in the announced order, which the
  decoder has validated.
- One clock: `score.py` bounds inference by the host's time, the chain phases read
  the ledger's close time; `Participation` takes them as equal.
- In the short locked sections of the score phase a lock that is taken raises; in
  `Participation` this is a pass that ends, like any other `Crash`. `InferenceJob` has the
  one place that swallows it (`persist_call_id`).
- A round's frozen input never changes, so `matches_frozen_input` is true.
- Announcement decoding is accept or reject.
- The RPC node of `ChainWatcher` has one contiguous range of ledgers, prunes from
  below and never answers from a state older than an earlier answer. What it returns
  for an unbounded request starts at its floor. Malformed pages, repeated markers
  and transport failures end the pass (`Interrupt`). In `PublisherAccount`
  windows stay open and commits are funded: that is `Participation`.
- The ledger's publisher traffic beyond the scan limit is `Bury`.
- `InferenceJob`: a submit, a poll and a local request answer in no time or fail; what
  takes time is the wait between polls and a direct request. The warm-up's own probe
  is in `RuntimeProvisioning`.
- `PackageCache`: one package, and directories orphaned by a kill, which nobody reads
  again, are forgotten. The content of a download either verifies or does not.
- `RuntimeProvisioning`: a field's value is one of a small set; the launch arguments are
  one field, as the gate compares their canonical list. A generation succeeds or fails.
  All local launches use one port, so a second container fails to start; the code takes
  a port as an argument.
- `Watchdog`: the shell's own steps take no time, and the sleep between two passes has no length.

## Runs

Bounds appear only in the guards of the actions they bound. TLC's deadlock check is on
in all runs but `MCInference`, where a round that is scored really is the end.

| Run | Instance | Question |
|---|---|---|
| `MCSafety` | one loop, one round, two outputs, two announceable windows, two announcements, two faults of every kind but low balance and lost files | revealable commits, one body for all that is sent of a round, recorded hashes on chain, no early reveal, sealed rows fixed, nothing taken back, refinement of `SealedRound` |
| `MCConcurrent` | a loop beside a `score` command, two outputs, a kill, low balance or lost file | the two hardest properties under interleaving of the unlocked score phase with the chain phases |
| `MCLiveness` | two rounds, one loop, a kill, an expiry or a signer failure | a commit that landed while nobody waited is recovered, also after its window closed and with another round in hand; a committed round settles |
| `MCUnrevealable` | one loop, low balance and kills | expected violation, see below |
| `MCChainWatcher` | three ledgers, up to two transactions in each, one retry, one interrupted pass | the cursor's transaction is always found, every transaction is handled or pruned in the end, refinement of `AnnouncementFeed` |
| `MCPublisher` | two accounts, two rounds, two moves, one mishap (a kill or a dropped transaction), accounts that grow busy at any time | what is sent twice to an account, memos only to the account in use, every announcement handled |
| `MCInference` | window 5, timeout 3, margin 1, least read timeout 2, three faults, five generations | who pays for what and when, how often, and an end |
| `MCPackage` | an operator and the sync loop, two forced fetches, two faults, damage on disk | the cache is whole, survives and comes back |
| `MCRuntime` | a loop and an operator, two rounds of five manifests, one operator's record, one fault | no deploy loop, no local record replaced knowingly, honest scores, an end |
| `MCSchema` | two commands, stores of versions 0 to 8, three faults | an open store is complete, and every store opens in the end |
| `MCSelection` | four validators, scores up to three, sizes one to three, gaps zero to two, every previous UNL | churn, idempotence, monotonicity, agreement with the ranking |
| `MCWatchdog` | timeouts on both sides of each bound the script checks, one crash, two process ids | no legitimate inference killed, 124 has a cause, the loop goes on |

Why the bounds are enough:

- *Participation.* `MaxTime` 2 is past the close of `ShortWindow`'s reveal window and
  reaches the commit window of `LateWindow` and the boundary of its two windows, so
  every gate is met on each side. Two faults give a kill after a broadcast and
  a second adverse event at its recovery. Two outputs let a re-scored round disagree with its
  commitment; two windows let a repeated announcement try to move them. One process of
  each kind is enough for the pairs of steps that race, as all chain phases are
  under one lock. Outputs are symmetric where no property is about two of them.
- *ChainWatcher.* Two transactions in a ledger put the cursor inside one; three
  ledgers leave one before, at and after it, and let the node prune the cursor's own
  and the next. Pages are cut at every place, so the page limit needs no constant.
- *PublisherAccount.* Two moves return the foundation to an account it had left. One mishap is
  enough for a round to be sent twice to an account, in each way there is: the transaction was
  dropped, or its pass was killed while it flew, or between its validation and the
  record with the account grown busy since (`Bury` has no bound, as there are finitely many memos).
- *InferenceJob.* A window of 5 with timeout 3 lets a first call use all of its budget, a second be
  cut to the deadline, and the last find less than `MinRead` left; three faults can lose
  an id, expire a result and kill the pass that resumes it. Five generations are one more
  than `RepeatsAreOwed` allows, so that bound is never what makes it hold.
- *PackageCache.* Two forced fetches are what it takes to have the second's rename find the
  first's directory, or none.
- *RuntimeProvisioning.* Two runtimes and the three ways in which a manifest cannot be deployed
  (dry run, code drift, not deployable) are the cases `_resolve_runtime` distinguishes.
- *SchemaMigration.* Every statement can be the one at which a command is killed, and
  the command that takes over can be killed too; the third fault is for a third attempt.
- *UNLSelection.* Four validators for three seats let two challengers meet two incumbents.
- *Watchdog.* Two process ids let a restarted container get the old one or a new one.

### Fairness

- `Participation`: each loop keeps taking steps (`WF Pass(p)`), since `entrypoint.sh`
  starts the next pass after every one that ends and its watchdog ends one that
  hangs, which `MCWatchdog` shows. One-shots get none: the operator may never start them. The
  chain keeps closing ledgers, and what is in flight does not stay there for
  ever: `submit_and_wait` sets a last ledger sequence.
- `ChainWatcher`: a started pass goes on and is followed by another; nothing is asked
  of the node.
- `PublisherAccount`: passes go on; the configuration endpoint, asked for ever, answers
  again and again (`SF` of discovery), and so does the list of rounds (`SF` of a walk step that
  finds its round); a transaction has a last ledger, so it lands if it is not dropped.
- `InferenceJob`: passes are repeated, the server works on what it accepted, the clock
  runs, no command holds the lock for ever.
- `PackageCache`: a running command goes on, the sync loop starts its next pass.
- `RuntimeProvisioning`: a running command goes on; the loop's passes are started again
  though the operator's commands come between (`SF`).
- `SchemaMigration`: a command in `open()` goes on; one that wants the lock gets it in the
  end (`SF`), since the loop tries again and again.
- `Watchdog`: shell and subshell go on, time passes, a timed-out inference returns, Docker
  restarts the container (`restart: unless-stopped`). Nothing of the pass: it may hang
  anywhere and ignore SIGTERM.

Faults are finitely many by their bound: no code survives a kill in every pass.

### Preconditions of the properties

- `CommittedIsRevealable` and `NoDowngrade` are claimed of one process whose hashes files
  stay (a lost one has its round scored again, whatever its state); the first, and
  `OneBodyPerRound`, also of commits that are funded. `MCUnrevealable` is what low balance does.
- `CommittedRoundSettles` needs a latest round whose scoring does not raise in every
  pass (`BrokenRounds = {}`).
- `PaidOnlyWhenCutOff` and `RepeatsAreOwed` are claimed of one scoring command: two may submit
  side by side. The first excuses what the row has forgotten, to a sync or a score, and what
  the endpoint has called failed; the second counts each of these as a fault.
- `NoDeployLoop` is about deployments that were recorded: one that fails is repeated by every
  pass for as long as it fails.
- `EachHandled` counts an announcement whose round is not listed yet as handled, as the
  cursor passes it.
- `EventuallyScored` of `InferenceJob` is about the submit-and-poll transport. The direct
  one starts from nothing in each pass and need not end; a finished call with malformed content is
  resumed for as long as its id is kept (`Unusable`).
- `EventuallyScored` of `RuntimeProvisioning` ends at a local record, which the loop
  leaves alone whatever it says.
- `CacheComesBack` promises a whole package only while no cached file is damaged: a plain fetch
  fails on a damaged cache and leaves it there.
- `Settled`, `BetterScoreKeepsSeat` and `TopByRankWithGap` need a gap of at least one. All of
  `UNLSelection` takes `max_size` as positive; `select_unl` checks no parameter.
- `SparesInference` is about an inference that begins within the head-room.

## Proofs

`tlapm` checks the theorems for all constants that satisfy the assumptions beside
them: any number of rounds, outputs, windows, commands, faults, ledgers, validators, and any
time bound. The assumptions say that bounds are numbers, that `None`,
`Free` and their like are not among the values they stand apart from, that announced
windows are ordered (`_validate_windows` rejects others), that each kind of
command is among the processes, for the selection that keys are numbers and finitely many, and
for the accounts that there is a round.

| Module | Theorems |
|---|---|
| `Participation_proofs` | `Invariance` (`IInv`), `TypeCorrect`, `CommitsAreOpenable`, `CommitHashesAreOnChain`, `RevealsOpenCommits`, `NoRevealIsEarly`, `SealsAreFixed` (action property), `Refinement` (`Spec => ImplementsSealedRound`); for a lone process: `LoneInvariance` (`LoneInv`), `RoundsAreNotTakenBack`, `CommittedCanBeRevealed`, `BodiesInvariance`, `OneBody`, `LandedCanBeRecovered` |
| `ChainWatcher_proofs` | `WatcherInvariance` (`IInv`), `DeliveryIsAtLeastOnce`, `CursorFound`, `CursorNeverMovesBack`, `FeedRefinement` (`Spec => ImplementsFeed`); of the accounts: `AccountsInvariance` (`AccountsIInv`), `PassedAreRecorded`, `ResendsAreUnseen`, `MemosGoToPublisher` (action property), `AccountsRefinement` (`Spec => ImplementsFeeds`) |
| `InferenceJob_proofs` | for any scorers: `TypeCorrect`, `DeadlineKept`, `PaysOnce`; for one scorer: `PaidWhenCutOff`, `RepeatsOwed` |
| `PackageCache_proofs` | `Invariance`, `CacheStaysWhole`, `CachedPackageIsKept` |
| `RuntimeProvisioning_proofs` | for any commands: `SeenLocalIsKept`, `RecordIsTrue`, `ScoresHonestly`; for one loop among them: `Invariance`, `LoopDeploysOnce` |
| `SchemaMigration_proofs` | `Invariance`, `OpensComplete`, `AltersOnce` |
| `UNLSelection_proofs` | `Invariance`, `ListsAreWhole`, `ChurnIsControlled`, `ClaimsAreMet`, `DoesNotOscillate`, `RankDecides`; `SeatInvariance` (`SeatInv`), `BetterScoreKeeps`, `ResultIsDetermined` |
| `Watchdog_proofs` | `Invariance`, `InferenceIsSpared`, `BlameIsTrue` |

None of the safety properties is inductive. Each module's `IInv` is the strengthening:
it was checked by TLC as an invariant of the instance in that module's cfg before it was proved
(adding `INVARIANT IInv` to the cfg repeats that), and since it is proved the
runs no longer carry it. What it adds, and why it is needed:

**Participation.** That a reveal opens a commit needs that the process about to send it
holds a body equal to the stored commitment, which needs that nobody else changed
that row since the integrity guard: so `ProcsOK` says that a process is between
locked steps exactly if it holds the lock, and what the holder knows of its row at
each program counter (`HolderOK`). A one-shot's `record_score` can intervene only while
the lock is free, when `HolderOK` says nothing. `RowsOK` ties salt, commitment and
windows together and a commit hash to a salt. `SentOK` carries the knowledge over
from the moment of sending to ever after, which works as a sealed row's commitment
and windows never change. Every action is one lemma concluding `IInv'` and `Move`: it
either changes at most one row, which keeps its seal or gets one (`RowMove`), or moves
the clock (`TimeMove`), or sends one transaction (`SendMove`). The action property and
the refinement follow from that classification alone: `RowMove` maps to `Seal` or a
stutter, `TimeMove` to `Pass`, and `SendMove` of a reveal to `Open`.

Of a lone process more holds, and `LoneInv` says it beside `IInv`: a scored row carries the
outputs of its file (`RowKept`), a salted one the commitment to them (`RowBound`, only if
commits are funded), and what the process read of a row before it took its step is still so
(`ReadingOK`). The last is what a second process breaks: it is about what a scoring read
before it let the lock go, so it needs that nobody else writes in between. `LoneStep`
concludes `LoneInv'` and `NothingTakenBack` for every action.

If its commits are funded, `LoneInv` before and after a step says more than either: a salt
stays, the outputs it is mixed with are those of the hashes file both times, and no step
writes file and row at once (`FilesOrRows`); so the commitment stands (`CommitmentStands`),
and what was sent is what the row commits to (`BodiesStand`). From that follow that no
retry equivocates (`OneBody`) and that recovery accepts whatever commit landed
(`LandedCanBeRecovered`). That a pass comes to do it is `LandedCommitIsRecovered`, left to TLC.

**ChainWatcher.** The promise is about what the cursor passes, but it is decided
when the request is made: `RequestOK` says that below the request's lower bound
only pruned transactions are outstanding, which holds at the cursor's ledger since
the log is ordered, and at a clamped floor by definition. `PagesOK` carries it
over the pages, the filter turns it into `TodoOK` (what the walk left out between
cursor and list is pruned), and each cursor write into `NothingSkipped`. That the
cursor's transaction is found needs the other direction: the boundary ledger can
only come back if the request still starts at it, so that it was never clamped.

**PublisherAccount.** `ReadIsThere` follows an announcement from the poll to the cursor
write, on the account the pass resolved at its start; `ToldIsCurrent` is what
`_resolve_publisher` leaves for the rest of the pass; `AnnouncedOnce` and `HandledIsPosted`
let a handled announcement count on its own account and on no other, which the
refinement needs. `SentIsAccounted` follows what was sent: its round is recorded, or the scan
finds it, or its pass still waits for it, or it is out of sight for a reason that
`ResentOnlyIfUnseen` names; and a pass that has scanned and is about to send has only the
last kind behind it. TLC has checked `AccountsIInv` and `ImplementsFeeds` on `MCPublisher`'s instance.

**InferenceJob.** That a generation is only paid for when every earlier one is cut off is
decided long before the submit, when the row was read. So the invariant follows a
generation that is not (`Available`): it is in the row or in the hand of the pass
that has just got it (`AvailableIsKept`), and a pass that read the row earlier has it
too (`AvailableIsResumed`). That needs that only one command scores. `RepeatsAreOwed` counts:
`Owing` is how many generations a state may still ask for with no further fault, by where the
pass is and what the id it holds and the id in the row are worth, and `FaultsCover`
says that those and the ones already paid for exceed the faults by one at most. The budget is tied to the
window at each later step (`BudgetInWindow`).

**PackageCache.** What is renamed to the cache path is complete (`TempIsWhole`), and a
backup is a former cache (`OldWasCache`) in the hand of a command between its renames
(`OldInHand`). None of this mentions another command, so it needs no lock.

**RuntimeProvisioning.** The gate compares the record, the score depends on the endpoint.
`RecordTells` relates the two through every state between a deployment and its record,
for the record on disk and for the one in a command's hand; `OneUntouched` says that
whoever is overtaken has nothing left to rely on. `LastOK`, `SeenLocal` and `LoopOrder`
carry what the loop knows of its last deployment, for `LoopDeploysOnce`.

**SchemaMigration.** `VersionBacked`: the version never promises a missing part;
`Progress`: where a command is tells what the schema has, from any state a kill left.

**UNLSelection.** The properties are about the end of the loop, the invariant about each
step: incumbents are placed first and in order (`IncumbentsFirst`), newcomers in the order of rank
where no incumbent qualified (`InRankOrder`), and in a repeated selection every seat has its
holder (`HoldersKeepSeats`). The lemmas about cardinalities cite `FiniteSetTheorems`.

That a better score keeps the seat compares two runs of the loop, of which a state
shows one. `Outcome` says of a finished run what can be said of its scores, parameters, previous UNL
and result alone: which incumbents fit, who lost a seat to whom, who was refused. `SeatInv`
carries it: `Underway` is `Outcome` of a run that is not over, `HadSeat` that some result of
the lower score satisfied it and held the validator. The rest has no states:
`RaisedKeepsSeat` takes two outcomes that differ in one raised score, a member of each that the other
lacks, and a contradiction from each of the four places the two can have come from.
With an equal score it says that `Outcome` has one solution (`ResultIsDetermined`): the
loop, its order and its ties leave nothing open.

**Watchdog.** Every marker is this pass's, whose watchdog rang, or an earlier life's
(`MarkersTell`); between passes nobody is left to write one (`CleanBetween`).

**Only model-checked:** the liveness properties (out of the prover's reach, as is
`ENABLED`). Every safety property of a passing run is a theorem.

## Where the code and its documentation disagree

One disagreement is kept as a run, `MCUnrevealable`, since it loses a round: a commit in
flight at a kill, then skipped for low balance (`SKIPPED` is scored again by the next
pass, with other outputs), is recovered as `COMMITTED` by its commitment hash alone, and
the reveal's integrity guard refuses it for ever. `_recoverable` (`commit.py:147`) says "True only when
local state can still build the matching reveal".

The others were met while modelling; each is a step of a model above, and
each statement but the last fails in TLC when it is stated as a property there.

| The code | What the repository says |
|---|---|
| A round skipped for low balance is scored again and commits while its window is open (`commit.py:327`). | `docs/Usage.md:244` "the round is not committed and is not retried later" |
| A deferred comparison by a `score` beside the loop writes back the state it read before the loop committed (`score.py:268`). | `score.py:262` "must not downgrade a COMMITTED/REVEALED round" |
| A commit still in flight when its pass ends, by a kill or an RPC error, is invisible to the next pass's scan, and so is one older than the account's 200 newest entries (`commit.py:217`, `chain.py:773`): a second one is sent to the same account, and both land (`PublisherAccount`; `ResentOnlyIfUnseen` is what remains). Both carry the row's salt. | `docs/Overview.md:175-176` "will not double-submit (it checks both its own state and the chain before sending)" |
| A commit sent and not recorded before the foundation moves is sent again to the new account (`commit.py:219`). | `docs/Usage.md:229` "recovers correctly" |
| A signer failure in the reveal phase is a `CommitError`, which `_advance_reveals` does not catch: the pass ends (`reveal.py:165`). | `reveal.py:93-95` "Raises ``RevealError`` on a configuration, integrity, or signing failure" |
| The cursor passes an announcement once its windows are recorded, with its commit pending (`participate.py:573`). Harmless, since the row drives the commit. | `docs/Usage.md:230` "never past one whose commit is still pending" |
| A latest round whose scoring raises in every pass keeps the passes from their reveals (`participate.py:408`). | `docs/Usage.md:228` "Reveals run first ... independent of whether a new round is scorable" |
| A well-formed announcement of a round not listed yet is skipped for good (`chain.py:848`). | `participate.py:506-507` "A malformed announcement ... is recorded and skipped" |
| `generation_in_progress` is reported also when `persist_call_id` met another command's lock and wrote nothing (`score.py:336`). | `docs/Usage.md:299` "the call id is persisted and the next pass resumes the same generation" |
| The next pass pays again after a kill between the accepted job and its call id (`inference.py:458`); after a sync or a score that cleared the id of a call that is still there (`state.py:358`); and after a FAILED reply for a call that runs or is done, which the endpoint gives for any exception and the client for an unknown status (`_modal_app.py:223-224`, `inference.py:489`). `PaidOnlyWhenCutOff` and `RepeatsAreOwed` are what remains. | `state.py:844-846` "resumes the same server-side call instead of paying for a new one" |
| A sync over a handled round whose cache is gone writes DISCOVERED over its state (`sync.py:150`). | `state.py:25-26` "sync must treat it as handled and not re-fetch it" |
| A `previous_unl.json` that a concurrent forced fetch moves away between verification and `exists()` drops the `selected_unl` level (`score.py:383`). | `score.py:378-380` only "older packages lack it" |
| A local record written while the loop deploys is overwritten (`score.py:617`). | `score.py:594-595` "A local-mode record is never replaced" |
| An endpoint that changed without its record - a deployment that failed, was killed or still runs - answers for the old record (`deployment.py:459`). The gate does not compare `launch_command` and most of the environment. | `docs/Deployment.md:77` "in every case the gate keeps the sidecar from scoring against a runtime that cannot be honestly compared" |
| With `min_gap` 0 and no incumbent, a later challenger of equal score takes a higher-ranked one's seat (`selector.py:111`). | `selector.py:8-9` "the top ``max_size`` by rank are placed on the UNL" |
| A pass that works longer than the head-room before its inference, as a deployment may, is ended in the middle of it. | `docs/Configuration.md:32` "the watchdog can never fire in the middle of a legitimate inference" |
| A signal during the warm-up waits for the foreground command, and Docker's SIGKILL may come first (`entrypoint.sh:113`). | `entrypoint.sh:103-104` "handled gracefully" |
| A marker left by a container that died ends a good pass with the same process id with 124 (`entrypoint.sh:145`). | `entrypoint.sh:147` "watchdog fired" |
| `SCHEMA_VERSION` is 7. | `docs/Usage.md:193` names version 6 |

## Not modelled, and why

- **Response parsing** (`scoring/parser.py`): text in, scores out; its result is an input
  of `UNLSelection`.
- **Score formulas** (`scoring/formula.py`, `diversity.py`): decimal arithmetic on one
  validator's figures, without state. A model of it would be the same formula again.
- **Memo and canonical JSON encoding** (`commit_reveal.py`), hashing of packages and
  outputs (`verification.py`): data the properties tell apart only as equal or not.
- **Preflight** (`preflight.py`): a report nothing waits for. Its reproduction is
  `score_round`, which writes the round's row like the `score` command; that one is modelled.
- **Output-withholding probe** (part of `participate.py`): it reads and reports.
- **Command line, configuration, wallet, HTTP client** (`cli.py`, `config.py`, `wallet.py`,
  `scoring_client.py`): no state of their own; what a command does is in its
  component's module.
- Earlier releases' own creation of the store, whose code is not in the repository: a
  store that one of them left at version 0 with a table is out of `SchemaMigration`'s `Init`.
