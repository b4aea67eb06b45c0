# Verification of the programs of dot-claude-plans

`dot-claude-plans` keeps the plans of a team and, beside them, the programs those
plans run or study. Most of the 1434 files are Markdown. What is a program here
is of three kinds, and this directory models each of them in TLA+, checks it
with TLC and proves the most important results with TLAPS:

- **Operation scripts**: Ruby pasted into a production Rails console, with no
  transaction around a run, over databases other people keep changing. The core
  is `src/active/commcenter-premiacao-cargos/scripts` (S/ below): 18 scripts
  that copy ("mirror") the deals of sellers onto the leaders who are paid on
  their team's result, and keep the copies in line every day. A mirror on a
  wrong target, a mirror counted twice or a sale with no mirror changes a salary.
- **Screens of the web client**, kept as verbatim copies in
  `src/active/spike/roadmap-barigui` (B/ below): an infinite-scroll listing, the
  two screens on which a declaration is read and signed, and the dashboard of a
  plan. Their hazard is the same everywhere: answers arrive when they please.
- **A token refresher**, `src/active/magnatech-tiny-token` (T/ below): a shell
  script run by hand and by an hourly cron over one file.

## 1. Inventory

### The deal-mirror routine (S/)

| Component | Scripts | State | Operations |
|---|---|---|---|
| The base | (Rails models, external) | originals, hierarchy seats, Indicator rows, mirrors | corrections by the client, reimports, Indicator rows written |
| Reconciliation | `10-reconciliacao.rb` | targets left, expected originals, existing mirrors, rows, counters | read a target, CREATE, UPDATE, ENABLE, DISABLE, report, upload the CSV |
| Verification | `12-verificacao.rb` | none (reads a CSV and the base) | PASS or FAIL per row |
| First run | `03-preflight.rb`, `04-mutacao.rb` | candidates, gates, rows | project, gate, create, upload the CSV |
| Removal | `06-desativacao.rb`, `08-limpeza-duplicados.rb`, `09-restauracao.rb` | mirrors to remove, rows to restore, CSVs in the bucket | disable, classify, destroy, recreate |
| Counts | `11-contagens.rb` | Indicator rows | dry run, apply |
| Description | `16-descricao.rb` | a text column of mirrors | gate, rewrite |
| Read-only | `00`, `01`, `02`, `05`, `07`, `13`, `14`, `15`, `17` | none | print |

How they interact. Nothing calls anything: an operator pastes one script at a
time in the console of a remote task. The scripts meet in the base and in the
CSV one uploads and another reads: 03 reports and 04 asks the operator to have
seen its two gates at zero; 10 runs with `dry_run` and then without; 12 re-reads
the CSV of 10 (and, says PLAN.md, of 04); 09 restores from the CSV of 08 (and,
says PLAN.md, of 06). Meanwhile the integration writes originals, seats are
reimported in place, Indicator rows appear.

What is hard, and which properties are about it:

- *A moving base.* Every script reads sets first and records later, each by a
  query of its own. `TwoPassesAlign`, `LegitimateMirrorStays`,
  `QuietApplyMatchesReport`, `FirstRunCovers`, `RevenueKept`.
- *Partial failure.* A rescue per record, per variable or per target turns an
  exception into a row, a printed line or the end of the script.
  `VerifiedMeansInLine`, `DeltaCloses`, `PreflightIsCreated`, `EachIdentityOnce`.
- *Crashes.* Losing the remote task loses the rows in memory and keeps what was
  written. `NothingOverExisting`, `RestoreUndoes`,
  `RefinesLifecycle`, `EventuallyInLine`.
- *Two paths for the same sale.* A mirror, or the recursive walk through an
  Indicator row; the exclusion of carriers keeps exactly one. `CountedOnce`,
  `RevenueKept`, `OnlyDoubledGo`, `PapCutHolds`.
- *Sequences.* Disabled, changed, enabled again; removed, changed, restored.
  `TwoPassesAlign`, `DisabledIsKept`, `RestoreUndoes`.
- *Convergence.* The routine runs daily because one pass is not enough.
  `EventuallyInLine`.

### The screens of the web client (B/)

| Component | Source | State | Operations |
|---|---|---|---|
| Variable listing | `excerpt_9.ts` | rows, cursor, filter, the request listened to, timers | route, form, scroll, disable, enable, reload |
| Plan statement screen | `excerpt_4.ts`, `excerpt_5.html`, and the copy in `roadmap-atento-brasil` | statement, panels, goals, signature, spinner, dialog | route, three queries, click, toggle, sign |
| Statement screen | `excerpt_6.ts`, `excerpt_7.html` | pages of each list, panels, review | pages, load more, click, toggle, lock |
| Plan dashboard | `excerpt_1.ts`, `excerpt_2.html` | figures, charts, ranking, selection, totals, spinner | route, select, clear, sort, nine queries |

How they interact. The four share no state: each is a component of one
application, and talks only to the server. Within a component the moves of the
viewer and the answers of queries interleave freely, because a query is sent
from what the component holds at that instant and its answer is written over
what it holds later. The first component drops the request it was waiting for
when it sends another; the other three never cancel anything.

What is hard: an answer that belongs to an earlier route, filter or user
(`CalmSignsShown`, `CalmPageSettles`, `Settled`, `NothingSkipped`); a page taken
in twice or passed over (`ListedOnce`, `RefinesListing`); a lock that looks at
what has arrived and not at what will (`ReadyMeansAllRead`, `ShownIsReviewed`);
spinners and reloads that depend on one answer (`CatchesUp`, `GoesOn`,
`SpinnerEnds`); and a sum that drops cents row by row (`TotalErrsLow`).

### The token refresher (T/)

`tiny_token.sh` (exchange, refresh) and `refresh_cron.sh` share one file with
the only refresh token of the client. The file is emptied before it is filled,
nothing excludes two runs, the provider may have revoked the old token by the
time the answer is lost, and a token not renewed in 24 hours is gone
(`ChainHeld`, `RenewedForEver`).

`PROJECT.json` lists each hazard at its line.

### The rest of the repository

| Component | State and behaviour | Verdict |
|---|---|---|
| `11-contagens.rb`, `16-descricao.rb` of S/ | stored counts and a text column, recomputed over a moving hierarchy | planned |
| `commcenter-audit-38539/scripts` | promotions, managers, subsidiaries, groupifications, each discovery, validation, execution, verification | planned |
| `commcenter-delete-groupifications` | per-target transaction, drift check, continue on failure | planned |
| `simplex-harvester/cesados-reintegration` | append-only activities in one system, disable in another | planned |
| `rds-kms-key-migration`, `auth-001-app-user-migration` | ordered cloud operations, roles and grants | planned |
| `lambda-ecs-tasks`, `commcenter-hierarchy-stable-id` | set-up calls, table definitions | not modelled |
| Chile, Colombia, Mexico reports and queries | pure functions of spreadsheets or SELECTs | not modelled |
| go-live wipe, payment test | read-only, or one record | not modelled |
| Renovate and update-engine excerpts | parts of a third-party program | not modelled |
| other spike excerpts, plans, memories, content | no program of the repository runs them | not modelled |

## 2. Modules

    DealBase ............ the live base, what scripts compute from it, who else moves it
      Company ........... a small company: values for the constants of DealBase
      Reconciliation .... 10 and 12                 MCReconciliation + recon_*.cfg
        Reconciliation_proofs -> Alignment_proofs
      FirstRun .......... 03 and 04                 MCFirstRun + firstrun.cfg
        FirstRun_proofs
      Removal ........... 06, 08 and 09             MCRemoval + removal.cfg, removal_variables.cfg
        Removal_proofs
    MirrorLifecycle ..... abstract: the life of one mirror (Reconciliation implements it)

    VariableListing ..... the infinite-scroll listing             listing.cfg
      VariableListing_proofs
    CursorListing ....... abstract: a list that starts over or grows by one page
                          (VariableListing implements it)

    PlanStatementShow ... the rule declaration
    StatementShow ....... the result declaration
      Declarations ...... the two together   MCDeclarations + declarations.cfg,
                          declaration_review.cfg
        Declarations_proofs

    CommissionTotals .... the sums of the dashboard: pure operators
      Dashboard ......... the plan dashboard                      MCDashboard + dashboard.cfg
        Dashboard_proofs

    TokenStore .......... exchange, refresh and the hourly job    tokens.cfg
      TokenStore_proofs

### Conventions of the models

For every module:

- **The order** in which a loop takes its elements is free.
- **Faults** (an exception, a refused write, a lost console, a failed upload, a
  query that fails, a process killed) are steps of their own or branches of a
  step, each counted against a bound.
- **History variables** (`quiet`, `fresh`, `streak`, `still`, `before`; `asked`
  and `moved` of the listing; `calm`; `asked`, `carried`, `viewers`, `charted`,
  `rankedFor`, `overtaken`, `failed` of the dashboard; `broken`, `hour`, `missed` of
  the tokens) record what properties need, and no guard
  of the code's actions reads them. (`calm` is copied into the dialog, as part of
  the record of what was signed.)
- Operators preceded by a comment that starts with *Faulty* are plausible
  mistakes in the code; no specification uses them. They document what each
  property would catch.

For the deal mirrors:

- **A mirror is named by `<<original, target>>`.** Its identity in the code is
  the pair (`<external_id>_<target id>`, installment), unique in the table;
  originals are unique by (external id, installment), so the pair names it.
  Whether the string passes 36 characters is the constant set `TooLong`.
- **The eight compared fields are one element of `Contents`.** The scripts copy
  all, compare all, and look otherwise only at the period of the date
  (`PeriodOf`) and at what the metric of a variable selects (`Selects`).
- **`state`** is `absent` (no row), `enabled` or `disabled`.
- **The hierarchy** is the function `subtree`: what `UserScope` resolves for a
  user at this moment. Seats are overwritten in place, so it has no history.
  `UserScope`, `MetricScope`, `HierarchyScope` and the models belong to the
  Rails application and are modelled from how the scripts call them; in the map
  they are `external`.
- **One query per step.** The queries of a target that resolve people are one
  step (`BeginTarget`), then each variable's carriers and originals are one step
  (`ReadVariable`, `ScanVariable`), then the mirrors (`ReadMirrors`), then one
  step per record. The environment may move between any two of them. Within a
  step the two or three reads of the code are taken at one instant: a move
  between them gives what a move before or after the step gives for one of the
  reads; a torn pair (carriers of before, originals of after) is left out.
- **A record is one step**: `Deal.find` of the original, comparison and write.
- **A pass is one plan in one competence.** `plan_ids.each` gives every plan its
  own rows, counters and CSV, and the operator edits plans and competence.

For the screens:

- **A query is sent in one step and answered in another.** A handler is one step,
  from the answer to the last query it sends: JavaScript runs it to its end.
- **Identical queries under way are one**: the client library joins them. On the
  dashboard a query identical to the last one of its kind shares its answer; on
  the plan statement screen `pending` is a set of (kind, statement).
- **What the server answers** is external: `Matching`, `Page`, `RankedUsers`,
  and the constants that say who has a commission, a deal, a picture.
- **Panels are objects of their answer**: those of two statements are disjoint,
  and an answer brings new ones, which start as the code leaves them.

### DealBase

`Selected`, `Source`: the source set, line by line what 10 computes (override
carriers excluded, PAP cut per variable, external deals of the competence the
metric selects). `Existing`, `Live`: the mirrors of a target dated in a
competence. `Ways`: by how many paths a sale reaches a variable of a target.
`Environment`: a deal corrected or toggled, a reimported hierarchy, an Indicator
row written or removed.

Assumptions: `BaseAssumption` (shape of the constants) and
`ParticipantsDisjoint`: two plans share no participant, since a user holds one
cargo and `plan_ids` names one live plan per cargo. Of some companies more is
true: `MetricsApart` (no value is selected by two variables of a plan),
`NoCarrierHoldsMirrors` (nobody below a target of an override plan both holds
mirrors and carries a row) and `SubtreesNest` (who is below someone below t is
below t).
The theorems that need one name it, and the MC modules state those their company
has as an assumption, which TLC evaluates.

### Reconciliation

| Action | Code in `10-reconciliacao.rb` |
|---|---|
| `StartPass` | header, participants of the plan |
| `BeginTarget` | people below, PAP leaders and their people |
| `ReadVariable` | carriers (only under override), PAP cut, metric filter |
| `ReadMirrors` | existing mirrors of the competence, the two totals |
| `SkipTarget` | the outer rescue |
| `RefuseLong`, `Create`, `CreateCollides` | the branch without a mirror |
| `Enable` | the disabled mirror: back as it was, differences only logged |
| `Keep`, `Update` | the enabled mirror |
| `LookupFails` | the rescue of a record |
| `BeginOrphans`, `Disable`, `LeaveDisabled` | the second loop |
| `EndTarget`, `EndTargets`, `Close` | end of the loops, counters, upload |
| `LoseConsole` | the remote task goes away |
| `RowPasses`, `VerificationPasses` | `12-verificacao.rb` over the CSV |

`StartPass` with `dry = FALSE` asks for a report of the same plan and
competence: the procedure of PLAN.md, which the code does not enforce. The
verification is a state predicate: it writes nothing, and the properties ask
what it would print at each moment after the apply and before the next paste.

### FirstRun

| Action | Code |
|---|---|
| `StartPreflight`, `StartMutation` | headers; the second only with both gates of the last report at zero, as the header of 04 requires |
| `BeginTarget`, `ScanVariable`, `EndTarget` | the scan, the same in both scripts |
| `TargetRaises`, `VariableRaises` | 03 goes on without them, 04 ends |
| `EndPreflight` | gates counted, CSV uploaded |
| `GatePasses`, `GateRefuses` | the gate of 04 over the whole batch |
| `Create` | one insert: taken, refused by the index, refused or raised otherwise |
| `EndMutation`, `LoseConsole` | CSV after the last write, or none |

A candidate is a target, a variable and an original; its identity is the target
and the original. Two variables that select one sale put it in the batch twice,
which the gate, looking at the base, cannot see. The metrics of `MCFirstRun` are
apart, as the theorem on the projected batch supposes, and it happens there to a
sale that changes between the scans of two variables.

### Removal

`StartDeactivation`, `Disable` are 06; `StartCleanup`, `Classify`, `Unresolved`,
`CleanupAllowed`, `CleanupRefused`, `Destroy` are 08; `StartRestore` (with its
two gates), `Restore`, `EndRestore` are 09; `EndRemoval` is the upload of 06 and
08. The initial state is any set of mirrors 04 and 10 may have left: enabled or
disabled, up to date or not, on targets of the plan, dated in the competence.
ENABLE of 10 after a 06 is in Reconciliation, where `disabled` has the same
meaning; the three scripts of Removal are not interleaved with 10, because one
operator pastes one script at a time and 10's own effect on a disabled mirror
is covered there from every state.

### VariableListing

| Action | Code in `excerpt_9.ts` |
|---|---|
| `QueryParams` | the subscription of `ngOnInit` (74-105): rows and cursor dropped, first page asked |
| `EditFilter` | the setters of the form, which write the very filter the next page is asked with |
| `HandleScroll` | 112-118, and `getVariables`, which unsubscribes from the request before it |
| `Answer`, `RequestFails` | 143-166; there is no error handler |
| `disabledButton`, `enabledButton`, `Apply`, `MutationFails`, `MutationAnswered` | 204-236: the mutation, its effect on the base, its answer |
| `Reload` | 301-309: the page is loaded again two seconds after a message |

`RefinesListing` maps the component to `CursorListing` (`cursor` to `endCursor`,
`matching` to what the base selects): no matter what is dropped and asked again,
a step of the component starts the list over, extends it by the page after its
cursor, or changes nothing of it. `listed` counts each row, so that a page taken
in twice would show.

### PlanStatementShow, StatementShow, Declarations

| Action | Code |
|---|---|
| `Route`, `RouteExpands` | `excerpt_4.ts` 51-63 |
| `Answered`, `AnsweredEmpty` | 148-235: the panels of each type the answer has, expanded or not, then goals and signature are asked for |
| `GoalsAnswered`, `GoalsAnsweredEmpty`, `SignatureAnswered`, `QueryFails` | 174-203, 244-250 |
| `ClickPanel`, `togglePanels`, `openSignatureDialog` | `excerpt_5.html` 128, `excerpt_4.ts` 276-323 |
| `StatementArrives`, `PageArrives`, `ListArrives`, `LoadMore` | `excerpt_6.ts` 20-46, `excerpt_7.html` 69-72 |
| `toggleResultPanels`, `ClickResultPanel` | 103-143, `excerpt_7.html` 14 |

`Reading` keeps clicks away while the spinner or the dialog is on the screen, as
the template does. `signatureDrawn` is what `excerpt_5.html:386-391` shows of the
signature the page has.

On the second screen `Lists` are what a statement asks for when it arrives:
`DrainedLists`, the paged lists whose rest the lock looks at (`paginationDrained`);
`AwaitedLists`, those the spinner waits for; `PanelLists`, those whose rows are
panels. The collaborative deals are awaited and have neither pages the lock looks
at nor panels; the rankings have panels and are neither awaited nor drained, as
`excerpt_6.ts` 37, 42 and 58-101 and the list of flags quoted in
`src/completed/spike/signature-pdf-audit-trail/SPIKE.md:754` have it. The bodies of
the list queries and of the `loading` getter are not in the repository: whether a
list under review asks for the next page by itself is `goesOn`, and whether the
spinner waits for the pages after the first is `spins`, each checked both ways. `Declarations` puts the two screens, which share no
variable, under one specification: one of them is open.

### CommissionTotals, Dashboard

| Action | Code in `excerpt_1.ts` |
|---|---|
| `Route`, `selectUser`, `clearUser`, `selectSort` | 148-162, 184-211, 799-812 |
| `PeriodAnswered`, `VariablesAnswered`, `IndicatorsAnswered` | 930-980, 896-928, 814-894: each sends the next |
| `CommissionAnswered`, `DealsAnswered`, `IncentivesAnswered`, `GoalsAnswered` | 340-430, 497-580, 432-478, 280-332 |
| `ProfilesAnswered` | 988-1038, the pictures and the spinner |
| `RankingAnswered` | 655-772: rows, sum, average, counts, and the row that becomes the selection |
| `MeAnswered`, `Fails` | 140-146; the error handlers |

A ranking row carries the average it came with, as in the code. The sum is
`(accumulator + money) | 0` after every row: cents are dropped and the value
wraps at `WordLimit`, 2^31 in the code; it is a constant of its own because the
provers know nothing of powers. The answer of a kind may be overtaken by a later one
(`overtaken`), which counts as a trouble, like a failure.

### TokenStore

| Action | Code |
|---|---|
| `CronFires` | `refresh_cron.sh`: ends without the secret file (15-18), else sources the token file and asks with the default client |
| `cmd_refresh`, `SecretTyped` | `tiny_token.sh` 101-105, 37-45: the file is sourced *before* the secret is typed |
| `cmd_exchange`, `CodeAnswered` | 79-93 |
| `Answered`, `Refused`, `RequestFails` | 106-118 |
| `Truncates`, `Fills` | `save_tokens` 47-64, in two steps |
| `LosesAnswer`, `Killed`, `Wiped`, `Tick` | external: the network, the host, the hours |
| `PlacesSecret`, `Schedules` | external: what the operator puts on the host (PLAN.md:36-48, 83-90) |

Whether a refresh revokes the token it used is not known ("rotation" is an open
question of the repository), so `rotates` is chosen at the start, both ways. An
hour is a `Tick`: tokens age, and the next hourly run is due if the host has an
entry of cron. Crons may overlap, because curl has no time limit. A host built
again has lost everything (`PLAN.md:72-75`): tokens, secret, scripts, the entry of
cron and whatever was running; each comes back by hand, in any order or never, and
an hour without its run, or whose run finds no secret, is an hour missed.

## 3. Runs

Nine passing runs explore the whole bounded state space; three runs expect a
violation.

| Run | Question | Instance |
|---|---|---|
| `recon_safety` | does a pass keep every safety property and implement the mirror lifecycle, and does the daily routine converge? | two sales, two contents, moving seats, one Indicator row, 2 moves, 1 fault, fairness |
| `recon_paths` | is every sale counted once when a plan with override sits below one without, and does the PAP cut follow the leader's team? | two targets one above the other, two variables, Indicator rows on seller and executive, a changing PAP team, 2 moves |
| `recon_dates` | does the claim of two clean passes survive a sale that changes month? | two competences, two sales, one identity too long, 2 moves |
| `firstrun` | is the projected batch the created one, does it cover the source of 10, is anything written over, does the CSV account for the base? | two plans, one with override, two metrics, an identity too long, 2 moves, 1 fault |
| `removal` | does what is destroyed reach the variable of the cleanup otherwise, does restore undo, do disabled mirrors stay? | two sales, two variables and a row of each, any mirrors, 3 pastes, 1 move, 1 fault |
| `removal_variables` | does it reach every variable of the plan otherwise? (violation) | the same, 1 paste, a base that stands still |
| `listing` | can a row be listed twice, skipped or left out of a list that says it is complete; does the listing implement a cursor listing; does it catch up? | 4 rows in pages of 2, three filters, 1 visit, 1 edit, 2 scrolls a visit, 1 mutation, 1 fault |
| `declarations` | is what is signed read, on either screen, and does what must appear or unlock do so? | 4 statements (two to be accepted, one without a type the other has; two accepted, with and without a signature), 2 routes, 2 clicks, 1 fault; two lists of up to 2 pages, rankings and collaborative deals, 2 presses |
| `declaration_review` | is the rule read in full when an answer is late as well? (violation) | the same |
| `dashboard` | do the figures, charts and ranking settle on one plan and order, and on whose user; does the panel agree with the queries; how wrong can the total be; does the spinner end? | 2 plans, 3 users, 2 seats, 1 move, 1 failed or overtaking answer in nine kinds of queries, 2 cents a unit, words that wrap at 8 units |
| `tokens` | is the chain held and renewed, however runs overlap and hosts are rebuilt? | 2 crons, 1 shell, 2 clients, tokens of 4 hours, 1 missed hour, 1 trouble, 2 runs by hand |
| `recon_live_dates` | does the routine converge for a sale re-dated to another month? (violation) | one sale, two competences, 1 move, fairness |

What holds.

- *Reconciliation.* Two clean applies over a base that stood still bring the plan
  exactly in line (`TwoPassesAlign`); nothing legitimate is disabled while the
  base stands still; the two sums PLAN.md asks the operator to close do close; an
  apply over an unmoved base writes its report; a verification without a FAIL
  means the plan is in line when the CSV is complete and has no raised orphan; a
  sale is counted once, and a PAP variable counts only what was sold under a PAP
  leader; the reconciliation never destroys.
- *First run and removal.* The first run creates exactly what was projected when
  no sale is selected twice, and covers the source under override; when one is, its
  CSV still accounts for the base, identity by identity. The cleanup
  cuts no last way to the variable it asks for, and a restore without a failure is
  exact.
- *Listing.* Dropping a request before sending the next is enough for no row to
  come twice, and rows are never skipped while the filter and the base stand
  still; a list that offers no more is complete; it implements `CursorListing`;
  the spinner ends, and a mutation the page hears of is shown.
- *Declarations.* Whoever signs the statement shown has every panel expanded, in
  whatever order routes, clicks and answers came; when no answer failed or was
  left behind, what is signed and what is shown are the same, and once every answer
  is in the goals and the signature drawn are those of the statement, except under
  a statement accepted without a signature; the result unlocks only when every row
  of the paged lists has arrived and its panel is open.
- *Dashboard.* With answers in order, the page settles on one plan and one order;
  the commission is that of the user of the last move, every other figure that of
  a user the page was about since, the charts of one it was about since the route,
  the ranking of the one it was last asked for; the panel agrees with the queries; the total errs low, by less than
  a unit a row.
- *Tokens.* A chain nobody cut, whose missed hours leave it some life, is in the
  file or in the hands of a run that will save it; on a host that keeps its entry
  of cron and its secret it is renewed for ever.

### What does not hold

Three disagreements are runs with `expect: violation`, quoted in `PROJECT.json`
under `findings`.

- `recon_live_dates`: a sale re-dated to the next month is never mirrored there.
  Its old mirror holds the identity, the query of the new month does not see it
  (`10-reconciliacao.rb:173`), and every CREATE is refused, in every pass.
- `declaration_review`: a late answer of the statement the route left takes the
  spinner away, and the dialog, which is handed the id of the route
  (`excerpt_4.ts:322`), signs a statement nobody has seen.
- `removal_variables`: the cleanup asks for the Indicator rows of one variable and
  destroys mirrors of any. A sale of another variable whose seller has a row of that
  one loses its only way to the target (`08-limpeza-duplicados.rb:51`).

Others were met while modelling, and are stated here without a run. In the
mirror scripts:

- A verification with no FAIL is not what a dry run would count as UNCHANGED
  (`12-verificacao.rb:18-19`): a target lost to an exception, or an orphan that
  raised, has no row that can FAIL. `VerifiedMeansInLine` has both as hypotheses.
- "What keeps that from paying twice is the external: true filter"
  (`01:24-26`): not when an override plan sits above a target that holds mirrors
  *and* an Indicator row; the walk counts the sale again. `CountedOnce` is checked
  with the override plan below the other.
- 03 and 04 exclude carriers without asking for override (`04-mutacao.rb:68`),
  10 asks (`131-145`): without override, a seller with an Indicator row is left
  out of the first run although nothing carries the sale. `FirstRunCovers`
  speaks of plans with override.
- A write script is to store its CSV before any removal (`PLAN.md:516`); 08
  uploads it after the last destroy. 12 finds no row to compare in the CSV of
  04, and 09 refuses the CSV of 06, which lacks columns 09 requires.
- One destroy that failed makes 09 refuse the whole CSV (`09:47-56`).

In the screens:

- A statement accepted without a signature is shown with the signature of the
  statement before it, which nothing clears (`excerpt_4.ts:240`, `excerpt_5.html:388`).
- The signature of a result unlocks over the paged lists while the rankings, a
  section with panels, are still under way: neither the spinner nor the lock waits
  for them (`excerpt_6.ts:42`, `146`). `ReadyMeansAllRead` speaks of the paged lists.
- The load-more button is hidden under review and `loadAllPages` asks for one
  more page only, so whether a long list unlocks rests on code that is not here
  (`goesOn`). The toggle of the result screen negates `reviewing`, not
  `allExpanded`; and the first click on a panel that review alone holds open
  does not shut it (`excerpt_7.html:14` negates an unset flag).
- On the dashboard the charts are not asked for again when a user is selected;
  deals none of which is above zero leave those of before; a commission that is
  missing leaves `plan` undefined, which the answer of deals reads
  (`excerpt_1.ts:582`); a selection survives a route (`carried`); a late ranking
  of one row changes the user, so that the figures may be of two (`viewers`); answers out of order are not guarded
  (`overtaken`); an empty ranking leaves the sums that were there; a ranking that
  comes last leaves its pictures unasked for; a failed commission or picture
  leaves the spinner. `|0` drops cents after every row, so two users of half a
  unit each are both "above average".

In the token scripts, `PLAN.md:68-69` says a `FALHOU` line means the refresh
token lapsed. It is also printed when the answer was lost, when the process before was killed
with the file empty, when a run by hand overtook the hourly one, and, after an
exchange with the id of a new app, for ever: the hourly run sends the default id.
A pair exchanged by hand may also be written over by a refresh that was under
way.

Where a property that holds needs a hypothesis, the hypothesis says what the code
does not promise. `TwoPassesAlign` asks for two passes because ENABLE puts a
mirror back with the values it was disabled with. `QuietApplyMatchesReport` asks
for a base that did not move between the two pastes, because the apply
recomputes its delta. `PreflightIsCreated` asks for metrics that select disjoint
sales (`MetricsApart`), because a sale two of them select is
twice in the batch and the second insert is refused. `RevenueKept` speaks of the
variable the cleanup asks for: of the others it is false, as `removal_variables`
shows. `NothingSkipped` asks for
one filter and a base that stood still, because a page of another filter starts
at the same cursor. `Settled` asks for answers in order and none failed, and claims the deals only
where the commission was paid and the users sell;
`TotalErrsLow` for amounts that are not negative and a sum that fits a word;
`ChainHeld` for a chain that was not cut, because a lost answer, a process killed
between answer and file, a wiped host or a foreign client cut it, and that was not
missed for as many hours as it lives; `RenewedForEver` for a host that keeps its
entry of cron and its secret, as one rebuilt does not, from an hour before which
none was missed and with tokens that outlive the hours that may be.

### Bounds, and why they are enough

*Mirrors.* `MaxMoves` bounds the environment: two moves let a sale leave and come
back, or change seat and value, inside or between passes. `MaxFaults` = 1 puts
one fault at every point of every script; where it is 0 the run is about the
moves alone. `MaxPastes` = 3 allows a removal, a restore and one more script,
which is what a restore can be wrong about. Two sales of two sellers separate
the one whose seller carries a row or leaves the team from the one who does
neither; records do not interact beyond an identity, so a third adds nothing the
two do not show. Contents: `installed` and `corrected` differ only in value,
`mobile` is selected by another metric, `late` is in the next month; a sale no
metric selects is one that is disabled. Passes are not bounded: the history saturates at two.

*Listing.* Four rows in pages of two give a full page, a full last page, a page
of one and an empty one, for each filter and each set of enabled rows; two
scrolls drop a request and ask again while the first page is under way, and a
reload grants two more. *Declarations.* Two routes leave a statement behind and
come back to it; the four statements differ in which types of panels they have,
in whether they may be or were accepted and in whether a signature exists. A list of up to four rows in
pages of two has full, short and empty last pages. *Dashboard.* One move reaches
every pair of an earlier query and a later one, since the first queries are
still under way; two users whose cents are lost and one without money reach every
branch of the counts. Their amounts add up to two units, so the word of 8 units is
never passed: the wrap is in the model, and what the total is worth is claimed for
sums a word holds. *Tokens.*
Four hours leave one to miss, one whose answer is lost without rotation and one to
spare; two runs that may overlap and a
shell reach every order of read, answer, truncate and fill; five tokens are
enough for each process and the file to hold one of its own (a token nobody
holds is named again).

Deadlock is not checked where the program may really stop: `removal` when its
pastes are used up, and the configurations of the screens when the viewer
has nothing left to do and every answer is in. The mirror scripts and the tokens never
stop: another script can be pasted, another hour passes.

### Fairness

`FairSpec` of Reconciliation has `WF_vars(Step)`: a script pasted in a console
runs to its end unless the console is lost; and `SF_vars(StartPass)` for each
plan, competence and mode: the routine is a daily one ("that is why this runs
daily") over every plan in `plan_ids`. It is strong, because a plan's turn is
enabled only between passes, which alternate with those of the other plans.
Nothing forces the environment to move or a fault to happen, and `MaxMoves`
makes the base eventually stand still, which is what convergence supposes.

The listing assumes that the page asked for is answered, that a mutation is
applied and answered, and that a timer fires; a page may fail instead, and
`CatchesUp` says so. The declarations assume that queries are answered and that
pages under way arrive. The tokens assume that a run that got an answer goes on
to its end, that cron fires in its hour on a host that has its entry and that hours
pass; nobody is bound to put secret or entry back; a missed hour is a
bounded fault, since more of them than a token lives would end any chain. Nobody
is ever bound to scroll, click, route, press, or type a secret. The dashboard
states no fairness: what it says of the end is a state in which nothing is
under way.

## 4. Proofs

The theorems hold for all values of the constants that satisfy the named
assumptions of their module. Every invariant and every action property the
passing runs check is one of them.

| Module | Theorem | Statement |
|---|---|---|
| `Reconciliation_proofs` | `TypeCorrect` | `Spec => []TypeOK` |
| | `LifecycleRefined` | `Spec => RefinesLifecycle` |
| | `LegitimateStays` | `Spec => LegitimateMirrorStays` |
| | `SumsClose` | `Spec => []DeltaCloses` |
| `Alignment_proofs` | `TwoPassesClose` | `Spec => []TwoPassesAlign` |
| | `VerifiedIsInLine` | `Spec => []VerifiedMeansInLine` |
| | `ReportIsApplied` | `Spec => []QuietApplyMatchesReport` |
| | `PapCutIsKept` | `MetricsApart` gives `Spec => []PapCutHolds` |
| | `SaleIsCountedOnce` | `MetricsApart` and `NoCarrierHoldsMirrors` give `Spec => []CountedOnce` |
| `FirstRun_proofs` | `FirstRunTypeCorrect`, `NothingIsOverwritten`, `CsvAccountsForTheBase` | `[]TypeOK`, `[]NothingOverExisting`, `[]EachIdentityOnce` |
| | `FirstRunIsComplete` | `Spec => []FirstRunCovers` |
| | `ProjectedBatchIsCreated` | `MetricsApart` gives `Spec => []PreflightIsCreated` |
| `Removal_proofs` | `RemovalTypeCorrect`, `RestoreIsExact`, `DisabledMirrorsStay` | `[]TypeOK`, `[]RestoreUndoes`, `DisabledIsKept` |
| | `RevenueWayIsKept` | `SubtreesNest` gives `Spec => RevenueKept` |
| `VariableListing_proofs` | `ListingTypeCorrect`, `NoRowIsListedTwice`, `NoRowIsSkipped`, `NoMoreIsNoMore`, `ListingRefines` | `[]TypeOK`, `[]ListedOnce`, `[]NothingSkipped`, `[]NoMoreMeansAll`, `RefinesListing` |
| `Declarations_proofs` | `PlanTypeCorrect`, `ShownStatementIsReviewed`, `CalmSignatureIsOfThePage`, `CalmPageIsOfTheRoute` | of `PlanSpec`: `[]PlanTypeOK`, `[]ShownIsReviewed`, `[]CalmSignsShown`, `[]CalmPageSettles` |
| | `ResultTypeCorrect`, `NothingIsSignedUnread` | of `ResultSpec`: `[]ResultTypeOK`, `[]ReadyMeansAllRead` |
| | `ScreensStandAlone` | `Spec => PlanSpec /\ ResultSpec` |
| | `DeclarationsTypeCorrect`, `NothingShownIsSignedUnread`, `CalmScreenIsOfTheRoute` | of `Spec`: `[]TypeOK`, `[](ShownIsReviewed /\ ReadyMeansAllRead)`, `[](CalmSignsShown /\ CalmPageSettles)` |
| `Dashboard_proofs` | `DashboardTypeCorrect`, `PanelIsOfTheUser`, `TotalsErrLow`, `SpinnerIsLowered`, `PageSettlesOnTheLastMove` | `[]TypeOK`, `[]SelectionAgrees`, `[]TotalErrsLow`, `[]SpinnerEnds`, `[]Settled` |
| `TokenStore_proofs` | `StoreTypeCorrect`, `ChainIsNeverLost` | `[]TypeOK`, `[]ChainHeld` |

The inductive invariants, and why each property needs one.

- *Reconciliation.* `TypeInv` is `TypeOK` and what each phase holds
  (`Handling`). `ReadInv`: while quiet, what was read of the target is what the
  base says, so an orphan is outside the source. Refinement: every write is an
  Insert, Refresh, Retire or Revive of `MirrorLifecycle`, every move a Selling or
  a stutter. `Tally`, for the two sums: the counters balance with what the
  loop under way has left of the target, a parked orphan being counted as
  unchanged without having been expected.
- *Alignment.* `TwoPassesAlign` is far from inductive: it speaks of finished
  passes and says nothing of one under way. `AlignInv` adds what a pass knows half
  way. `Streaks`: one clean apply leaves on every target *the right mirrors*
  (`SetInLine`), a second leaves *the right values* (`CopiesInLine`), because
  ENABLE gives the former without the latter. `Finished`: a clean pass under way
  has done so for the targets behind it. `Progress`: on the current target, the
  originals already taken are handled, and the mirrors that may still be orphans
  are exactly those left. `Place` ties the sets in memory to the base while it is
  quiet, `LongAbsent` says no identity too long ever gets a row, and
  `MovesForgotten` that a move ends every streak. A write on one target leaves
  the others alone (`OthersStand`, `WriteAway`), which needs
  `ParticipantsDisjoint` and that a copied content is of the competence.
- *What a pass is worth.* `VouchInv`, for the verification: of every target
  behind an apply over a quiet base, each deal of the source has a faithful mirror
  or a row the verification will refuse or compare again, and each enabled mirror
  outside the source has a row. `ReportInv`, for the report: what was decided was
  logged as intended, what is undecided is still due as intended (`Decisions`),
  where intended is what the base asks of a dry run and what the report says of an
  apply; a fresh report says what is due now (`FreshReports`); and no existing
  mirror of the competence was out of the query's view unless the loop made it
  (`InView`). A write leaves the reports of other rounds fresh, because its row is
  of its own competence before and after, and its target of its own plan alone.
  `PapCutHolds` and `CountedOnce` follow from `TwoPassesAlign` by what the source
  set of a target is. Their hypotheses are needed: `MetricsApart` says that no
  value is selected by two variables, without which one variable's mirror would
  count for another; `NoCarrierHoldsMirrors`, that nobody below a participant of a
  plan with override both holds mirrors and carries an Indicator row, without
  which a sale would reach the participant both ways. The instance of the runs
  satisfies both.
- *FirstRun.* `WriteInv`: a batch is clean when its gate is passed and each row
  that appears is its own; only `Create` writes. `FirstRunCovers` speaks of the
  end of a mutation; `CoverInv` follows it there: while it scans, each
  participant is still to come, is the target with what its variables read so far
  have given, or has had everything found (`ScanFound`); while it writes, each
  candidate is still to come, was not created, or stands as its original does
  (`BatchWritten`). Override matters at the last step alone, where what the scan
  found must be what the reconciliation looks for. `PreflightIsCreated` compares
  two scans with two pastes between them. `PreflightInv` compares each with what a
  complete scan of the base would find now (`Batch`): what is found is of the
  batch, and what of the batch is not found is on a target or variable to come
  (`Scanned`); the projection at hand is the batch (`BatchProjected`); a mutation
  has created what it took, and nothing it has left is there (`BatchCreated`).
  The last needs two candidates of the batch to have two identities, which is
  where `MetricsApart` enters: the second of two variables that select one sale
  would be refused. `EachIdentityOnce` needs no such hypothesis. `TellingInv` says
  it of the rows written so far: a row that is taken adds its identity, which had
  no record and hence no row that says CREATED; one that is refused finds a record,
  which, by `NothingOverExisting`, a row of this batch made; and one that raised
  adds nothing.
- *Removal.* `RestoreUndoes` compares two moments far apart: the removal, and
  the end of a restore with others in between. `RemovalInv` follows the rows from
  one to the other: what 08 has not reached is as it was when it began
  (`CleanupHolds`), so each row with a content describes an enabled mirror of
  then; that is still so in the bucket (`BucketFaithful`); and each row 09 has
  taken is back or logged as a failure (`RestoreHolds`). `DisabledIsKept` needs
  it too: 06 and 08 have only mirrors left that are enabled, 09 none that is
  disabled. `RevenueKept` is about one write, and rests on what was read before
  it: while the base stands still the seller of each mirror classified carries a
  row below its target (`CarriersHold`). That seller is still a way when the mirror
  goes, unless the target is the seller, and nobody holds a mirror of a sale of
  their own, in the base or in a CSV that may be restored (`NobodyMirrorsOwn`). The
  mirror may also have been a way to somebody above, when its target carries a row:
  the seller is then below that one too, which is what `SubtreesNest` says. Nothing
  can be said of other variables, because 08 asks for the rows of one.
- *VariableListing.* `ListingInv`: the request under way has the cursor of the
  screen (`RequestIsCurrent`), so its page lies beyond every row listed; rows
  listed lie within the cursor (`ListedOnce`); a list not asked yet is empty
  (`FreshIsEmpty`). The refinement needs `RequestIsCurrent` alone: a page is
  asked with *a* filter, and the abstract step takes any. `LastPage`: a list that
  offers no more got a page that was not full, which holds all there was after
  the cursor.
- *Declarations.* Of the rule screen, `ReviewInv` says what the dialog read, and that while a
  statement is on the page its panels are all among those the button looks at:
  those of the types it has not are left from before, and are more, never fewer. `CalmInv`:
  while calm, the only statement asked for is that of the route. `Settling`: while
  calm, what the page shows of goals and signature is of the route or is under way.
  Of the result screen, `ResultInv`: once the statement has arrived, a paged list
  that has been answered holds every row or says that it has more (`AnsweredLists`),
  so one that says it has no more, and whose first answer the spinner has waited
  for, holds every row, whatever other pages are under way. The application
  that shows one of the two is an instance of both specifications, in which the
  other screen stutters (`ScreensStandAlone`), so what is proved of each holds of it.
- *Dashboard.* `Settled` speaks of a page with no query under way. While there are
  some, each kind is compared with what it *will* hold: its last query, or what is
  there (`Coming`). `RankingComes` says that this is of the route and order;
  `ChartsCome` and `FiguresCome`, along the chain in which each answer sends the
  next query, that it is of a user the page was about since the route and since the
  last move (`charted`, `viewers`), unless an earlier link is still to come and will ask
  again. `Awaited`, for the spinner: each flag that is up has a query under way
  that lowers it, or one whose answer sends that. `ListSums`: the figures are sums
  of the list on the page. What a sum is worth for a list of any length is an
  induction over its rows, made as one over the set of the prefixes for which the
  claim holds (`UpTo`), since the induction theorems that take an operator cannot
  be instantiated: a step drops less than a unit and does not wrap, because what is
  summed so far is never more than the whole sum (`TotalErrs`).
- *TokenStore.* `ChainInv`: a pair the provider has just given is in the hands of
  its run and nowhere else (`OnlyCopy`), and it was granted in this hour unless it
  was carried into it, in which case its age is made of hours missed
  (`HandsYoung`); an uncut chain is in such hands, or in the file, where it is at
  most an hour older than the hours missed, and new if it was renewed in this hour
  (`InHandsOrFile`).

What the theorems suppose beyond the assumptions of the modules is what the code
takes for granted and a company may not satisfy. TLC evaluates each of these
hypotheses on the companies of the runs (`CountingSupposes`, `BatchSupposes`,
`CleanupSupposes` in the MC modules), so each is true of some company.

Only model-checked: liveness under fairness (`EventuallyInLine`, `CatchesUp`,
`GoesOn`, `RenewedForEver`), which is out of the prover's reach. The safety each
rests on is proved: `TwoPassesClose`, `NoMoreIsNoMore`, `NothingIsSignedUnread` and
`ChainIsNeverLost`.

## 5. Plan

Done: the mirror routine with its runs and theorems, the four screens, the token
store. What is left, the most important first.

1. `Counts` (`11-contagens.rb`: dry run and apply over the stored counts, against
   the same moving hierarchy as `DealBase`) and `Description` (`16-descricao.rb`).
2. `Groupifications` (deletion under a per-target transaction with a drift
   check); `Reintegration` (two systems, one append-only); `AuditWaves` (the
   staged promotions of 38539, whose later stages rest on the earlier ones);
   `KeyMigration` (replication, sequences, cutover and rollback of
   `verified-commands.sh`, with the roles of the user migration).
3. An abstract specification of an idempotent wave (discover, validate, execute,
   verify) that the audit waves and the groupification deletion implement.
4. Theorems about the modules of 1 to 3; the safety half of `CatchesUp` and
   `GoesOn` (at rest, nothing is left waited for).

## 6. What is not modelled

The read-only scripts print figures and change nothing; the calculation itself
belongs to the platform. Formatting of the printed tables, CSV quoting and S3
paths are left out, except which columns a CSV has, because 09 and 12 decide on
them. The Rails models, `MetricScope` and `UserScope` are external and modelled
only as far as the scripts rely on them. Two consoles at the same time are not
modelled: one operator pastes one script at a time.

Of the screens: the search of companies, menus and permissions of the listing;
printing and display helpers of the plan statement screen; goals and signature of
the statement screen, and the bodies of its list queries, which are
not in the repository; formatting, percentages, chart sizes, the countdown and
the urls of pictures of the dashboard. Of the token scripts, `authorize-url` and
`test`, which change no state. The other components of section 1 are listed there
with their reason.
