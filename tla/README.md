# A formal model of the APAC lateral tracker

The tracker reads legal-press feeds and archives, extracts partner moves from the
items, and keeps one row per real-world move in Postgres. These modules model the
parts of it where order, failure and repetition decide whether the register is
right: the HTTP client, ingestion, the article campaign and its cost ceiling,
extraction, deduplication, erasure and re-extraction, the migration runner; and the
rules that read an article: the rule extractor, the gate, the taxonomy, the name keys,
the scoring of pairs of reports and the confidence of a row. TLC checks small
instances; TLAPS proves, for every instance, the safety properties of every stage and of
the scores, and what a reading cites: that the words it points at are in the article
(section 6).

Paths and line numbers are those of the repository (`src/`).

## 1. Inventory

| Component | State it keeps | Operations | Talks to |
|---|---|---|---|
| Ingest stage `tracker/pipeline/ingest.py` and `catch-up` in `tracker/cli.py` | `raw_items`, `sources.last_polled_at`, `backfill_completed_at`; the watermark `max(started_at)` of succeeded runs | `ingest`, `backfill`, `due_sources`, `_ingest_one`, `sync_sources`, `sync_firms`, `sync_taxonomy` | adapters, run records, `db.live` |
| Extract stage `tracker/pipeline/extract.py` | `raw_items.processing_state`, `people`, `firms`, `moves`, `move_sources`, `move_practice_groups`, `review_queue` | `run`, `_persist`, `_resolve_firm`, `_resolve_person`, `_classify`, `_mark` | extractor, taxonomy, run records, schema triggers |
| Dedupe stage `tracker/pipeline/dedupe.py` | `moves` (supersession, merged rows), `team_moves`, `review_queue`, `people.name_variants` | `run`, `_merge_component`, `_queue`, `_detect_team_moves` | pair scoring, confidence, schema triggers |
| Pair scoring `tracker/dedupe.py` | none | `score_pair`, `compare_given` | dedupe stage |
| Confidence `tracker/extract/confidence.py` | `moves.confidence_components` | `score`, `recompute_with_corroboration`, `needs_review` | extractor, dedupe stage |
| Erasure and schema invariants `migrations/0007` | `suppressed_people`, constraints and deferred triggers | `erase_person`, `partner_count` | both writing stages |
| Reextract command `tracker/cli.py` 584-716 | resets items, deletes moves | `reextract --apply` | all tables of a move |
| Run records `tracker/pipeline/runs.py` | `pipeline_runs` | `record`, `source_yield` | every stage |
| Polite client `tracker/net/` | slot and robots policy per origin | `fetch`, `robots_policy` | adapters |
| LLM extractor and cost ledger `tracker/extract/extractor.py`, `spans.py` | money spent in the process | `extract`, `check_before`, `record`, `_build_move`, `verify` | extract stage, `collect` |
| Article cache `tracker/sources/article.py`, extract.py 80-105, cli.py 320-420 | `article_cache.json` | `body_of`, `collect`, `cache purge` | extract stage |
| Rule extractor `tracker/extract/rules.py`, `body_rules.py`, `roles.py` | none | `extract`, `_from_body`, `_enrich_from_body`, `firm_pair`, `practice_for`, `origin_for` | extract stage, gazetteer |
| Firms and gazetteer `tracker/firms.py`, `geo.py` | none (YAML loaded once) | `normalise`, `find`, `resolve`, place lookups | rule extractor, gate, ingest |
| Relevance gate `tracker/gate.py` | none | `evaluate`, `evaluate_entity_slug` | ingest stage |
| Taxonomy `tracker/taxonomy.py` | none (YAML loaded once) | `load`, `classify`, `classify_from`, `matched_phrase` | extract stage |
| Names `tracker/names.py` | none | `surname_key`, `given_key`, `variants` | extract and dedupe stages |
| Migration runner `tracker/migrate.py` | `schema_migrations` and the schema | `status`, `upgrade` | the workflow, operators |
| Source adapters `tracker/sources/` | none | `fetch` | ingest stage, client |
| Analysis views, evaluation, preflight, configuration | none | read only | - |

How they interact: the workflow `catch-up.yml` runs `migrate`, `sources sync` and
`catch-up`; its concurrency group queues runs, so two never overlap. A catch-up is
ingest, backfill and extract in turn, each inside `runs.record`, over one database
connection. `dedupe`, `collect` and `db migrate` are commands of their own; the last is
run by the job, by deploys and from laptops at the same time. Nothing inside a process
is concurrent.
What is hard is what falls between two SQL statements: a killed job (330 minutes), a
lost connection, Ctrl-C, a row the database refuses, a COMMIT refused by a deferred
trigger; and what falls between two commands: rows erased, discarded, read again and
answered differently, merged rows that merge again.

A point that shapes all models: `record` closes its row in a `finally` that **commits**.
An exception that leaves the connection usable therefore commits what the stage had
written so far; an exception raised by the database leaves the transaction failed, so
the `UPDATE` in the `finally` raises too and everything since the last commit is
rolled back. The models call the two `Unwind` and `Abort`.

What makes each component correct:

- Ingest: no item falls between two windows; a poll date never without its items.
- Extract: an item is settled once, with all moves of one answer or none; every
  committed move is complete; every item is settled in the end.
- Dedupe: rows stay a partition of the reports into events; merges can be read
  backwards; nothing is counted twice or lost; what needs a human can be found.
- Scoring: the verdict is symmetric and gated; re-scoring agrees with scoring.
- Client: a host that answered is left alone for its slot, a page is asked for under a
  policy that was read, permits it and is not stale.
- Campaign: little is fetched or paid for twice, the ceiling binds, the queue drains.
- Reading: what a field cites stands there; one move per person; nobody gets an origin
  that is somebody else's; a partner's move is not held back by the gate; a person is
  found again under either order of the name.
- Migrations: each file applied once, in order, whole; success means agreement.

## 2. Modules

| Module | Models | State and actions |
|---|---|---|
| `ItemLedger` | the promise of the extract stage | `ledger`: an item goes from untouched to one verdict in one step (`Settle`), or back (`Discard`) |
| `ExtractStage` | extract.py 41-599 in runs.py 96-143 | `disk` and `txn` (committed and open database); one action per statement from `OpenItem` to `MarkExtracted`; `StartRun`, `FinishRun`, `Kill`, `Interrupt`, `Discard`, `LoadTaxonomy` |
| `ExtractStageProofs` | - | theorems of section 6 |
| `MoveEvents` | the promise of dedupe | `events`: a partition of the reports; `Enter`, `Join`, `Forget` |
| `PairScore` | tracker/dedupe.py 39-252 | operators; weights in ten-thousandths |
| `DedupeStage` | pipeline/dedupe.py, 0005 and 0007, reextract and erase_person | one action per statement of a merge; `FileReport` stands for an extract run that files one report |
| `DedupeStageProofs` | - | theorems of section 6 |
| `Confidence` | extract/confidence.py | operators; exact integers, and sets of outcomes where the code rounds |
| `IngestStage` | ingest.py 156-370, cli.py 192-292 and 466-503, db.py 40-61 | `disk`, `txn`, `stale`; `CatchUp`, `RunCommand`, `ReadSource`, `FailRead`, `InsertItem`, `RefuseItem`, `FinishSource`, `MarkWalked`, `FinishStage`, `Tick`, faults |
| `IngestStageProofs` | - | theorems of section 6 |
| `PoliteClient` | net/client.py, net/robots.py | what the client remembers of each origin (policy, when it was checked, last answer) and the history of the wire; `Fetch`, `ReadRobots`, `RobotsRefused`, `RobotsUnreachable`, `Refuse`, `ReadPage`, `PageUnreachable`, `Tick` |
| `PoliteClientProofs` | - | theorems of section 6 |
| `AppliedHistory` | the promise of the migration runner | `history`: versions 1, 2, 3, ... each applied once; `Apply` |
| `MigrationRunner` | migrate.py, `db_migrate` of cli.py | `main` and each runner's `checkout`; `table` (schema_migrations) and `schema` (what SQL ran); `Status`, `Refuse`, `Execute`, `Record`, `Collide`, `Commit`, `Finish`, `Break`, `AddFile`, `EditFile`, `Pull` |
| `MigrationRunnerProofs` | - | theorems of section 6 |
| `ArticleCampaign` | extract.py 80-205, `collect` and `cache purge` of cli.py, `CostLedger` | `file` and each command's `memory` of it, `spent`; `Begin`, `Fetch`, `Recall`, `Save`, `ReadByRules`, `ReadByModel`, `StopAtCeiling`, `Choke`, `Finish`, `Close`, `Purge`, `Kill` |
| `ArticleCampaignProofs` | - | theorems of section 6 |
| `Gazetteer` | firms.py, geo.py | operators over word sequences: `normalise`, the index and its collisions, `find`, `resolve`, places |
| `FirmPair` | `firm_pair` of body_rules.py | which firm of a headline gains, which loses, in the code's order of cues |
| `WordTemplates` | how Python's `re` matches | a template is a sequence of parts; `Match` is the one that backtracking meets first |
| `RuleTemplates` | patterns and word lists of rules.py, body_rules.py, roles.py | one template per pattern |
| `RuleReading` | `extract`, `_build`, `_from_body`, `_enrich_from_body`, `practice_for`, `origin_for` | `extract(item)`: the moves, each with its fields and the spans they cite |
| `SpanVerifier` | spans.py, `_build_move` | `verify` a field against the words it points at; recover, keep or drop |
| `Names` | names.py | which end is the surname, `surname_key`, `given_key`, `display`, `variants`, and the lookup of `_resolve_person` |
| `Taxonomy` | taxonomy.py, `_classify` of extract.py | `Loadable`, `classify`, `classify_from`, `matched_phrase` |
| `RelevanceGate` | gate.py | `evaluate`, `evaluate_entity_slug`, with score and reason |
| `ScoringProofs`, `ReadingProofs` | - | theorems of section 6 about `PairScore` and `Confidence`; about `Names`, `FirmPair`, `RuleReading`, `Taxonomy` and `SpanVerifier` |
| `MC*` | - | instances for TLC; `MCScoring` walks the inputs of both scores, `MCReading` composes items and names piece by piece |
| `*Claims`, the ends of `MC*` | - | sentences of docs and comments the code does not keep (section 5) |

`ExtractStage` takes `ItemLedger` by `INSTANCE ... WITH`: the ledger entry of an item is
its processing state and its moves on disk. `DedupeStage` maps `MoveEvents`: an event is
a canonical row, its reports those of the rows superseded by it. `MigrationRunner` maps
`AppliedHistory`: the history is the SQL that is in the schema.

`MCReading` composes the reading modules: it extends `RuleReading` (and with it
`RuleTemplates`, `WordTemplates`, `FirmPair`, `Gazetteer`) and `Taxonomy`, and takes
`Names`, `RelevanceGate` and `SpanVerifier` as instances, so that all of them read the item
that was composed. `Read` adds a fragment to the headline, the page with its first sentence,
or a sentence to the body, and has the rules read the result; `Spell` adds a token to a
name.

What is abstracted. A name is a spelling with its surname key and given tokens as
constants in `PairScore` (`Names` models how they come about). A reading of an item is an input: the
extractor and an LLM may give any of a set of answers, another one at each attempt. A
move keeps the fields `_persist` branches on. Log lines and counters of reports are left
out. The cost ceiling is in `ExtractStage` a choice once something was spent, and for the
items of `Costly`, one call on which is projected above the ceiling, from the start;
`ArticleCampaign` has the sums. The rows that a CHECK of `raw_items` refuses are the
constant `Refused` of `IngestStage`. In `IngestStage` time is counted in days
and stands still while a command runs; a read of a live feed, or of an archive that may
fail, returns any part of what its outlet lists. In `PoliteClient` the wall clock of the
policies and the monotonic clock of the slots are one, and a robots.txt is the pages it
opens and the delays it declares. The history variables hold what hosts saw; the code
has no such state. A new process starts with an empty memory, which is not modelled.

The reading modules take a text as a sequence of words in lower case with the capitalised
words as a constant set, so that a pattern of the code becomes a template over words: a
list of alternatives is a sample of the code's, which treats them alike, and a bound in
characters is a bound in words. A full stop only ends a headline or a sentence. Where
the code searches a text as it was printed, a hyphen inside a word is a word of its own,
and normalising drops it with the other marks: so a phrase of the taxonomy may be in the
normalised text and not in the printed one. Elsewhere it is left out of the words. An
optional clause that swallows a longer match, as in `people_join_as`, is a second template
that holds only where the first does not match. In `Names` a token carries the letters
and its writing: the case it was printed in and whether it had an accent or apostrophe,
which is what `str.title()` changes and the lookup in `name_variants` compares; of accents
and brackets no more than that is modelled. Excerpts (`excerpt` of
body_rules.py) and the text of log messages are left out. The confidence of a read move
is `Confidence`; here a move keeps only which fields it was scored with.

In `MigrationRunner` a checkout is the sequence of its files' texts, because
`tests/test_migrations.py` refuses gaps; a text stands for its checksum and for its SQL.
In `ArticleCampaign` prices are small integers in the proportion of ceiling, projection
and call, and what the database keeps of an item is one bit. A write of the cache that is
killed or refused by the disk leaves the file as it was, or a text that does not parse
(`Torn`), or one cut inside a character, which does not decode (`Garbled`): extract starts
empty on the former and raises on the latter, collect raises on both. A refused write is
logged by extract, which goes on, and raises out of collect; `failed` counts such writes
and is a history variable. In `Confidence` what a model says of itself is in
ten-thousandths, is compared with the floor as it came and stored in thousandths, as the
code does; the other parts of a score are exact sums that are rounded where the code
rounds them.

## 3. Runs

| Run | Configuration | States | What it shows |
|---|---|---|---|
| `extract_crash` | `ExtractCrash.cfg` | 10 794 | items are atomic, moves complete, unknown firms flagged; `ItemLedger` is implemented |
| `extract_interrupt` | `ExtractInterrupt.cfg` | 97 326 | under Ctrl-C and a missing taxonomy: one item per commit; every item settles (fairness) |
| `dedupe_crash` | `DedupeCrash.cfg` | 122 991 | nothing reported twice, lift-outs have two people in one window; `MoveEvents` is implemented |
| `dedupe_interrupt` | `DedupeInterrupt.cfg` | 24 079 | supersession is sound and coverage kept through half merges, refused commits and refused spellings |
| `scoring` | `Scoring.cfg` | 439 737 | six statements about the two scores, exhaustively over their small inputs |
| `ingest` | `Ingest.cfg` | 406 322 | no item falls between windows; the watermark is covered; one source per commit; what is in the window comes in (fairness) |
| `client` | `Client.cfg` | 283 645 | answered requests are spaced, pages permitted, robots.txt asked for once in its lifetime |
| `migrate` | `Migrate.cfg` | 76 195 | success means agreement; the table tells the schema; `AppliedHistory` is implemented; every file is applied in the end (fairness) |
| `campaign` | `Campaign.cfg` | 337 763 | fewer pages than one write's worth are at stake, and one more for each write that failed; the ceiling is overrun by one call at most; the queue drains (fairness) |
| `reading` | `Reading.cfg` | 56 869 | eight statements about what is read out of every item of four pieces and every name of four tokens |
| `extract_poison` | `ExtractPoison.cfg` | - | refutes: every item settles, also with an erased person in one of them |
| `dedupe_erasure` | `DedupeErasure.cfg` | - | refutes: what was erased stays erased, also after a merge |

Bounds, and why they are enough.

- Extract: two items of two sources (the newer first: `ORDER BY published_at DESC` and
  the batch limit need two), answers of up to two moves (the slot loop needs a second
  turn and a fault between two moves), two people, one firm of the register and one
  unknown, `MaxFaults = 2` (a fault in the retry), `MaxDiscards = 1`;
  in `extract_crash` one call on the newer item is above the ceiling from the start.
- Dedupe: up to four reports by three outlets, `MaxMoves` rows so that a merged row
  can merge again, `MaxTeams = 3`, one fault, one reextract, one erasure. `MCDedupeStage`
  names the report sets and what each is for.
- Scoring: six spellings cover every branch of `compare_given`; the dates 0, 15, 16, 60,
  61 and 75 lie on both sides of each step of `proximity` and the window; at most eleven
  spans (the extractor has eleven fields) and five sources (the bonus is capped at four);
  a model that reports 0, 0.0004 (stored as 0), 0.5994, 0.5996 (stored as the floor) or 0.6.
  `VerdictKept` holds up to sixteen fields (section 6) and fails at seventeen.
- Ingest: an archive that is always readable with a poll interval of 4 days, a flaky
  archive and a live feed; four days on which the operator acts, one of them inside the
  poll interval; items dated before, in and between the windows and listed late by 10
  days, the most that `14 - 4` allows; late in the month the feed lists an item whose row
  is refused; one fault of any kind.
- Client: two hosts, one with two pages that redirects to the other, a robots.txt that
  opens some pages and slows every agent down and one that names the client; floor 2,
  delays 1 and 4 on either side of it, lifetime 5 and requests of length 2, so that a
  policy expires and is renewed within `MaxTime = 10`. Every request may raise.
- Migrations: two runners, two files, two texts, `--target` 1 or none, one edit and one
  run cut short: enough for a runner to read before the other commits, to hold an older
  or an edited checkout, to collide and to be taken over from.
- Campaign: three pages and a write at every second one, so that a run can end with a
  page in memory only; a ceiling of two projections; calls that cost nothing, half and
  twice the projection; two faults, kills or refused writes, of which one may cut the file
  short and the other meet it so. The commands do not overlap (`Overlap = FALSE`): two of
  them writing one file lose each other's pages, which nothing in the repository denies.
- Reading: eleven fragments and seven sentences that between them fire every template
  family, cue of `firm_pair`, kind of evidence and veto of the gate; four pieces are a
  headline of up to four fragments or a headline and up to three sentences, which two
  people, two firms and an item whose person is named twice need. Nine tokens with a
  particle, a post-nominal, an honorific, a hyphenated given name and surnames that are
  also particles or post-nominals; four of them make a name with two given names and
  either of those, each in three writings a token (title case, another case, with marks).
  One phrase of the taxonomy is printed with a hyphen, the others without. Fragments are
  pieces of real headlines; the word lists' other members behave like the sampled ones.

`CHECK_DEADLOCK FALSE` stands where the operator may stop for good, and in `reading`,
where an item is complete.

Fairness. `ExtractStage`: `WF(Step)`, a process that is not killed takes its next
statement; `WF(StartRun)` and `WF(LoadTaxonomy)`, the operator keeps running extraction
and loads the taxonomy when told to. `IngestStage`: `WF(Step)` and `SF(CatchUp)`, the
operator does not give up catching up, whatever he runs in between (the workflow opens a
reminder issue each quarter for this). `MigrationRunner`: `WF(Step(r))`, and
`SF(Pull(r))` and `SF(Status(r, Last))`, a runner checks main out and migrates without
`--target` every time it is dispatched, as the catch-up job does; strong, because a
busy runner does neither. `ArticleCampaign`: `WF(Step(p))` and `SF` of beginning an
extract, for the catch-up runs it as long as items are pending. Faults are bounded, never
fair. No fairness is assumed of Ctrl-C, kills, edits or a provider's answers.

## 4. Properties

- `ItemAtomic`, `EveryMoveComplete`, `NewFirmsFlagged`, `CommitTouchesOneItem`,
  `EveryItemSettles`, `LedgerSpec` (ExtractStage). The first three and the last hold
  when no Python exception unwinds in mid-item; section 5 shows why the condition is
  there. `CommitTouchesOneItem` holds in any case: what an exception leaves behind and
  `record` commits is of one item.
- `SupersessionSound`, `ReportedOnce`, `TeamsAreLiftOuts`, `CoverageKept`, `EventsSpec`
  (DedupeStage).
- `VerdictSymmetric`, `InitialsCorroborated`, `OriginConflictsReviewed` (PairScore);
  `VerdictKept`, `AggregatorsReviewed`, `HeadlinesReviewed` (Confidence). `VerdictKept`
  has two parts: a stored row that is scored again with one source is never held back when
  it was accepted as filed; and it keeps its verdict either way unless what the model said
  of itself was rounded across the floor, or to nothing (`StaysOnItsSide`). For those the
  verdict does become milder (`ScoresDoNotDrift`, section 5).
- `Spaced`, `Permitted`, `AskedOncePerTTL` (PoliteClient). They compare the wire with
  itself, not with what the client remembers. `Permitted` allows a policy to grow older
  by one slot while the request waits.
- `NothingMissed`, `WatermarkCovers`, `CommitPerSource`, `WindowIsRead` (IngestStage).
  They speak of archives that can be read whole (`Whole`). The overlap of 14 days has to
  pay for two things at once: outlets that publish late, and a source that was not yet
  due when the shared watermark moved. Hence `LatenessAssumption`: lateness plus poll
  interval is at most the overlap. `WindowIsRead` excepts windows in which some outlet
  lists a row the database refuses: that row ends every run until the window has passed
  it (`OneBadSource`); the other three hold all the same, for a failed run does not move
  the watermark.
- `DoneMeansAgreed`, `TableTellsSchema`, `HistorySpec`, `EveryFileApplied`
  (MigrationRunner). Two runners do read the same pending list; what keeps the schema
  right is that the file and its row share a transaction and the row's key collides.
  `EveryFileApplied` excepts a main branch in which an applied file was edited: then
  every run refuses, as it should.
- `LittleIsLost`, `OverrunByOneCall`, `QueueDrains` (ArticleCampaign). `LittleIsLost`
  allows fewer pages than one write's worth to be in memory only, and as many more for each
  write the disk refused since the last good one; when one of these emptied the file,
  what was on disk before is in memory only as well, and the bound is off until the next
  good write. `QueueDrains` holds unless the cache can no longer be decoded
  (`UnreadableStartsEmpty`).
- `PairIsDirected` (FirmPair): a firm does not hire from itself, and a firm marked as
  the loser never gains. `ExactSpansCite`, `OneMoveEach`, `OriginIsTold` (RuleReading):
  the first two where nothing was stripped from the line before it was matched (section 5
  refutes both without the condition), the last without condition: whoever the person,
  the origin is spelt or mentioned by the headline, or spelt by one sentence of the body
  that has the letters of the surname in it. That the surname is a word of that sentence
  is more than the code does (`OriginIsAlwaysOwn`, section 5). `NothingIsInvented`
  (SpanVerifier): for every answer a model can give to a headline. `OneRowPerName`
  (Names): the keys agree in both orders in whatever writing; the row of a name, however
  it was printed, is found by the other order in title case, and by the name without its
  hyphen. That the other order is found as printed is more than the code does
  (`OtherOrderIsFound`). `PracticeIsCited` (Taxonomy): what is cited is the phrase that
  decided, in the text that decided, and it is cited wherever that phrase stands unbroken
  in print; a hyphen or a comma in it leaves the group without a citation
  (`EveryGroupIsCited`). `PartnersPass` (RelevanceGate).

## 5. Claims the code does not keep

Each is a formula of a `*Claims` module, or stands at the end of the `MC` module where
the claims are few, and TLC refutes it. Two have runs and are findings in `PROJECT.json`: `EveryItemSettles`
(`ExtractPoison.cfg`: a move of an erased person is refused; its item is first in every
run and starves the older ones) and `ErasedStaysErased` (`DedupeErasure.cfg`: a merge
keeps the spelling of a person erased later). The others are run with the `*ByHand.cfg`
of their part: put the property in the last line (INVARIANT unless marked P, for
PROPERTY), change the constants as told, and `tlc -config <cfg> <module>`.

`DedupeByHand.cfg`, `DedupeClaims`:

| Property | Constants | What happens |
|---|---|---|
| `GivenNameIsAGate` | as it stands (`BridgeReports`) | an initial joins two partners into one row |
| `PendingIsQueued` | `Reports <- OfficeReports` | a contested merge waits for a human without a review item |
| `MergedInsideWindow` | `Reports <- ChainReports` | a chain of reports spans more than the window |
| `CorroborationCounts` | `Reports <- WireReports` | merging a merged row forgets sources |
| `DryRunIsHonest` (P) | `Reports <- OfficeReports` | the dry run leaves out merges that need a human |
| `PrimaryKept` | `Reports <- SharedItemReports` | two rows of one article merge into a row without primary source |
| `OneQuestionPerPair` | `Reports <- BareReports` | one pair is asked about in both orders |
| `RerunMergesNothing` (P) | `Reports <- LateReports` | a second run at once merges again |
| `DedupeSucceeds` | `Reports <- EntryReports` | one component the schema refuses undoes the run |
| `TeamsHaveTwo` | `Reports <- TeamReports` | a merge takes a member out of a team |
| `ReextractIsPossible` | `Reports <- TeamReports` | a merge across sources blocks reextract of each |
| `ReportedOnce` | `Reports <- TeamReports`, `Faults = {"interrupt"}`, `MaxFaults = 1` | Ctrl-C commits a merged row beside its inputs |

`ExtractByHand.cfg`, `ExtractClaims`:

| Property | Constants | What happens |
|---|---|---|
| `OneMovePerPerson` | as it stands | a half item read again and answered in another order files a person twice |
| `EveryMoveComplete` | `Readings <- RuleReadings` | Ctrl-C in mid-item commits a move without source, practice group or review item |
| `EveryMoveComplete` | `Readings <- RuleReadings`, `TaxonomyLoaded = FALSE`, `Faults = {}`, `MaxFaults = 0` | extraction before `taxonomy load` does the same |
| `RunClosed` | `Readings <- TombstoneReadings`, `Faults = {}`, `MaxFaults = 0` | a refused statement leaves the run at `running` |
| `FlagsSurvive` | `Readings <- RuleReadings`, `Faults = {}`, `MaxFaults = 0`, `MaxDiscards = 1` | reextract deletes the flag of an unknown firm and keeps the firm |

`IngestByHand.cfg`, `MCIngestStage`:

| Property | Constants | What happens |
|---|---|---|
| `RecordUpToDate` | as it stands (`MCWide`) | the window moves past items of a source that failed |
| `NothingMissed` | `Commands <- MCOneSource` | a backfill of one source (HANDOFF.md 145) moves the window of all |
| `NothingMissed` | `Commands <- MCDaily` | so does `tracker ingest` without `--since` |
| `OneBadSource` (P) | as it stands | a link that is no http address ends the run of every source: the INSERT is outside the `try` of ingest.py:295, "one bad source must not end the run" |
| `ReconnectIsHarmless` (P) | `Faults = {"drop"}` | a replaced connection ends the catch-up before the archives |

`ScoringByHand.cfg`, `MCScoring`:

| Property | Constants | What happens |
|---|---|---|
| `ScoresDoNotDrift` | as it stands | a row of a model that reports 0.0, or 0.0004 or 0.5996, stored as 0 and 0.6, is forced into review by `score` only |
| `HeadlinesNeverAccepted` | as it stands | a firm's own headline reaches 0.85 (extract.py 187 says never) |

`ClientByHand.cfg`, `MCPoliteClient`:

| Property | Constants | What happens |
|---|---|---|
| `RequestsApart` | as it stands (`Latencies = {1}`) | a request that raises takes no slot: the next one follows at once (client.py:8) |
| `DelayAlways` | `Latencies = {2}` | the renewal of a robots.txt ignores the host's delay (client.py:9) |
| `HopsConsulted` | `Latencies = {2}` | a redirect leads to a host whose robots.txt nobody read (client.py:7) |

`CampaignByHand.cfg`, `MCArticleCampaign`:

| Property | Constants | What happens |
|---|---|---|
| `CollectReadsTheCache` (P) | as it stands | collect takes for a body the record that extract cached, and fails |
| `InterruptKeepsPages` (P) | as it stands | a kill loses the pages since the last write, or the whole file |
| `UnreadableStartsEmpty` (P) | as it stands | on a file cut short inside a character every later extract raises UnicodeDecodeError, which extract.py:94 does not catch; line 95 says "starting empty" |
| `CeilingKept` | as it stands | a call that costs more than its projection ends above the ceiling |

`ReadingByHand.cfg`, `ReadingClaims`, constants as they stand:

| Property | What happens |
|---|---|
| `SpansAreExact` | a full stop or an honorific that was stripped shifts the span of what follows |
| `OnePersonOneMove` | a person is a move with the honorific and another without |
| `ScoreIsCurrent` | fields that the body adds after the score are not scored |
| `OriginIsAlwaysOwn` | a surname inside a word ("ng" in "leading") takes a firm out of a sentence about nobody |
| `HirerGains` | a word of loss further on makes "Ashurst hires partner who leaves" Ashurst's loss |
| `PracticeIsAWord` | "ip" is cited out of "partnership" |
| `EveryGroupIsCited` | "white-collar" decides, is searched for as printed with white space between its words, and no evidence is written (extract.py:299-302) |
| `HeadlineIsReadOn` | a phrase that is no practice ends the reading of a headline |
| `OtherOrderIsFound` | "Min-jun Kim" is not among the variants of "Kim Min-jun", which `str.title()` prints "Min-Jun Kim" and "Minjun Kim": a second row (names.py:235-237) |
| `AnySurnameMeets` | a surname that is also a post-nominal is stripped from the end: "Ma Tan Jun" is not "Tan Jun Ma" |
| `MovesPass` | "Ashurst names Jane Smith and Bob Ng to head tax" is read as two moves and held back for want of a verb the gate knows |
| `ReasonIsTrue` | an item held back for want of seniority is said to lack movement when it also has a veto word |
| `EntitySlugsPass` | the first example of gate.py 245 is no slug that passes |

## 6. Proofs

Each of the eight `*Proofs` modules is checked by `tlapm` on its file; together they
take some half an hour, most of it for `DedupeStageProofs` and `ReadingProofs`. Extraction, ingestion and
the client name the inductive invariant of their main claims `IInv`; to let TLC check it,
add `INVARIANT IInv` to `ExtractCrash.cfg`, `Ingest.cfg` or `Client.cfg`. The invariants
of the other modules are in conjuncts, one for each claim.

Extraction, for any items (whatever a call on one is projected to cost), sources, readings,
refused rows, kills and reextracts:

- `TypeCorrect`: `Spec => []TypeOK`, with any faults.
- `CommitsAreOfOneItem` (`CommitTouchesOneItem`), with any faults.
- `ItemsAreAtomic`, `MovesAreComplete`, `CreatedFirmsAreFlagged` (`NewFirmsFlagged`),
  `ImplementsLedger`, assuming
  `"interrupt" \notin Faults` and `TaxonomyLoaded`: the two ways in which a Python
  exception unwinds in mid-item, for which the claims are false.

`ItemAtomic` alone is not inductive: it says nothing of the open transaction that the
next commit makes durable. `IInv` adds that the transaction is the disk plus the moves of
one answer up to the current slot (`AnswerInv`), that only the row in hand may lack its
source, practice group or review item, and only at the statement that writes it
(`RowInv`), and that items to come are untouched (`TodoInv`). `ImplementsLedger` shows
that every step is a step of `ItemLedger` or a stutter: only `CommitItem` and `Discard`
change an entry. `NewFirmsFlagged` needs `FlagInv` for the time between the INSERT of a
firm and that of the review item: a firm that is in the transaction and not yet named in
it is one that the row in hand is about to name. `CommitTouchesOneItem` needs no `IInv`:
what the transaction has and the disk has not is of the item in hand (`OneItemInv`).

Deduplication, for any reports, outlets, spellings, places, numbers of rows and teams:

- `TypeCorrect`, `MergesReadBackwards` (`SupersessionSound`), `NothingSaidIsLost`
  (`CoverageKept`), `TeamsHoldTogether` (`TeamsAreLiftOuts`), with any faults, merges that
  a trigger refuses, reextracts and erasures.
- `EachItemCountsOnce` (`ReportedOnce`) and `DedupeRefines` (`EventsSpec`), assuming
  `"interrupt" \notin Faults`: a Ctrl-C in mid-merge commits a merged row beside its
  inputs (section 5).

One invariant builds on another. `TypeInv` carries the plan through the run: its
components are disjoint sets of candidates that name one person and one destination, and
what the run read of the disk is still in the transaction (`Shape`). `BlankInv`: an id
not in use has no links. `SoundInv` says of both databases that a row is superseded if
and only if it points at a later row that carries its articles, and of the row being
made that it stands for all of its component before any of them points at it
(`HandInv`); the links lead to greater ids, so chains end. `CoverInv`: the open
transaction covers what the disk covers. `TeamInv`: the rows about to be made a team left
one firm for another inside one window. `OnceInv` says of the rows in view (in mid-merge:
without the row being made, with those it replaces) that two of them share an item only
where it reported two moves, and that the components still to be merged are among them.

`DedupeRefines` needs to say which reports a canonical row stands for: those of the rows
whose trail of supersession ends in it. The lemmas on trails show that one more link, laid
from rows in view to the row in hand, moves their ends there and leaves all others.
`EventInv` adds that two rows were never filed from one report (`Origins`), that a row not
filed was made of one of the same person (`Heired`), so that no event is empty, and that
the events of the transaction are joins of those of the disk (`Joins`). A commit is then a
`Join`, a reextract or an erasure a `Forget`, a report filed an `Enter`, all else a stutter.

Ingestion, for any register, stock of items, refused rows, days and faults:

- `TypeCorrect`, with any commands by hand.
- `NothingFallsBetween`, `WatermarkIsCovered`, `CommitsAreWhole`, assuming
  `WideCommands`: an `ingest` or `backfill` given by hand names every source and reads
  further back than any catch-up; and, as everywhere, `LatenessAssumption`.

`IInv` says three things beyond the claims: an archive has been read up to its poll date
(`ReadUpTo`), what is older than the window in hand is known (`WindowInv`), and each
archive is still to be read, in hand, or was polled within its interval (`TodoInv`). When
a stage succeeds the last gives `WatermarkCovers` of today; then an item older than the
overlap was listed, by the lateness assumption, before its archive was last polled, and
`ReadUpTo` has it on disk (`SuccessStep`).

The client, for any hosts, files, redirects and latencies:

- `TypeCorrect`, `AnswersAreSpaced`, `PagesArePermitted`, `RobotsAskedOnce`, assuming
  `TTLAssumption`: a policy just read is not stale, or a page could be asked for under a
  policy that expired while robots.txt was being read (24 hours against 30 seconds).

The three claims are about the wire, which the client does not see. `IInv` ties the two:
`last_request_at` is the last answer of each origin (`SlotInv`), and the policy is that
of the newest reading (`PolicyInv`), so the reading in force when a page leaves is the
one that was consulted.

The migration runner, for any number of runners, any files, texts and targets, any edits
of main and runs cut short, with nothing assumed beyond the types of the constants:

- `InductiveInvariant`: `Spec => []IInv`; from it `RunnersAgree` (`DoneMeansAgreed`),
  `TableIsTrue` (`TableTellsSchema`) and `ImplementsHistory` (`HistorySpec`).

`DoneMeansAgreed` speaks of runners that are done; `IInv` says of every runner at work
that the files behind it are applied with the text it read (`Own`), and of a file about
to be committed that its version is not in the table and that no second runner is about
to commit it (`Alone`), which is what the waiting INSERT of `Record` and its collision
give. `ImplementsHistory` needs that the file to be committed is the next of the history:
the runner's first pending file is not in the table, and all files before it are
(`CurrentIsNext`).

The article campaign, for any items, prices, ceiling and pages between two writes:

- `TypeCorrect` and `OverrunBounded` (`OverrunByOneCall`), whether commands overlap or not.
- `LittleLost` (`LittleIsLost`), assuming `~Overlap`: two commands that write one file
  lose each other's pages.

`LostInv` counts: the pages in memory only are no more than the fetches since the last
write that was due, which is a remainder, and one write's worth for each that failed since
the last good one, however many fail (`Spared`); or the file is cut short by such a write
(`Emptied`). One command at a time has any (`Alone`).

The scores. The theorems `Every...` are about the operators and any two reports, any
evidence and any number of sources: `EveryVerdictSymmetric`, `EveryInitialCorroborated`,
`EveryOriginConflictReviewed`, `EveryHeadlineReviewed`, `EveryAggregatorReviewed`. The
properties of the run follow for any constants, since its steps draw reports and evidence
only (`OnlyEvidenceIsDrawn`). The sums are compared before they are cut off and rounded.
`EveryVerdictKept` (`VerdictKept`) assumes at most sixteen fields: what is stored is
rounded, and the more fields a mean is taken over, the closer to the threshold a total can
lie. With eleven fields the code has room; with seventeen TLC finds a row whose verdict the
rounding turns. What a model says of itself is any number of ten-thousandths: the theorem
says for which of them the rounding does not cross the floor and that it never turns an
accepted row into one for review.

Reading:

- `EveryOrderMeets`: a name in either order gives the same keys in whatever writing, for
  any surname on the list and any given tokens that neither start like an honorific nor end
  like a surname, a particle or a post-nominal; and the row made of either order is found
  by the other in title case, and without the hyphen. `NamesMeet` (`OneRowPerName`), for
  any tokens and writings.
- `EveryPairDirected`: whatever firms are mentioned in whatever order, marked by whatever
  cues, `firm_pair` gives a direction; `HeadlinesPointOneWay` (`PairIsDirected`) for any
  headline and any gazetteer whose firms have names (`FirmsAssumption`).
- `ExactFieldsCite` (`ExactSpansCite`): a field that is said to stand in the text stands
  where its span says, for any gazetteer, any words and any texts, where no word was
  dropped before the spans were taken; `HeadlineFieldsCite` needs no such condition for
  the fields whose spans lie in the headline.
- `EveryBodyPersonOnce`: the persons a body reports differ in their printed names, and
  every person that some sentence reports is among them (`seen` of body_rules.py).
- `OriginsAreTold` (`OriginIsTold`): no origin is put together from two sentences of a
  body, and none is taken from a sentence without the surname, for any gazetteer, words
  and texts.
- `EveryGroupIsKnown`: whatever the evidence, the groups that `_classify` looks up in
  practice_groups are groups of the taxonomy, from what `load` has checked of the
  mappings (`TaxonomyAssumption`). `EveryCitationIsOfItsRule`: the span it cites is of the
  piece of evidence that decided and of the phrase that fired, where that first stands.
- `EveryAnswerIsChecked`: what `_build_move` lets through of any answer to any text.

`EveryPairDirected` needs that the mentions of a headline are names of the gazetteer at
numbered words. They come out of a recursive function, as do matches (`MatchIs`), the
steps through a list of names (`OnwardIs`) and flattened sequences (`FlatIsAFold`). That
one has a value at every position is shown by looking at the last position at which it
had none (`Recursion`), and what all its values have in common likewise (`UpOrDown`): an
induction the prover can do because its hypothesis is a set and not an operator.

`ExactFieldsCite` follows from `ReadInv`: the item is made of words, and the moves, if
any, are `extract(item)` of that very item. The rest is about `extract`. Of a match it is
enough that its positions never go back and stay in the text (`Rising`): then a slot is a
span (`SlotIsASpan`), the names of a list are spans within it (`NamesLieWithin`), and what
a span cuts out stands there (`CutStands`). `Cleaned`, `clean_practice` and
`practice_for` take pieces of pieces. `Stands` says at which word a piece stands, so that
a sentence can be shifted to its place in the body and the body to its place behind the
headline (`PlacedAreReported`, `BodyWordsAreCited`). The condition enters twice: `Cited`
counts the words of the cleaned name from the start of the printed one, which is right
when the cleaned name is its beginning (`CleanedBegins`), and the offset of the body is
right when the line was not shortened. `ReadingAssumption` says that the fragments an item
is composed of are sequences of words.

`OriginsAreTold` follows an origin back through all the ways it is found. A slot of a
template is a piece of the headline, and what `resolve_leading_firm` resolves is the
beginning of such a piece (`SlotIsTold`). The two firms of a pair are among the firms the
headline mentions (`PairIsFound`). The name and the firm of a match in a body are slots of
the same sentence, so that one spells both (`FromHitIsTold`), and `origin_for` looks only
at sentences that have the surname (`OriginForIsTold`); each record takes its origin from
one of these and keeps its person (`EnrichedIsTold`).

`verify` decides in the order of spans.py and not by cases: the proof showed that two of
the cases applied to a null answer, of which TLC took the first and TLA+ either.

Only model-checked:

- Liveness (`EveryItemSettles`, `WindowIsRead`, `QueueDrains`, `EveryFileApplied`), which
  the prover does not reach.
- `PracticeIsCited` and `NothingIsInvented`, as far as they say that the letters of a
  phrase or a value are among those of the words cited: the prover knows of strings only
  whether they are equal. `EveryCitationIsOfItsRule` and `EveryAnswerIsChecked` are the
  rest of them.
- `OneMoveEach`, `PartnersPass`. They hold of the word lists as they are and not of any:
  a list that names one person twice gives two moves, and a partner's move passes the gate
  because the templates' verbs are among the gate's. `Reading.cfg` shows them for every
  item of four pieces.
- That the assumptions of the theorems are needed. Section 5 has counterexamples without
  those on interrupts, the taxonomy and commands by hand.

## 7. Plan

Done: the core of every component with state, the reading of an article as pure
functions, and the proofs of section 6. What is left, in order:

1. `sync_sources` between runs in `IngestStage` (a new source starts behind the
   watermark), with `IInv` extended by the sources that are not yet due.
2. Two extract processes at once, which the workflow's concurrency group excludes and
   a laptop beside it does not.
3. Of the reading, `OneMoveEach` for headlines that name nobody twice: `EveryBodyPersonOnce`
   is the body's part of it, by the printed name; what is left is that two printed names
   are not cleaned to the same one.

Not modelled: HTML, feed and mail parsing and the adapters' formats, the analysis views,
evaluation, preflight and configuration. They keep no state of their own and what could
be wrong with them is a matter of their data: a regular expression that misses, a column
that is counted twice; a specification would restate the code.
