# The support agent API, in TLA+

This directory is a verification development of the support agent API: TLA+
modules translated from `src/app`, TLC configurations that check them on small
instances, and proofs, checked by TLAPS, of what holds on every instance. A
path below is relative to `src/`.

## The system

A customer sends a message. The service decides what it is before it fetches
anything, reads the one source that owns the answer, rates what came back, and
either answers in approved sentences or stops: it asks the customer something,
holds the message for a check, or hands it to a person. Every outcome is
written to a table before the reply is returned, and the rows that stopped
short of an answer are the queue staff work.

| Component | State | Operations | Correct when |
|---|---|---|---|
| Vocabularies (`agent/profiles.py`, `reliability.py`, `reasons.py`) | none | lookups | every intent has a profile; every reason belongs to one destination |
| Phrase readers (`agent/risk.py`, `intent.py`, `facts.py`) | none | `risks_in`, `intents_in`, `facts_in` | dangers are judged a sentence at a time; a chased refund is not a policy question; a policy asked for by name is asked for whole |
| Enquiry and triage (`agent/enquiry.py`, `triage.py`) | none | `triage` | danger outranks everything; a request proceeds only with the inputs its lookup needs |
| Retrieval (`agent/retrieval.py`) | the index; vectors after `warm` | `warm`, `search`, `relevance_of` | fusion keeps what both rankers agree on; no disputed document reaches a customer unreviewed |
| Answering (`agent/answering.py`) | none | `plan_for` | an answer rests on evidence, of the right row, fresh enough, for everything asked |
| Commerce contract (`agent/commerce.py`) and demo shop (`agent/demo.py`) | none of ours | `answered_with`, `freshness_of`, `facts`; the shop's lookups | our faults are not the customer's mistakes; nobody reads another's order |
| Wording and replies (`agent/responses.py`, `messages.py`, `schemas/support.py`) | none | `say`, `tell`, `replied` | route, reasons and sentence agree |
| Support agent (`services/support.py`, `api/support.py`) | the request in progress | `answer` | recorded before told; promises of a person are kept |
| Case queue (`services/cases.py`, `api/cases.py`, `models/support.py`) | `support_cases` | `record`, `waiting`, `claim`, `resolve` | one owner, one closing account, every case finished |
| Sessions (`services/auth.py`, `api/auth.py`, `models/user.py`) | `refresh_tokens`, `users` | login, refresh, logout | one good token per sign-in; a logout is final |
| Accounts and API tokens (`api/auth.py`, `api/deps.py`, `core/security.py`, `seed.py`) | `users`, `api_tokens` | sign up, upgrade of an old hash, make a token, present one, seed | one account per name; what was answered is so; a late write undoes nothing |
| Startup (`main.py`, `core/config.py`, `agent/knowledge.py` and the loaders of the wording) | what the process has read | `lifespan`, `load_corpus`, `load_templates`, `load_messages` | it serves only with one rule in force for a policy and everything sayable; it refuses nothing that is in order |
| Embedder (`agent/inference.py`) | none | `embed` | outages degrade and do not stop the service |
| Database sessions, migrations, health, LRU cache | | | not modelled, see the end |

They interact by calls inside one request (`answer_message` → `triage` →
`plan_for` → index or gateway → `replied` → `record`), and between requests
only through the database: a customer's request inserts the row that staff
calls then update, auth calls of one account meet in its token rows, and
sign-ups, the seed and API tokens in the account's.

What is hard here:

- requests interleave at every `await`; two of them meet in a row of
  `support_cases` or `refresh_tokens`, and the code relies on conditional
  UPDATEs and unique indexes, not on reads, to settle who was first;
- reads that are acted on later: the caller's account, the presented token, the
  hash a password was checked against, the reason for a refusal, the page of the
  list;
- a process, connection or client that goes away between an UPDATE, its commit
  and the answer, so that the work is done and nobody is told, or told again;
- sources that are away, late, mistaken or answer about something else;
- files that an author may be editing while a process reads them one by one;
- a decision computed in several places (rating, wording, route, reasons,
  sentence) that must agree, and an order of checks that is the safety property;
- rank fusion, where a document nobody preferred can win.

`PROJECT.json` lists these hazards one by one, at the line where each bites.

## The modules

```
Profiles ┬─ Readers ── Triage ──────┐
         ├─ Records ────────────────┼─ Answering ── Replies ─┐
         │     └─ Storefront ──┐    │                        ├─ SupportAgent ── MCSupportAgent
         └─ Retrieval ─────────┼────┘            CaseQueue ──┤        │
               └─ Ranking      │                             └─ CaseDesk ── MCCaseDesk
                    └─ MCRanking                                      │
                               └─ Service (EXTENDS SupportAgent and CaseDesk) ── MCService
CaseBook (INSTANCEd by SupportAgent)
TokenChain ── Sessions ── MCSessions        Accounts        Startup ── MCStartup

RetrievalProofs ┬─ RankingProofs
                └─ SupportAgentProofs ─┐
                       CaseDeskProofs ─┴─ ServiceProofs
SessionsProofs      AccountsProofs      StartupProofs
```

**Profiles, Readers, Triage, Records, Retrieval, Answering, Replies** are the
pure part, as operators over records. A message is the set of its sentences, and
a sentence is which of the phrase lists something in it matches: which dangers
it reports or only mentions, whether it is in the first person, about something
that has happened, asking, chasing a refund, which intents, facts and policies
it names. What is made of the matches (`risk.py`'s advisory exception, applied
sentence by sentence; the chased refund that displaces the returns policy; the
whole policy asked for by name) is `Readers`. With the message come the
language, account, order and product. A policy entry is its reference, its
language and the facts it states. A ranking is any sequence of distinct entries:
what BM25 and cosine similarity score does not matter to what is done with the
order. Fusion is exact: reciprocal ranks are compared as fractions, a tie keeps
the order of insertion as Python's stable sort does. A gateway's answer is a
shape (`found`, `not_available`, `unavailable`, `malformed`, `misconfigured`)
and, if found, a row: its kind, whose number it bears, which of its fields are
filled in, how it was read and how long ago. What a row can settle follows from
the fields that are filled (`Records`). "none" is `None`.

**SupportAgent** is one customer message from the endpoint to the reply, any
number at once. `phase[r]` is where the coroutine of a request is:
`received`, `placed` (triage said `Proceed`), `decided`, `recorded`,
`answered`, or `failed`. `TriageMessage`, `SearchPolicies`, `LookUp`,
`FindNothingConnected`, `Record` and `Deliver` are the stretches between its
awaits. `SourceRaises` is what nothing in the code catches, `RecordFails` a
refused commit, `LoseReply` a connection that drops after it, `Crash` and
`Boot` the process, and a `failed` request may be received again with the same
content, under a new reference, as a customer does. `records` holds the decision
columns of the row `Open` inserts; `heard` and `decided` are history, so that
properties can compare a reply with the evidence. Staff act through the abstract
queue.

**CaseBook** is what the agent promises, without how: a book in which every
decision is entered once, on a blank page, while its sender is unanswered, and
is never rewritten; and one letter at most for a request, copied from a page of
its own. The refinement mapping is in `SupportAgent`: the book is `records`, the
letters are `told`. `KeepsTheBook` is that specification as a property of the
agent.

**CaseQueue** is what the table promises as a queue: open, claim, resolve, each
in one step. **CaseDesk** is what the code does: a call is admitted by a read,
runs a conditional UPDATE that waits for the row's lock and evaluates its WHERE
on what was committed, commits, reads again, answers; it may die between any
two of these. `Stamp` and `Arrive` are apart because `created_at` is stamped
before the row is visible. It is shown to implement `QueueSpec` by TLC and by
TLAPS. The refinement mapping is the identity on `rows`. `Observed` names the
staff whose answers are remembered in `notices`, so that a run about liveness need
not carry that history.

**Service** composes the two in one process: `SupportAgent` with the desk in the
place of its one-step staff, over the one table `rows` that both declare, with the shop of `demo.py`
(**Storefront**) behind the gateway. The insert of the agent is the desk's
`Arrive`; a death takes customers' messages and staff's calls at once; calls
need a process to come to. `WorksAsTheAgentAssumes` is `SupportAgent`'s
specification, as a property of the composition: what is shown of the agent with
its simple staff holds with the desk in their place.

**TokenChain** and **Sessions** stand to each other as the queue and the desk:
`refresh_tokens` as chains that start at a sign-in, and the statements of
login, refresh and logout over them. `login` is a history field: which sign-in
a token descends from.

**Accounts** is the statements of signing up, of a sign-in that replaces an old
hash, of making and presenting an API token, and of the seed. Each reads,
computes a hash or compares a clock, and then writes; the write waits for a row
another open transaction has written, and an INSERT for another of the same
name. A password stands for itself and a hash for the password it is of and the
scheme that made it. `Revoke`, `Expire` and `Deactivate` are what happens
meanwhile.

**Startup** is the lifespan: settings are checked, the three directories listed
and read file by file in the order of their names (`unread` holds the names
listed and not yet read, `IsNext` which of them is next) while an author may change
them, each judged as a whole, the embedder tried, and the process serves or
refuses. A file's content is the name it declares, whether it is approved and,
for a policy, what it claims as a single value.

**Ranking** is a `PolicyIndex` searched query after query, with the embedder
there or not.

The names of operators follow the source's; each is preceded by the name of
what it translates. A definition marked *Mutant* is a plausible mistake in the
code: `PROJECT.json` names, for every property of every passing run, one that
makes TLC find that property violated when it replaces the real definition.

## The runs

| Run | Question | Bounds, and why they are enough |
|---|---|---|
| `CaseDesk.cfg` | Does the desk implement the queue, and is every answer it gives true and kept? | one case, two staff, two notes, three calls, one death. Calls only meet in a row, so one row carries every conflict; three calls are a writer, a waiter and one that explains or dies. `ListLimit = 0`: what the list shows is not what this run is about, and leaving it empty keeps the run small. That nothing written is replaced is asked here, where calls conflict |
| `CaseDeskShift.cfg` | Is every case finished, although who claimed it leaves, more are open than the list shows, and one appears ahead of what was there? | two cases and a page of one, so that either hides the other, and the one stamped second can commit first; two staff, one of whom may leave; one call, as the list does not depend on calls in progress; one death. `ShiftSpec`, below |
| `CaseDeskTaken.cfg` | "Somebody else has it." | violated, see below |
| `AgentDecides.cfg` | Is what is read, answered, asked and escalated what the evidence allows? | one message of one or two sentences, drawn from every intent with every combination of inputs with and without danger, every way a sentence can speak of a danger or ask about one, alone and beside a question, and the questions the tests ask; both languages and one nobody writes in; every whole or partial order of the entries; rows of each kind with every set of fields they can be built with, two identities, both provenances, ages -1 to 3 about `Ttl = 1` and `ReadableFor = 2`, so that both edges are crossed |
| `AgentRetries.cfg` | Is what people were told true of the table, through retries? | two messages, three references (so that one message can be sent twice, and a third attempt finds none left), commerce not connected, one crash |
| `AgentLocale.cfg` | "the request goes to internal review" | violated |
| `Service.cfg` | Do the agent and the desk, together, do what each was shown to do with the other abstracted; does every message end, is every promised person found; does the shop keep customers apart? | one message, sent again after errors, so that its first case can be one nobody was told of; two references and a page of one, so that such a case can hide the promised one; one member of staff and one call; the embedder there, away when a process starts, or refusing a request; the shop reached or not; one crash and one failed call. `DaySpec`, below |
| `Ranking.cfg` | What does fusion, and the cut, do to two arbitrary orders? | four documents, all pairs of the 65 partial orders, a page of three, so that both sides of the cut occur |
| `RankingPage.cfg` | The same rating with more than a page | violated |
| `Sessions.cfg` | Do the statements of login, refresh and logout implement the chain, is a logout final, does any call hang? | three tokens (a sign-in and two refreshes, or two sign-ins), one account that signs in and one that only tries to sign the first out, two calls, one death. Calls only meet in a token's row, in pairs. `OrderedSpec`, below |
| `Accounts.cfg` | Has a name one owner, is every answer true, and does a late write undo anything? | one name, the demo account's, so that sign-ups and the seed race for it; its password and another, which may still be stored under the old scheme; two ids (the loser of the race draws one); one API token; two calls, one death |
| `Startup.cfg` | Does a process serve only what holds together, and refuse only what does not? | one policy, one fact, one message, two languages, two versions: the checks compare pairs, within a language and across; two edits, which is what it takes to switch a version in both languages; seven environments, at least one for each validator and each embedder, with windows that are equal, apart and crossed |

`CHECK_DEADLOCK FALSE` is given where the bounded system stops: no references,
names or tokens left to draw. The desk and a starting process never stop, and
are checked for deadlock.

Each state machine has a type invariant. `ServiceTypeOK` (the agent's and the
desk's) is a run's invariant; the others are proved, below, and not run again.

**The queue.** `FirstWriterStands`: no step replaces an owner or a closing
account. `ClaimedMeansYours`, `ResolvedMeansRecorded`, `RefusalsAreTrue`: a 200
and a 409, once received, stay true whatever anybody does afterwards.
`EveryCaseIsFinished`: whatever was stamped or committed first, and whoever left.

**The agent.** `DangerReachesAPersonUnread`, `ChasedRefundsAreLookedUp`,
`ReadsOnlyWhatItRecords`, `AnswersRestOnEvidence`, `FaultsAreNotTheCustomers`,
`EveryOutcomeIsExplained`: a filed decision against the message and the evidence
it was made on. They are stated over history and the meaning of sentences and
rows, not over the rating functions. (`ChasedRefundsAreLookedUp` says both that
nobody chasing a refund is read the returns policy, and that nobody who used no
other intent's words is asked which they meant.) `RecordedBeforeTold`,
`ToldOfAColleagueMeansQueued`: a reply against the table. `KeepsTheBook`: the
agent implements `CaseBook`.

**The service.** `WorksAsTheAgentAssumes`; `OnlyTheirOwnRows`: an answer about an
order or a refund is from a row filed under the sender's own account, and
somebody naming another's hears what they would of one that is nobody's;
`EveryMessageEnds`, `PromisesAreKept`.

**Ranking.** `WorseNeverOvertakes`, `CorroborationWins`,
`ReadyCitesTheCommonLeader`, `UndisputedUnlessCut`.

**Sessions.** `OneLiveTokenPerLogin`, `SuccessorsContinue`,
`LoggedOutMeansOver`, `HandedOverIsOnFile`, `EveryCallEnds`.

**Accounts.** `OneAccountPerName`, `WelcomedMeansYours`, `ConflictsAreTrue`
(the 409 may come from the SELECT or from the index), `SeededAccountOpens`,
`UsesAreHonest` (nobody is let in who came after a token was over, and no use is
left off its row), `NothingIsUndone`, `EveryAccountCallEnds`.

**Startup.** `OneRuleInForce`, `AgentIsEquipped` (which is what the other modules
assume of the process they run in), `RefusesWithCause`.

### What the code does otherwise than it says

- `CaseDeskTaken`: claiming a case a second time, as after a lost answer, is a
  409 "Somebody else has it" (`app/services/cases.py:113`) when it is the
  claimer who has it.
- `AgentLocale`: a question answered in another language only is escalated, not
  sent to internal review (`docs/architecture.md:477`).
- `RankingPage`: `search` cuts to five before `relevance_of` looks for who led.
  With six entries in a language, the entry meaning led with can be cut, and a
  dispute is rated as an absent ranker: a document neither ranker preferred is
  cited unreviewed. The shipped corpus is too small for it.

Not counted as one, and worth knowing:

- two rankers that disagree hold an answer back, and the same words send it
  while the embedder is away. `tests/test_retrieval.py:303` says that this is
  intended;
- the list is "every request still waiting" (`app/api/cases.py:31`) up to fifty,
  oldest first, and claimed cases take room in it. The rest appear as these are
  closed, which is what `PromisesAreKept` needs of it;
- a sign-in that is upgrading an old hash writes it by id, so a password the seed
  set meanwhile is replaced by the former one. `overtaken` marks it, and
  `SeededAccountOpens` is checked but for it;
- a member of staff who loses the role, or an account that is deactivated, after
  the read that admitted the call still completes that call. Nothing promises
  otherwise; the models let it happen.

## Fairness

`FairServiceSpec`: a customer's handler that can go on does (`WF` of
`Handled(r)`: coroutines are run by an event loop, timeouts turn silence into an
answer), and a process that died is started again (`WF` of `Starts`, the
container's restart policy). A staff call goes on though crashes interrupt it
(`SF` of `Serves(k)`), and somebody on the staff keeps opening the list and
resolving what it shows (`SF` of `OpensList` and `ClosesListed`). That a customer tries
again is not assumed.

`FairDeskSpec`: each call's handler goes on (`WF`), and an UPDATE that is again
and again able to take a row's lock gets it (`SF`: a database queues its
waiters). Of people: somebody on the staff who is still active keeps opening the
list and resolving what it shows (`SF`, because calls are a shared, bounded
resource here). Deaths are bounded by `MaxFailures`; without a bound everything
may die for ever. Somebody always stays on the staff (`Leave`).

Three runs check liveness under a specification of their `MC` module with the
same fairness and a next-state relation that allows less. TLC cannot use symmetry
on liveness, and the constants these modules fix are interchangeable, so that any
behaviour becomes one they allow when the names are permuted: `ShiftSpec` fixes
which case is stamped first and who of the staff stays, `DaySpec` which reference
is minted first, `OrderedSpec` in which order tokens are drawn. Two restrictions
are bounds: in `ShiftSpec` every case arrives as an escalation (one that needs
nobody never comes onto the list, and one for review is treated alike), and in
`OrderedSpec` the second account presents the first token, at logout only, and
stays active.

`FairSessionsSpec`: `WF` of each handler and `SF` of its `ClaimToken`, for the
same reasons. `FairAccountsSpec`: `SF` of each call's steps, which covers both.
`Startup` has no liveness: an author may edit and a deployment may stop for ever.

## What is proved

Every safety property and action property of the passing runs is a theorem, and
so is every refinement. The proof modules hold for any sets of messages, cases,
staff, calls, notes, policies, rankings, tokens, accounts, names and files. The
assumptions are the named `ASSUME`s, which TLC evaluates in the runs: null values
are not members of the sets they stand beside; there is some call and some member
of staff; messages are made of sentences; the approved policies are finitely
many; our own language is one of the languages; what a gateway finds is a row its
validators let through, with an age, read live or cached, and the demo shop's
gateway answers from its tables or is unavailable; a ranking lists no entry
twice; the demo account's name and password are among the names and passwords;
the shipped files are a directory, and the order of `sorted()` is a sequence of
names that lists all of them.

- `CaseDeskProofs`, of the queue: `QueueTyped`, `QueueAccounted`, `QueueKeepsTheFirst`.
  `ClosedIsAccountedFor` with typing is inductive; `AccountedFor(row)` states it
  of one row, and `OperationsAccount` that each SET keeps it.
  Of the desk: `DeskTypes` needs `CallsAreAimed` as strengthening: a call
  about to write names a case that exists and brings a note if it resolves.
  `DeskLocks` is the heart. A call that has written holds the lock of its row
  alone, what it will commit is its SET of the row as it stands, and nothing can
  change a row under a lock: an insert finds the row absent, a commit holds its
  own. From it `DeskImplementsQueue` follows, as each commit is the queue's claim
  or resolve at that moment and everything else a stutter; and with it
  `DeskAccounts` and `DeskKeepsTheFirst`, which are the queue's theorems carried
  over. `DeskInforms` adds what is known: `Knows` of a call past its commit or
  its second read, `Heard` of a member of staff who was answered. Both are kept
  because of `RowsOnlyGain`: a row that is there keeps its route and its owner,
  and everything once it is closed. `ClaimsAreKept`, `ResolutionsAreKept` and
  `ReasonsAreTrue` are its consequences, so every safety property of the desk's
  passing runs is proved.
- `SupportAgentProofs`: the pure operators first. `Explained(o)` says that an
  outcome's reasons belong to its route, and is shown of every branch of
  `TriageOf`, of every rating and of `plan_for` on either source. Then three
  inductive invariants. `Attempts` ties the phase of a request to what is known
  by then, and makes `AgentImplementsQueue`. `OnRecord` ties the table to the
  requests (each row is of one of them and carries its decision; what a customer
  was told is the decision filed) and gives `NobodyIsToldUnrecorded`,
  `CasesAreExplained` and `PromisesAreQueued`, the last with the queue's own
  theorem carried over by the refinement. With `Unwritten` (a case without a row
  is blank, and who was not answered was told nothing) it gives
  `AgentKeepsTheBook`: `Record` is an entry of the book, `Deliver` a letter, and
  every other step a stutter. `Readings` (nothing is
  heard before a request is placed; what was decided is triage's word, or is
  what the code makes of what it heard: `WorkedOut`) gives `DangerIsNeverRead`,
  `ReadingIsRecorded`, `RefundsAreLookedUp` (a chased refund leaves triage as
  that or not at all, and as that if it is all the message names:
  `ChasingIsPlaced`), `FaultsStayOurs` and `AnswersAreSupported`: a rating good
  enough to send has every factor good, so everything asked is stated by what the
  answer is taken from, and can be said; what a search came to is in one of its
  two rankings, and in the customer's language; and words were among what found
  it, since meaning alone is rated for review. `Bookkeeping` is the rest of the
  types, for `AgentTyped`.
- `RetrievalProofs`: a fused ranking is one. `Outranks` is a strict total order
  of what was found (reciprocal ranks are compared as fractions, and no two
  findings were inserted at the same place), so that `PlaceAmong` gives each
  finding a place of its own, in order, and the `CHOOSE` in `Fuse` has exactly
  one to choose; no induction is needed. From it: what the page holds, that
  nothing on it is behind what was cut off, and that what leads it has a first
  place where the rating says so.
- `RankingProofs`: `Fused` (what was returned is the search of the two rankings
  that were made) is inductive, and the four properties follow.
  `CorroboratedIsListedFirst` needs that no ranking is longer than `RRF_K + 1`
  entries, which is what its hypothesis says: at 61 entries two last places still
  add up to more than a first, at 62 they are a tie. The code does not state
  that limit; the shipped corpus has two entries in a language at most.
- `ServiceProofs`: `ServiceInvariant` is the desk's invariant with the agent's
  `Attempts`. `StepsAreTheDesks` says that whatever the process does but die is a
  step of the desk or leaves it alone (an insert is a case arriving, because what
  is filed has a route: that is what `Attempts` is for), and `DyingKeepsTheDesk`
  that one death rolling back every call at once keeps what the desk's proofs
  need. `StepsAreTheAgents` is the refinement: a commit is `StaffWork`, every
  other statement of the desk a stutter of the agent. Hence
  `ServiceImplementsAgent`, and by it or by the desk's own lemmas `ServiceTyped`,
  `StaffAreToldTheTruth` and `CustomersAreToldTheTruth`, which are the theorems of
  the two halves under the specification of the whole. `NobodyReadsAnothersOrder`
  adds the shop: what it says of a lookup depends on what is filed under the key
  the code builds from the account and the number.
- `SessionsProofs`, of the chain: `ChainInvariant` is the inductive invariant.
  `ChainIsClosed` is what `OneLiveTokenPerLogin` and `SuccessorsContinue` need:
  a token's sign-in was issued, and so was every successor named, so that a
  token never issued before is outside every chain.
  Of the service: `SessionsInvariant` strengthens the types by
  `CallsAreEquipped` (a call past its reads has its token, account and newly
  drawn token in hand), `FiledWasMinted` (a token nobody drew is not on file, so
  that a new one is Unissued) and `ClaimedIsStillGood` (a claimed row is one
  call's and still good: what makes its commit a rotation or a revocation).
  `SessionsImplementChain` follows, each commit being a step of the chain and
  everything else a stutter, and carries `OneLiveTokenPerLogin`,
  `SuccessorsContinue` and `SpentStaysSpent` over to the service. On it rests
  `AnswersAreTrue`: what was answered, or is committed and about to be, is so.
  `OverStays` is why a logout is final (a sign-in with nothing good can only
  stay so), `OnFileStays` why a chain can be followed (a row on file keeps its
  login and the name of its successor); `LoggedOutMeansOver` and
  `HandedOverIsOnFile` are its halves.
- `AccountsProofs`: the invariant is `TablesHold` (types, `OneAccountPerName`),
  `CallsHold` (what a call has read and written so far, and that no two open
  transactions wrote the same row or name) and `WordHolds` (what was told is so).
  The argument is `RowsKept`: a row stays what it is wherever a call or a word
  depends on it, whatever step is taken. All six safety properties of the run
  are proved from it.
- `StartupProofs`: `Past(directory)` says that what a process has behind it was
  judged as a whole and found in order; with the settings admitted it is
  inductive, and `StartupServesOneRule` and `StartupEquips` follow.
  `StartupHasCause` is of another kind: `InOrder` speaks of the files on disk by
  counting, the loaders of the set that was read by comparing pairs.
  `OrderIsHolding` shows, directory by directory, that the files are in order
  exactly when each is what its name says and every loader would accept all of
  them. `Faithful` is inductive while nobody edits: what has been read of a
  directory is what is on disk but for the names still unread, every name read
  so far is true, and a refusal had a cause.

Some of what is proved needs no run of its own: the type invariants, and
`LockIsHeldForTheRowAsItIs`, `ClosedIsAccountedFor`, `ClaimedIsStillGood` and
`SpentStaysSpent`.

Only model-checked: liveness, and everything that rests on fairness or ENABLED
(`EveryCaseIsFinished`, `EveryMessageEnds`, `PromisesAreKept`, `EveryCallEnds`,
`EveryAccountCallEnds`), which are outside what the provers here do.

## What is not modelled

- The phrase lists and regular expressions, the folding of text, BM25 and cosine
  similarity, the slots of templates, and the parsing of the embedder's response:
  data, which the tests' corpora settle better. What they return is arbitrary in
  the model, within its type.
- What a policy entry must be on its own (ranges of numbers, a date in order, a
  currency). An entry is broken or it is not; a customer's sentence is modelled
  as chosen, not as filled in.
- Middleware, the documentation pages, parsing of origins, prefixes and URLs.
- `db/session.py`, `alembic/`: library glue and generated schema steps. One
  session per request, rolled back unless committed, is what the models use.
- `lru_cache.py`, `health.py`: unused, and stateless.
- Cryptography: a signed token can be presented only by who was given it, and
  finding a password from its hash is not among the steps.
- Clocks: expiry is an event that may happen at any time; `created_at` orders
  rows as stamped; a row's age is what it was when it was read.

Two choices of the models to know of. Files change while a process loads them
only where the source tree is mounted, as `docker-compose.yml` does for
development; an image's files do not. And the instance of the agent approves a
sentence for the tracking reference, which the shipped wording does not, so that
a commerce row is answered from in both languages.

## Plan

1. *(done)* the case queue, abstract and detailed, with its refinement proved;
   the decision operators and the agent; ranking; sessions.
2. *(done)* accounts and API tokens; the demo shop and the phrase readers; the
   composition of the agent with the desk, shown and proved to implement the agent;
   startup. Proofs of the agent, of what the desk told people, of accounts and
   of startup.
3. *(done)* Proofs of fusion and the ratings read from it, of the evidence behind
   every answer, of the book of cases, of the whole service, and of the causes a
   process refuses to start for.
4. Left to model: two processes whose indexes are of different kinds; a clock for
   the two freshness windows.
