# AgroZone server: a TLA+ model of its core

AgroZone is a board of agricultural classified ads: a NestJS server over
PostgreSQL (Prisma), Redis, an S3 bucket, the payment service YooKassa, the
call-back service Zvonok and mail. These modules model what the server does
between its `await`s, check it with TLC on small instances and prove part of it
with TLAPS for all instances. Paths below are relative to the repository, whose
server code is in `src/`.

1. [The system](#1-the-system)
2. [How the code becomes actions](#2-how-the-code-becomes-actions)
3. [The modules](#3-the-modules)
4. [The runs](#4-the-runs)
5. [Fairness](#5-fairness)
6. [The proofs](#6-the-proofs)
7. [What the model says against the code](#7-what-the-model-says-against-the-code)
8. [Not modelled](#8-not-modelled)
9. [Plan](#9-plan)

## 1. The system

### Components, their state and their operations

| component | state | operations |
|---|---|---|
| Ads (`src/ads/ads.service.ts`, `state-machine/ad-state-machine.service.ts`) | table `ads`: status, rejection reason, publishedAt, expiresAt, archivedAt, images, text | create, update, publish, republish, reject, archive, activate, draft, saveDraft, publishDraft, remove |
| Ads workers (`src/ads/workers`) | none of their own | expiration; purge of the archive (3:00); rollup of views (2:00) |
| Files (`src/file`, `src/libs/s3`) | objects of the bucket, named by `ads.images` | upload, delete, delete by URL |
| Marks of an account (`src/notifications`, `src/ad-reports`, favorites of `ads.service.ts`) | tables `notifications`, `ad_reports`, `favorite_ads` | addFavorite, removeFavorite, createReport, updateStatus, notifyAdRejected, markAsRead, markAllAsRead |
| Paged lists (`ads.service.ts`, `notifications.service.ts`) | none of their own | findAll (three statements), findMyAds, findPending, getFavorites, findMyNotifications |
| Address of an ad (`ads.service.ts`, `src/scripts/backfill-*`) | `categoryPath`, `seoPath` of `ads` | create, saveDraft, update, backfill-ad-paths, backfill-category-path |
| View statistics (`ads.service.ts`: recordView, getCounters, getViewStats) | tables `ad_views` (ad, viewer, day) and `ad_views_daily` (sums) | recordView, getCounters, getViewStats, rollup |
| Paid promotion (`src/ad-bumps`, `src/premium`, `src/ad-services`) | three tables of purchases; service ends in `ads` and `users`; `ads.bumpedAt` | createCheckout, handleWebhook, checkStatus, reconcilePayment; hourly auto bump |
| Chat (`src/conversations`) | tables `conversations`, `messages` | startConversation, sendMessage, markRead, deleteConversation, getMessages, getConversations |
| Blocking (`src/blocked-users`) | table `blocked_users`, the hidden flags of dialogs | blockUser, unblockUser, isBlocked |
| Accounts (`src/user`) | tables `users`, `user_phones`, avatars in the bucket | verified numbers, primary number, password, second factor, profile, avatar, business check, deletion |
| Sign-in by mail (`src/auth`) | table `tokens` | register, login, mail links and codes, change of address |
| Sign-in by telephone (`src/auth/auth.service.ts`) | `tokens`, `users`, `user_phones` | registerSmsStart, registerSmsComplete, register, sendSmsCode, checkSmsCallbackStatus, verifySms |
| Sign-in by Google and Yandex (`src/auth`) | table `accounts`, sessions in Redis | connect, callback, extractProfileFromCode, logout |
| Categories (`prisma/seed.ts`, `prisma/data`, `scripts`, `src/categories`) | tables `categories`, `category_features`, `category_terms`, the server's cache of terms | seed, enrich-category-descriptions, precompute-category-embeddings, searchBySemantic |
| GigaChat (`src/libs/gigachat`) | the cached access token | getAccessToken, requestNewToken |
| Suggestions, cities, the catalogue's filters, embeddings | read only | queries (section 8) |

### How they interact

* Shared rows. `ads` is written by its own service, the workers, the paid
  services, account deletion and (by deletion of the row) cascades into views,
  purchases and dialogs. `users` is written by sign-in, accounts and premium.
* Calls. `reject` calls the notification service, `update`, `remove` and the
  purge call the file service, the three paid services call YooKassa, phone
  confirmation calls Zvonok, every mail link calls the mailer.
* Callbacks. YooKassa calls the webhook, as often as it likes, until it is
  answered with 200; the buyer's browser calls `checkStatus` for the same payment.
* Timers. Four cron jobs.
* Scripts. The seed writes categories while ads refer to them; two backfills bring
  the ads' paths after it; two more scripts describe the categories and cut the
  descriptions into terms, which the server reads when it starts.
* Sessions. Every request of a browser loads the session as a whole and may save
  it as a whole.
* Account deletion is one transaction over ads, dialogs, numbers, tokens and the
  account; a request that `AuthGuard` let in before goes on after it.

### What is hard about it

* Every handler reads a row, awaits something and writes by id what it decided
  from what it read. Only transactions and unique indexes stand between two of
  them, and READ COMMITTED transactions do not stop much.
* Two stores (rows and files; the purchase and the payment; the token and the
  mail) are changed one after the other, and either call may fail or the process
  die in between.
* Payments are reported by two channels that know nothing of each other.
* The rollup moves data between two tables that are read by two queries.
* Lists and histories are read page by page while they change.
* Scripts without a transaction may end anywhere, and nothing keeps two apart.

`PROJECT.json` lists these hazards line by line, with the properties that cover
them and, for those that none covers, the reason.

### What makes each component correct

* Ads: what is in the catalogue has an end; what a moderator has to see, he sees;
  what is archived or overdue goes in the end; rows do not go before their files;
  a deleted account is passive.
* Payments: nothing credited unpaid, nothing paid lost while its ad is there, credited once, days added
  to days, the service bought is rendered.
* Chat: one dialog per buyer and ad, nobody's dialog disappears by another's will,
  a block blocks.
* Views: every visitor counted once, in one table or in the other.
* Phones: who has numbers has one primary number, numbers follow calls, codes
  serve once.
* Sign-in: codes open one session, whoever is verified has proven an address or a number, or
  comes from a provider; an
  identity comes to the same account again, anonymised accounts stay so.
* Profile: the picture shown exists, a verified name fits the type of seller.
* Marks: nothing an account has had of them is left after its deletion.
* Lists and history: who reads to the end has seen all that stayed.
* Categories: an import that ends has imported everything, a script run in order
  repairs what others left; the search shows the best and nothing else.
* GigaChat: no call arrives with a dead token, one exchange at a time.

## 2. How the code becomes actions

**Interleaving.** The server is one Node process (`Dockerfile`: `node dist/main`).
Code between two `await`s runs without interruption, and each Prisma call outside
`$transaction` is one atomic statement. An action is therefore one such stretch of
code together with the statement or external call it had been waiting for. What a
handler remembers from one action to the next is the record `req[r]` of its slot
`r`; `req[r].step` is the `await` at which it is suspended. The number of slots
bounds how many requests are under way at once.

**Transactions.** Where `$transaction(async tx => …)` matters, it is taken apart
as PostgreSQL does it under READ COMMITTED: in `AdLifecycle` the rows it has
updated are locked until the commit; in `Phones` each statement first fixes the
rows it sees, then waits for rows another transaction has written and looks at
them again. Transactions that only write rows nobody else decides on are one
action at their commit. In `ChatHistory` a transaction takes its time when it
starts and is seen when it commits.

**Sessions.** `OAuthSignIn` takes express-session for what it does with
`resave: false`: a request gets a copy, and a copy that was changed replaces the
stored session when the request ends.

**Scripts** are one process each that may die between any two statements, and run
next to requests. Nothing keeps a script from being started twice or next to
another: `CategoryTerms` and `AdCategory` have slots for scripts, as the other
modules have for requests, and each slot may run any of them. One seed at a time is
assumed where the seed moves the tree (`CategorySeed`, and the slugs of `AdCategory`).

**Requests and accounts.** `AuthGuard` (`src/auth/guards/auth.guard.ts:9-34`)
looks at `deletedAt` when a request begins and never again.

**Failures.** A call to storage, YooKassa, mail or Zvonok may fail, and some of a
`Promise.all` may have worked. A crash loses every `req[r]` and the workers'
lists, rolls back open transactions and leaves the tables.

**Time** is counted in days and moves by an action of its own. One cron job does
not overlap its own next run.

Where the order of two instants matters (`ChatHistory`, `PagedLists`,
`TokenCache`) the clock counts milliseconds or any other unit.

**Data.** Texts, prices and phone numbers of an ad are one model value `content`;
messages are reduced to who has not read the last one; passwords to whether there
is one. Dates are natural numbers or `null`.

**Names.** Actions carry the names of the methods they are part of
(`publishRead`, `publishWrite`). A definition `op_variant` before `op` is `op`
with a mistake someone might make; nothing uses it. Putting it in `op`'s place
violates one of the properties, and `PROJECT.json` ("mutants") says which.

## 3. The modules

| module | what it is |
|---|---|
| `AdStateMachine` | the table of transitions of an ad's status |
| `AdLifecycle` | handlers of `AdsService`, expiration, purge, deletion of the account |
| `AdCategory` | path and address of ads, next to seed and backfills |
| `CategorySeed` | `prisma/seed.ts` over the releases of the tree |
| `CategoryTerms` | descriptions, terms and the server's cache of them |
| `CategorySearch` | `searchBySemantic`: scores, best terms, answer; Levenshtein |
| `TokenCache` | GigaChat's access token, shared by calls at once |
| `PagedLists` | the five lists that are read page by page |
| `Payments` | checkout, webhook, polling and reconciliation; auto bump |
| `PaymentLedger` | what a purchase promises its buyer; the abstract specification that `Payments` implements |
| `Chat` | dialogs, blocking, deletion of accounts and ads |
| `ChatHistory` | messages of a dialog in time, pages, unread marks |
| `AdViews` | recorded views, rollup, the two queries of an answer |
| `Phones` | numbers of accounts under READ COMMITTED |
| `PhoneSignUp` | registering and signing in by telephone |
| `SignIn` | links and codes of mails, registration, login, second factor, change of address |
| `OAuthSignIn` | Google and Yandex, and the sessions in Redis |
| `Profile` | type of seller, verified business name, avatar |
| `Marks` | favorites, reports, notifications |
| `MC...` | constants, histories, and the composition of modules for one run (below) |
| `...Proofs` | theorems and their proofs |

**AdLifecycle** (`rows`, `files`, `deleted`, `notices`, `req`, `purge`, `today`).
A handler goes `idle -> authorized -> [deleteFiles -> uploadFiles ->] write -> idle`;
`reject` has a further step `notify`. `xRead(r, a)` is the code from the lookup to
the next await: it checks the owner or the moderator, asks the transition table
and remembers the new status (and `now`). `xWrite(r)` is the one `ad.update` by
id. It writes the columns the code writes and no others: that is why it matters
that `archive` keeps the rejection reason and `publish` keeps `archivedAt`.
`republish` asks no table. What an edit keeps, and what `create` starts with, is
whatever `existingImages` names: nobody compares it with the row, so it may be a file
that is gone, or another ad's. `notifyFails` is the insert of the notification that
fails after the rejection was committed; the moderator gets a 500.
`deleteAccountBegin/Commit/Abort` is the transaction of
`deleteAccount` as far as it concerns ads. `purgeScan/purgeFiles/purgeDelete` is
the nightly worker, one ad at a time.

**AdCategory** (`cats`, `ads`, `req`, `seed`, `scripts`). `create` and `saveDraft`
climb from the category to the root, one `findUnique` for each row
(`getCategoryPath`), while the seed gives slugs to categories one after the other.
`backfill(k, name)` starts one of the two scripts in slot `k`: it reads ads and
categories in two statements and then writes ad by ad.

**CategorySeed** (`tree`, `rows`, `run`). A release brings any tree the data's own
validation accepts; `upsertCategory` finds the row by id, else by path, and writes
it; `refuse` is the unique index; `die` may come anywhere. `path`, `fullPath` and
`code` are one sequence of names.

**CategoryTerms** (`description`, `terms`, `termCache`, `generated`, `runs`). A
description is a number, its terms are chunks; a slot runs the seed, `enrich` or
`precompute`, whose `deleteMany` and each `createMany` are steps of their own. Two
runs of `precompute` at one category mix their chunks.

**CategorySearch** (`termCache`, `query`, `semantic`, `next`, `best`, `answer`).
The loop over the cached terms, one term a step, then filter, sort and slice.
`levenshtein` is the recursive function the code's table computes. Scores are
whole hundredths; what a float rounds away is left out.

**TokenCache** (`now`, `cachedToken`, `tokenRefreshPromise`, `exchange`, `call`).
`useCached`, `joins` and `requestNewToken` are the three branches of
`getAccessToken`; the network takes up to `Delay` each way.

**PagedLists** (`list`, `clock`, `item`, `worker`, `reader`). `findAll` is
`count -> ids -> rows`, the other lists one statement; between pages items come,
are hidden, shown, bumped and removed. Equal times come in any order.

**Payments** (`ads`, `row`, `payment`, `offered`, `webhooks`, `until`, `bumpedAt`,
`req`, `auto`, `applied`, `today`, `crashes`). The three services differ in their
table and in which column they extend; their steps are the same, so a purchase is
described by the constants `AdOf`, `Services` and `Duration`. Checkout:
`checkoutRead -> checkoutCreate -> postPayment -> checkoutRecord` (or
`checkoutCancel`). Reconciliation: `reconcileFind` (webhook or buyer)
`-> reconcileFetch -> reconcileRead -> reconcileWrite` (or `reconcileCancel`).
YooKassa is external: a payment under an idempotence key is paid or canceled once
and its notification repeated. One account is modelled: the services refuse other
people's ads, so two accounts never meet in a row. `applied` is history.

**PaymentLedger.** A purchase is new, open, paid, credited or void; `Credit` puts
the days bought on top of those still running. `Payments!Ledger` maps the row, the
payment and the history to it.

**Chat** (`convs`, `blocked`, `ads`, `deleted`, `req`). `upsert` is the atomic
`conversation.upsert` over the index (adId, buyerId). Blocking is two statements,
unblocking one transaction, deleting an account a scan and a commit.

**ChatHistory** (`clock`, `messages`, `lastMessageAt`, `readAt`, `req`, `scroll`).
`createMessage` takes its time and commits later, so messages may appear in another
order than their times; `getMessages` takes a page of exactly `Limit` messages and
goes on before the oldest it has shown; `isUnread` is the condition of `getConversations`.

**AdViews** (`today`, `ads`, `raw`, `daily`, `scanned`, `lastRun`, `reader`,
`visited`). The worker reads groups, then moves one (ad, day) per transaction,
`rollUp(a, d)`; `readDaily`, `readRaw` and `answer` are an owner's request. It is
assumed that a view is stored, and an answer put together, before the rollup of
the following night starts. `visited` is history.

**Phones** (`owner`, `primary`, `tokens`, `deleted`, `req`, `uses`). `Fail(r)` is a
rolled back transaction, whatever the reason (deadlock, unique index, crash).

**PhoneSignUp** (`users`, `owner`, `tokens`, `req`, `opened`). Zvonok's call id is
the code, told by the poll once the person has called. `sendSmsCode` deletes the old
codes, looks for the account and creates the new one, three statements;
`createUser` meets the unique index of `user_phones`. An account that registers with
an address as well is sent a mail and nobody has to call: `confirmEmail` is the link
of that mail, or of a later change of address, which sets the same `isVerified`;
`linked` is the history that says so.

**SignIn** (`kinds`, `users`, `tokens`, `req`, `proven`, `vouched`, `opened`). Every token service has
the same three steps (find, delete, create) and every link the same order (find
the token, find the account, write the account, delete the token, open a session);
they are actions with the type of the token as data, and `kinds` are those this
behaviour looks at. `users.isVerified` is one column: the link of a mail sets it, and
so do `verifySms`, `registerSmsComplete` and the creation of an account for a
provider's identity, none of which ask whether the account's address is its own. The
history `proven` has the addresses a link was followed from, `vouched` those an
account had when one of the others verified it.

**OAuthSignIn** (`users`, `links`, `store`, `req`, `opened`). `connect` leaves a
state in the session, `callback` checks and deletes it, asks the provider, and
finds an account by link, by address, or creates one and then the link.

**Profile** (`row`, `files`, `req`) and **Marks** (`ads`, `favorites`, `reports`,
`notices`, `deleted`, `req`) are handlers of one read and one or more writes, with
failures of S3 and DaData, cascades of a removed ad and the account's deletion.
`reject` asks nothing about the account: an administrator can publish an archived ad
of a deleted one (`AdsController.publish`), reject it, and so notify nobody.

**Histories.** Some promises of the comments hold only as long as no request begins
while another is under way. The MC modules add variables that observe the system:
`calm` becomes FALSE when requests overlap (in `MCChat` also when a crash cuts one
short; in `MCAdFiles` it is `undisturbed`, which ends when something is refused half
way or the purge meets a request), and properties read `calm => ...` while the same
run checks others in every overlap. They are not empty: each fails for a mistake in
one of the handlers, through several complete requests. In the other modules:

* `MCPagedLists`: `steady` is what has stayed in its place since the reader's first
  page, `calm` that nothing has left the list and no two items share a time,
  `still` that nothing has changed;
* `MCChatHistory`: `apart` says that no two requests overlapped or took their times
  in one millisecond, `there` which messages there were at the first page, `seen`
  those a participant had before him when he marked the dialog read;
* `MCAdCategory`: `calm` also ends when a category gets another slug or an ad
  another category, or a script meets a request or a script; `halved` says that backfill-category-path has written an ad,
  `alone` that nothing has disturbed the script since it began;
* `MCCategoryTerms`: `phase` follows a run of `precompute --force` that nothing
  disturbs, and the restart of the server after it; `met` says that two runs of
  `precompute` have been at one category at once;
* `MCAdFiles`: `known` says that `existingImages` have named only the ad's own files
  so far, `unheard` which rejected ads' notifications have failed;
* `MCMarks`: `late` has the notifications of ads rejected after the account's deletion;
* `MCProfile`: `mishap` is a request that failed half way; `MCOAuthSignIn`: `who`
  has signed in last in a browser; `MCCategorySeed`: `adopted` is a row found by the
  path of another category.

One of these modules also restricts: `MCCategorySeed` ends a history where a row is
adopted (section 7).

What a property says only while `calm` it does not say of overlaps. So
`AdsOneByOne`, `KeepsPromise`, `ChatOneByOne`, `BlockHolds`, `PhonesOneByOne`,
`AccountsOneByOne` and `SignInSticks` are about what a long sequence of requests, with
failures, can bring about; the overlaps and crashes that break them are in the
modules, section 7 lists them, and no property covers them. `PROJECT.json` says so at
each hazard.

**Composition.** Account deletion, shared rows and callbacks are inside the modules
named. `MCAds`, `MCPaidLists`, `MCChat`, `MCPhones` and `MCSignIn` take several
modules as instances, with a variable `part` that is chosen at the start and says
whose behaviour this is; the others stay at their initial state. The state space is
the sum of the parts', and since they share no variable a property of one part is
exactly what it would be alone. The rows behind the parts are not always apart:
`users.isVerified` is written by mails, calls and providers, `users.deletedAt` and
`ads` by many. What the others do to a column that a part's properties depend on is
therefore an action of that part too (`confirmEmail` in `PhoneSignUp`; `verifySms`,
`registerSmsComplete` and `extractProfileFromCode` in `SignIn`; the late `reject` in
`Marks`; `deleteAccount` and `removeAd` wherever they matter).

## 4. The runs

Passing runs explore the whole state space of their instance (`AdRaces` within
`MCAds!Bounded`, below).

| run | instance | states | shows |
|---|---|---|---|
| `AdRaces` (`MCAds`) | 1 ad, 1 user and the moderator, 2 requests, 2 texts, days 0..2, lifetime and retention 1, crashes; 2 categories with 2 slugs, 1 request and 2 backfills; 2 categories with a description in 2 chunks, 2 scripts; 3 cached terms, 4 queries; 3 calls until time 12 | 2.2 million | `PublishedForOneLifetime`, `ReasonStaysOutOfCatalogue`, `EditNeverGoesLive` in every interleaving; `PathOfItsCategory`, `BackfillRepairs`; `ForceRepairs`; `AnswerIsTheTop`; `NeverTooLate`; `TypesOK` of all parts |
| `AdSerial` (`MCAdFiles`) | 1 ad, 1 request next to the workers, 2 images, days 0..1, no crash, fairness | 678 000 | `AdsOneByOne`: S3 holds nothing that no row lists, and what rows list while requests name only the ad's own files; archived ads are dated; in the end `WorkersCatchUp`, `RejectionIsNotified` |
| `PaySafety` (`MCPaidLists`) | a bump for an ad and a premium account, 2 requests, 1 crash, days 1..2; 3 items in pages of 2, each list; all trees of at most 3 categories, 2 names, depth 2 | 1.2 million | `CreditedWasPaid`, `PayableIsRecognised`, `NoHangingPending`; `NothingSkipped`; `ImportsEverything` |
| `PaySerial` (`MCPayments`) | a bump and a bundle for one ad, lasting 2 days, 1 request, 1 crash, days 1..3, fairness | 50 000 | `KeepsPromise` (refinement of `PaymentLedger`), `PaidIsCredited`, `ActiveAdIsBumped` |
| `ChatRaces` (`MCChat`) | 2 users, 1 ad, 2 dialogs, 2 requests, crashes; 3 messages in pages of 1, times 1..3 | 1.0 million | `OneDialogPerBuyer`, `LivingKeepTheirDialogs`; one by one `ChatOneByOne`, `BlockHolds`; `HistoryIsWhole` |
| `ViewsRollup` (`MCAdViews`) | 1 ad, 2 visitors, 3 days, crashes, skipped nights, fairness | 46 000 | `CountsEveryVisitorOnce`, `TodayIsExact`, `EventuallyRolledUp` |
| `PhoneRaces` (`MCPhones`) | 2 accounts, 3 numbers, 2 codes, 2 requests; 2 accounts to come, 2 numbers, 2 calls | 4.9 million | `SomePrimary`, `AttachedByCall`, `SignedUpByCall`; one by one `PhonesOneByOne` |
| `SignInRaces` (`MCSignIn`) | 2 accounts, 2 addresses, 2 tokens, 2 requests, two kinds of token at a time (registration or a new password, with the second factor or a change of address); 2 accounts, 1 identity, 1 browser; 3 avatars; 2 ads (1 own), 2 notifications | 5.3 million | `CodeOpensOneSession`, `VerifiedWasProven`, `SameAccountAgain`, `PictureExists`; one by one `AccountsOneByOne`, `SignInSticks`; `TypesOK` of all parts |

The properties that are conjunctions of named parts: `AdsOneByOne` of `FilesAreListed`
and `ArchiveIsDated`; `WorkersCatchUp` of `OverdueIsExpired` and `DueIsPurged`;
`ChatOneByOne` of `BlockedIsHidden`, `NoOrphanDialogs` and `UnreadUntilRead`;
`PhonesOneByOne` of `OnePrimary`, `NumbersAreFreed` and `OneCodePerNumber`;
`SignedUpByCall` of `VerifiedByCall` and `CodeOpensOneSession`; `AccountsOneByOne`
of `OneTokenPerAddress`, `AnonymousForGood`, `LinksAreAlive`, `NameFitsType`,
`NoLostAvatars` and `DeletedKeepsNothing`; `NothingSkipped` comes with
`PagesContinue`, `ImportsEverything` with `ForestAlways`, `HistoryIsWhole` with
`NothingTwice`, `AnswerIsTheTop` with `LettersDoNotOutweigh` and `LevenshteinIsLeast`.

Four runs find a counterexample to what the repository says of itself (section 7):
`PayTwice`, `AdStaleArchivedAt`, `AdDeletedOwner`, `ViewsTotal`.

Why the bounds are enough for the questions asked:

* *Two requests.* Each of the races is between one handler that has read and one
  that writes in between. A third handler can only repeat the first or the
  second's part. Workers, the moderator and the environment come on top of them.
  That the bound hides nothing is proved for the properties of section 6. A request
  for a category's path is single: its adversaries are the seed and the scripts.
* *Two scripts*, for the same reason. TLC gets through the overlaps of two only with
  less around them (`MCAds!Bounded`, in force where `Small` is TRUE): while two
  backfills are at work nobody seeds the tree, no request is on its way and all
  slugs are one; while two runs of `precompute` are, one category is on neither's list
  and the server has no terms. So two that meet at a category, mix their terms there
  and are then repaired are checked. The proofs of `AdsProofs` need none of this: they
  hold for any number of scripts, and `Small` only takes steps away.
* *One ad.* Handlers touch one ad, and the workers' loops treat them one by one;
  `purge` of two ads adds only an order. Account deletion takes a set, which the
  proofs cover.
* *Two days of lifetime and clock.* Dates are compared with `today` and with each
  other: before, at and after the end are all reached by day 2 with terms of 1.
  With purchases of 2 days on days 1..3 a second credit meets one that still runs,
  one that ends today and one that has ended.
* *Two texts* tell an edit from no edit; *two images* give a proper part of the
  files that are kept, or whose deletion failed, and a file that is not the ad's.
* *Two kinds of token at a time*: the first opens an account or gives access to it, the
  second is what an account changes. The proofs are for any sets of kinds at once.
* *Three numbers*: an account's primary, its second and one that is nobody's.
* *Two tokens* give an old and a new code for one address or number. Ids are not
  reused, so they also bound how many mails are sent and calls asked for.
* *`MaxCrashes = 1`*: tables are all that survives a crash, so a second one starts
  from a state in which the first has already forgotten the slots.
* *Three items, three messages, pages of two and one*: a page that ends, one that
  begins, and something that comes or goes in between.
* *Three categories with two names*: a chain of renames has a path that is given up
  and one that is taken over, and a tree of depth 2 has a move between parents.
* *Lifetime 5, assumed 3, delay 1*: the tightest values the assumption
  `Assumed + 2 * Delay <= Lifetime` admits, so that one unit more breaks it. By time
  12 a token has been issued, has expired and has been replaced.
* *Three cached terms, two results*: of three categories one is cut off.

Deadlock is checked in `AdSerial`. The other cfgs say CHECK_DEADLOCK FALSE: their
clocks, ids, tokens and purchases are used up, or all accounts deleted, and nothing
is left to do. Symmetry is used for requests, texts, slugs, ids and tokens, only in
runs without liveness.

## 5. Fairness

Requests may come or not: no action that begins one is fair, nor is anything the
user, the buyer, the moderator or the storage decides.

* A handler goes on (`WF(HandlerStep(r))`): every await of the code has an end or
  an error.
* `AdLifecycle` (run `AdSerial`): the expiration runs again and again while something is overdue
  (`SF(handleExpiredAds)`; a row lock interrupts it and PostgreSQL queues it); the
  purge proceeds (`WF(PurgeStep)`), and a file whose deletion fails tonight does
  not fail every night (`SF(purgeFiles(a))`, `SF(purgeDelete(a))`); days pass.
* `Payments`: YooKassa repeats a notification until it is answered with 200 and
  finds a free slot now and then (`SF(handleWebhook)` per purchase); it does not
  answer every question about one payment with an error (`SF(reconcileFetch)` per
  purchase); the cron job runs (`WF(AutoStep)`). Days and payments are not fair.
* `AdViews`: nights come, the worker is started and gets through its list, a
  group's transaction does not fail every night (`SF(rollUp(a, d))`).

## 6. The proofs

All are for arbitrary finite or infinite sets of requests, ads, accounts and so on
and for all terms. They rest only on the named assumptions about constants, which
TLC evaluates in the runs:

* `ConstantsAssumption`: ads have ordinary owners, the moderator is not one of them,
  terms are natural numbers, `null` is nothing else;
* `PaymentsAssumption`: a purchase without an ad is for premium, one with an ad is
  not; `ChatAssumption`: an ad has a seller; `AdViewsAssumption`: there are finitely
  many viewers;
* `PhonesAssumption`, `SignInAssumption`: `null` is no account, number, address or
  token; who has numbers at the start has a primary one;
* and for the modules that are checked as instances, `SignUpAssumption` in `MCPhones`,
  `HistoryAssumption` in `MCChat` and `PartsAssumption` in `MCAds`, `MCSignIn` and
  `MCPaidLists`: those of `PhoneSignUp`, `ChatHistory` (a page is at least one
  message), `TokenCache` (a token lives longer than it is kept, by twice the time of
  the network), `CategoryTerms`, `AdCategory` (categories have at most three levels,
  as the data's own validation demands), `OAuthSignIn`, `Profile`, `Marks`,
  `PagedLists` (a page is at least one item), `CategorySeed` (a release is a tree) and
  `CategorySearch` (terms and queries are strings, likenesses whole numbers).

Some promises are kept only one request at a time (section 4). Where the property
itself says `calm => ...` the theorem is about any number of slots. Where it does
not, the number is a hypothesis, as it is in the run: `OneAtATime` (there are no two
slots) for `PromiseKept`, `OnceWhenAlone` and `OneByOneIsListed`, the last also
`~Crashes`. `OnePrimaryAtFirst` says for `PhonesProofs!OneByOneIsOrderly` that no
account begins with two primary numbers.

**AdLifecycleProofs** (extends `MCAdFiles`). None of the properties is inductive: a
handler writes what it decided some time ago. `IInv` adds
* `RequestsInformed`: what a suspended handler's local variables can be: its owner,
  its target status, a `now` that is not in the future;
* `FreshIds`: an id about to be inserted is nobody else's;
* `LockedRowsExist`: what a transaction has locked is there at its commit;
* `StaleEditsAreDated`: an edit that will write EXPIRED back overtakes only rows
  that have a date, because no handler removes one. Without it `update` could
  write EXPIRED into a row that never had an expiry date.

Two relations, `RowStep(a)` and `RequestStep(r)`, say what any step may do to a row
and to a request. Each action is shown to satisfy both (`StepSteady`), and the
invariant and the action properties follow from these two alone. Theorems:
`TypeCorrect`, `LifetimeIsBounded`, `ReasonIsContained`, `EditsAreModerated`,
`DeletedAccountIsPassive` (`DeletedOwnerIsPassive`, which no run lists: when the last
of its requests is over, a deleted account edits, restores and inserts nothing).

`OneByOneIsListed` (`AdsOneByOne`) adds `FilesSound`: which files a handler or the
purge has already deleted or uploaded of those its row will list, while nothing was
refused half way, and that an edit of an archived ad knows it is archived. That no
file is stored which no row lists holds whatever `existingImages` name; that the files
listed are stored needs `known`, and that an edit then keeps a part of its row's files.

**PaymentsProofs** (extends `MCPaidLists`). `IInv` is `TypeOK`, `PurchaseSound` (how a
row, its payment and the link offered to the buyer fit together), `RequestSound` (what
a request at each step knows of its purchase) and `Exclusive` (a purchase that is
being checked out is in one request). Theorems: `TypeCorrect`, `NothingForFree`
(`CreditedWasPaid`), `NothingLost` (`PayableIsRecognised`: as long as its ad is there, a
purchase that was offered to the buyer is a row with its payment's id and not given up).
* `NothingHangs` (`NoHangingPending`) from `NoneLeft`: as long as nothing has crashed,
  a row without a payment is in the hands of a request that will pair it or void it.
* `PromiseKept` (`KeepsPromise`) is the refinement of `PaymentLedger`, one lemma for
  each action: it maps to a step of the ledger or leaves the ledger as it is. It needs
  `Steady`: a row is credited if and only if it was applied once, and what a
  reconciliation has seen of the service's end is still so when it writes.
  `OnceWhenAlone` (`CreditedOnce`) comes with it; `PayTwice` shows that it needs
  `OneAtATime`.
* `NothingIsSkipped` (`NothingSkipped`) from `ListsSound`, which says where each item
  that has stayed stands: if fewer items are ahead of it than have been leafed over,
  it has been shown. `Cardinality` of what is ahead and the place in any sorted
  sequence are related by lemmas; one takes the least place at which two sorted
  sequences of an untied list differ. For pages of one item the property was at first
  false (section 7), and `calm` asks for more since.
* `EverythingImported` (`ImportsEverything`) from `ImportSound`: the rows up to the
  node the walk has come to are as the release has them (`DoneSoFar`, `HalfWay`), and
  the table is a forest. The forest is kept because a row is hung only under one that
  the same walk has already put in its place, so no row that moves is above itself.

**ChatProofs** (extends `MCChat`). `IInv` is `TypeOK`, `People` (a dialog that has begun
has a buyer and a seller), `RequestsSound` (a suspended handler that is about to
delete a dialog for good knows that the counterpart has left) and `OneDialogPerBuyer`.
Theorems: `TypeCorrect`, `NoDuplicates`, `NobodyLosesADialog`.
* `BlocksHold` (`BlockHolds`) and two parts of `OneByOneIsKept` (`ChatOneByOne`) from
  `CalmInv`: while `calm`, who is under way is alone, a block half way is its own
  request's, and what it has read is still so.
* `HistoryComesWhole` (`HistoryIsWhole`) and `UnreadUntilRead` from `HistorySound`: the
  pages shown are in order of time without repetition, everything that was there and
  is not before the cursor has been shown, and while requests are apart times are
  different and commits come in their order.
* `TypesHold` (`TypesOK`).

**AdViewsProofs.** `IInv` is `TypeOK`, `WorkerSound` (what the worker has read of
an ad that still exists is still there and lies before the day of its last run, and
no day from that one on has a sum), `ReaderSound` (what an answer
has read of today is between the count at its start and the count now) and
`CountsEveryVisitorOnce`. Theorems: `TypeCorrect`, `NobodyLost`, `TodayAnswered`.

**PhonesProofs** (extends `MCPhones`). `SomePrimary` is about committed rows, but a
transaction clears the flag of one number before it sets that of another. `IInv`
therefore adds `TokenFacts`, what each step knows of its code (`Proven`), who need not
make his number primary (`Chosen`: only whose account has a number that stays), and
whose rows a transaction has written (`Locked`: its own account's; `Disjoint`: no
other's at once). Theorems: `TypeCorrect`, `PrimaryIsKept` (`SomePrimary`),
`CallsProveNumbers` (`AttachedByCall`), `SignedUpAfterCalls` (`SignedUpByCall`, from
`PhoneSignUpProofs`), `OneByOneIsOrderly` (`PhonesOneByOne`), and in no run's list
`CodesServeOnce` (`CodeServesOnce`) and `NumbersStay` (`NumberIsKept`: a number leaves
an account only with its deletion).

**PhoneSignUpProofs** (extends `MCPhoneSignUp`) **and SignInProofs** (extends
`MCSignIn`) have the same plan: facts about tokens (`TokenFacts`) and accounts
(`OwnerFacts`, `UserFacts`), what a suspended request `Knows` of the token and account
it has read, stated so that it survives every other step, and `Exclusive` (no two
requests are about to open a session with the same token). The last is what lets a
link be found twice and serve once. Theorems: `VerifiedHasCalled`,
`CodesOpenOneSession` (parts of `SignedUpByCall`, of accounts no link has verified);
`CodesOpenOneSession`
(`CodeOpensOneSession`), `VerifiedAddressesProven` (`VerifiedWasProven`: proven by a link,
or vouched for when a call or a provider verified the account).

`SignInProofs` goes on with the other parts of the run; `PartsSound` is the
conjunction of their invariants.
* `SameAccountAlways` (`SameAccountAgain`) and `SignInsStick` (`SignInSticks`) from
  `ProviderSound`: what an identity has signed in to, and the account a request is
  about to open a session for, is the account the identity is linked to or one that
  has been deleted since (`Leads`), so no later request can find another as long as
  that one lives.
* `PicturesExist` (`PictureExists`) from `PersonSound`: the file a request brings is in
  S3, is not the account's picture yet, and no other request brings it or is about to
  delete it (`UploadsSound`); the account's picture is there unless there was a mishap
  or a request is about to write another (`PictureSound`).
* `OneByOneIsOrderly` (`AccountsOneByOne`) adds the parts that hold while `calm`, among
  them `MarksSound`: nothing a deleted account has had is left.
* `TypesHold` (`TypesOK`).

**AdsProofs** (extends `MCAds` and `AdLifecycleProofs`). `AdsSound` is the conjunction of
five invariants.
* `TokenSound` says where the times can be: `CacheSound` (a cached token is given up
  before it is `Assumed + Delay` old), `ExchangeSound` (an exchange is not older than
  `Delay`), `CallSound` (a call left while its token had more than `Delay` to live) and
  `OneExchange`. Theorems: `TokensArriveAlive`, `NeverTooLateHolds` (`NeverTooLate`) and
  `ExchangesAreShared`.
* `TermsSound`: what a run with `--force` that is not disturbed has done with the
  categories it has passed, and, until two runs have met at one (`met`), that the
  chunks stored for a category are of one text, which the run that is at it knows.
  Theorem: `ForceRepairsHolds` (`ForceRepairs`).
* `PathsSound`: while `calm`, each row a request has climbed is the next part of its
  category's path, and what each script has read is the tree as it is (`ScriptInformed`);
  while `alone`, what the one script has left of its list is what is not yet in order. Theorems: `PathOfItsCategoryHolds` (`PathOfItsCategory`),
  `BackfillRepairsHolds` (`BackfillRepairs`).
* `PathsShort`: a category's path is no longer than its level, and what a request has
  climbed and what is above it make three at most. With the other invariants and
  `AdLifecycleProofs!TypeCorrect`, since a behaviour of `MCAds` is one of `AdLifecycle`,
  it gives theorem `TypesHold` (`TypesOK`).
* `SearchSound`: `BestSound` (after each term scored, a category's best is the greatest
  score among its terms so far) and `AnswerSound` (the answer is the beginning of a
  sequence of all good categories, each before those it beats). Theorem: `AnswerIsTheTopHolds` (`AnswerIsTheTop`).
* The table of `levenshtein` is a recursive function of pairs; `LevenshteinIsEntry` says
  that it exists and is the only one, by the least size, or the least sum of indices,
  at which two tables would differ. What its neighbours say of an entry
  (`EntryBounds`), what one edit does to the table (`EditIsNear`) and that of two
  different strings some edit brings one nearer (`SomeEditIsCloser`) give theorem
  `LevenshteinCounts`: a distance of 0 means equal, one edit changes it by one at most,
  and some edit lowers it. So it is the least number of edits, for strings of any
  letters and length; `EditDistanceIsLevenshtein` applies it to the reference that TLC
  counts with.

**Only model-checked.**
* Liveness (`WorkersCatchUp`, `RejectionIsNotified`, `PaidIsCredited`,
  `ActiveAdIsBumped`, `EventuallyRolledUp`): the proof system has no rule for it that
  reaches ENABLED.
* That `ArchivedAtOnlyInArchive`, `DeletedOwnerIsHidden`, `CreditedOnce` (of two slots)
  and `TotalIsOfAllTime` fail is shown by their runs.

## 7. What the model says against the code

Four runs are counterexamples to a sentence of the repository; `PROJECT.json`
("findings") quotes it.

* `PayTwice`: `reconcilePayment` asks whether the purchase is PENDING, then fetches
  the payment, and does not ask again in its transaction. A webhook and a
  `checkStatus` that overlap credit one payment twice.
* `ViewsTotal`: the counter of all views leaves out days that are past but not yet
  rolled up: from midnight to 2:00, and as long as the worker does not run.
* `AdStaleArchivedAt`: `republish`, `publish` and `saveDraft` take an ad out of the
  archive and keep `archivedAt`. If it is archived again by an edit that overtook
  them, the purge counts its 30 days from the old date.
* `AdDeletedOwner`: a request of the owner that began before his account was
  deleted, or a moderator, publishes an ad of the deleted account; the purge looks
  for ARCHIVED and does not find it.

The following is in the model as well, and is the reason why some properties are
checked of requests one by one. There is no run for these:

* `reject` overtaken by `publish` rejects an ad that is published.
* The purge deletes by id what its scan found: an ad its owner restores in between
  goes, with its files.
* An edit that overtakes `activate` writes ARCHIVED without a date: no purge finds
  the ad. (`ArchiveIsDated` is checked with one request.)
* A crash between a rejection and its notification: nobody is told, and `reject`
  refuses to be repeated. (`RejectionIsNotified` is checked without crashes.)
* `existingImages` may name a file that is gone or is another ad's: the row then
  lists it, and an edit that drops it later deletes the file for both.
* The row of a purchase goes with its ad, paid or not: a notification that comes
  after that is acknowledged and credits nothing.
* An account that registers with an address and a number, or asks for a change of
  address, is verified by the link although nobody has called from the number;
  one that a call or a provider has verified keeps `isVerified` for an address
  nobody has followed a link from.
* An administrator can publish, and reject, an ad of a deleted account, which
  leaves it a notification.
* Two payments for one ad reconciled at once: the days of one are lost.
* A crash between a checkout's row and its payment leaves a PENDING row for ever.
* A message or a dialog that passed `isBlocked` before the block shows the dialog
  again; an unblock, or a crash, between the two steps of a block leaves dialogs
  hidden without one, or a block without hiding.
* Two participants who delete their accounts at once leave their dialog.
* An answer that reads sums before and rows after a group is rolled up counts the
  group's past day not at all; the other way round twice.
* Two switches of the primary number at once leave two; a confirmation that
  commits while the account is deleted leaves it the number.
* A login code requested twice at once leaves two codes; a handler overtaken by
  account deletion writes into the anonymised account.
* A profile update that overlaps the check of the business leaves a verified name
  over another type of seller; `deleteAccount` keeps the business name of the
  anonymised row.
* An avatar uploaded while its account is deleted stays in the bucket.
* A slow `connect` or `callback` saves the session it had loaded, and undoes a
  sign-in or a sign-out that came in between.
* A rejection or a new favorite that overlaps the deletion of the account leaves a
  row of the deleted account.
* Two runs of `precompute-category-embeddings` at one category leave it the terms of
  two descriptions; a run with `--force` repairs it.
* A new category that takes the path of one whose new name comes later in the walk
  adopts its row; a rename to a path that is still taken meets the unique index at
  every run of the seed.
* `precompute-category-embeddings` that dies between two chunks leaves some of a
  category's terms, and a run without `--force` takes them for all; the seed writes
  the descriptions of its data, or none, over those that GigaChat has given.
* `backfill-category-path` leaves `seoPath` as it was.
* Two messages of one millisecond at the border of a page: the cursor is the time
  alone, and the second is not shown.
* What leaves a list between two pages makes a reader miss one. So does what falls in
  it: the auto bump takes its `now` when it starts and writes it by id when it has
  looked (`ad-auto-bump.worker.ts:39`, `:63`), so that an ad bumped for money in between
  goes back to the older time, and the one it had passed comes before the page.
* Only `create` checks the unit of a price against the category; `update` and
  `publishDraft`, which may bring another category, do not.

## 8. Not modelled

* The generated Prisma client (`prisma/generated`, three quarters of the repository's
  lines) is the database access itself, modelled where it is called; the trees,
  cities and dictionaries of `prisma/data` are data; DTOs, modules and decorators
  wire and validate.
* Queries that change nothing and read one snapshot: the catalogue's filters (tree
  of categories, price, region, features), `findOne`, seller pages, suggestions and
  cities, the tree of categories, the counter of unread notifications. What the
  catalogue shows is the predicate `Visible`; how its pages behave while it changes
  is `PagedLists`.
* How far back statistics can be leafed through (`computeMaxWeekOffset`), the viewer
  key, the price of a service.
* `confirmPhoneChange` and `sendPhoneChangeCode` of `AuthService` and zvonok's
  `sendVerificationCall` have no caller in the server; the response cache is not
  wired into any controller.
* `ensureAdminRole` and `seedCities` write the same values whenever they run.
* The embedding model is loaded before the server listens and then only computes;
  of its vectors a score is left, any of two values.
* Mail templates, captcha, image processing, S3 URL formats, cookies and times to
  live of sessions, the providers' mapping of profiles, migrations, deployment: I/O,
  library code or configuration.

## 9. Plan

The order follows what would hurt most: ads (the product), money, dialogs,
accounts, then categories and lists. Done: everything in section 3, its runs, and
the proofs of section 6, which state every invariant and every action property of
the passing runs. Their liveness properties are model-checked.

What is left, in this order:

1. *Statistics.* The week offset as a function of the calendar.
2. *Composition.* Account deletion as one transaction over ads, dialogs, numbers,
   tokens, marks and the profile at once; today each module has its part of it.
