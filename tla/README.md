# Nuxion in TLA+

Models, model-checking runs and machine-checked proofs for the parts of Nuxion
that decide who is signed in, who holds which role, what a cached or optimistic
view may show, and which log lines get lost. Nuxion is a NestJS API (`apps/api`)
on PostgreSQL (Drizzle) and Redis with two web clients, Nuxt (`apps/web`) and
Next (`apps/web-next`).

Almost everything hard about this code has one cause: a handler is a chain of
`await`s, Node (or the browser) runs other handlers at each of them, and nearly
none holds a lock or a transaction across two statements. So a request is a
process here, and **one awaited statement is one step**; a transaction is one
step too, except in `Roles`, where its locks are what matters. A property that a
reader takes for granted from the text of a handler then either survives the
interleaving, in which case it is checked and usually proved, or holds only
until a named case arises, in which case both facts are recorded.

## 1. Inventory

### Components, their state and their operations

| component | state | operations | hard behaviour |
|---|---|---|---|
| sessions and passwords (`modules/auth/auth.service.ts`) | tables `users`, `refresh_tokens` (with `familyId`, `revokedAt`, `expiresAt`), `password_reset_tokens` | register, login, refresh (rotation), logout, forgot and reset password; change password and removal from the users module | a rotation is SELECT, UPDATE, SELECT, INSERT without a transaction; replay and logout delete a family beside it; a reset deletes an account's rows beside an INSERT in flight |
| second factor (`two-factor.service.ts`) | columns `twoFactorEnabled`, `twoFactorSecret`, `recoveryCodes`; Redis keys of the pending setup and of login challenges | begin setup, activate, issue and verify a challenge, regenerate codes | read-modify-write of a list of codes and of a counter kept in a Redis value; TTLs run out between statements; a failure after a write leaves codes nobody saw, or a code spent for nothing |
| passkeys (`webauthn.service.ts`) | table `passkeys`, challenges in Redis | register, list, remove, sign in | a challenge is read, verified and deleted in three awaits; the signature counter is written from a verification against an older read |
| user accounts (`modules/users`) | `users`, `user_roles`; cached pages under `users:list:<gen>:<query>`, counter `users:gen` | list, create, update, remove, profile, password | a page read before a write is stored after it; Redis may fail or come back empty; some writers do not bump the counter |
| roles (`modules/roles`, `db/user-roles.ts`) | `roles`, `user_roles` | create, rename, remove; the transactions that replace the roles of a user | check-then-act on names; a role that disappears while it is being given; row locks taken in different orders |
| log stream (`infrastructure/logging/mattermost.transport.ts`) | an array, a counter of lost records, a `draining` flag, one post in flight | write, drain | bounded queue filled while a post is awaited; a retry; a notice about losses goes through the same queue |
| notifications (`modules/notifications`, the bells of both clients) | rows; per client a list, an unread count and a panel | list, mark read, mark all read | a list is two statements; patches of the shown list race the answers to fetches; a patch made before the answer is never taken back |
| web sessions (`useApi.ts`, `stores/auth.ts`, `middleware`; `use-api.ts`, `auth-api.ts`, `components/auth`) | access token in memory per tab, refresh token in a cookie all tabs share, the guard of the page | call, 401, refresh, replay; login, logout, reload, navigation | parallel 401s; a rotation whose answer is lost; a refresh that fails signs out; two guards that bounce to each other |
| users screen (both clients; `useApiMutation`, `usePaginatedQuery`) | filter, page, cached pages, form, dialog, saves and removals under way | page, filter, retry, create, edit, remove | every cached page is out of date after a write, also those on their way; a save waits for a refetch that may fail or be cut off |
| settings and branding (`modules/settings`) | one row; Redis key `settings:branding` | get, update | a late store after the DEL |
| storage (`infrastructure/storage`) | objects; cached signed URLs; a memoised bucket creation | upload, delete, sign | TTL of the cache against the URL's; a memoised failure |
| backup and restore (`infrastructure/backup`) | dumps, a database | list, fetch, restore | drop and apply are two processes |
| Redis wrapper, mail, guards, validation, configuration, schema and seed, other screens, tooling | none that outlives a call | | |

The controllers turn one HTTP request into one handler. The auth, users and roles
modules share the tables of users and the list cache
(`UsersService.invalidateList`); login calls the second factor or a passkey,
whose success calls back into `AuthService.issueSession`. Log records come from
pino and leave through the webhook. The clients see the API through a cookie and
JSON only: a refresh of a web session is a rotation of `AuthSessions`, the list
of the users screen is a read of `UserListCache`, its saves are the transactions
of `Roles`.

### What makes each component correct

* Sessions: a refresh token rotates once and is then spent for good; presenting
  it again ends its family and nobody else's; after a password reset no older
  session is left; tokens do not outlive their account.
* Second factor: a recovery code and a challenge are good for one sign-in, wrong
  answers are bounded, and what is spent or expired never comes back.
* List cache: a list request never shows less than a write answered before it,
  and no failure of Redis leaves a stale page for good.
* Roles: names are unique, the seeded roles keep their names and stay; a user
  holds what one writer named; nobody waits for ever.
* Log stream: the queue stays within its bound, records arrive in order, none
  vanishes uncounted, the worker never sleeps on a non-empty queue, and it stops.
* Notifications: the badge agrees with the rows, a mark that was answered is not
  undone by an older answer, and what shows as read is read.
* Web sessions: an expired access token is exchanged without the user noticing,
  nobody is signed out for it, every call and every guard comes to an end.
* Users screen: what is shown follows the writes the administrator was told of,
  the page number stays inside the list, a save ends.
* Passkeys: an assertion signs in once, a signature counter does not go back, a
  passkey that was removed stays out.
* Branding, storage, restore: see section 6.

`PROJECT.json` lists every hazard at its line, with the properties that would
catch it, or with the reason why none does.

## 2. Modules

| module | models | with it |
|---|---|---|
| `AuthSessions` | sessions and passwords | `AuthSessionsProofs`, `MCAuthSessions` (symmetry; whether requests have overlapped, and the invariant of what holds until then) |
| `TwoFactor` | second factor of one account | `TwoFactorProofs`, `MCTwoFactor` (symmetry) |
| `Passkeys` | passkeys of one account: registration, sign-in, removal | `RedisProofs`, `MCPasskeys` (symmetry) |
| `RoleCatalog` | abstract: what the services of roles and users owe their callers | |
| `Roles` | the role catalog and who holds which role | `RolesProofs` (with the refinement of `RoleCatalog`), `MCRoles` |
| `ReadAfterWrite` | abstract: what a cache owes its readers | |
| `UserListCache` | cached user list | `RedisProofs` (with the refinement of `ReadAfterWrite`), `MCUserListCache` (symmetry) |
| `WebSession` | access token, cookie and guards of browser tabs, both clients | `WebSessionProofs`, `MCWebSession` (symmetry) |
| `UsersScreen` | the users table, its query cache and its writes, both clients | `UsersScreenProofs`, `MCUsersScreen` |
| `Notifications` | table and bell, both clients | `NotificationsProofs`, `MCNotifications` |
| `MattermostStream` | log stream | `MattermostStreamProofs` |

Each component module has its state, `Init`, the actions in the order of the
source and the properties. Operators whose comment begins with *Mutant* are
plausible bugs, used by no action: they show that a property can fail. Variables
called *history* are read by no guard; they say what a property needs to know of
the past. `map` in `PROJECT.json` names the lines each definition stands for.

### AuthSessions

The tables are sets of rows (`users`, `refreshTokens`, `resetTokens`) with their
columns as functions or subsets (`owner`, `familyId`, `revokedAt`, `expired`,
`usedAt`). A token stands for its hash; a fresh one is never repeated
(`randomBytes(32)`), nor is an account id. A password is a version number per
account; having verified a password means having read its version. `req[r]`
holds the statement a request awaits next and the local variables it has read:

| handler | steps |
|---|---|
| `login` | `LoginSelect` reads the password and `twoFactorEnabled`, then `LoginIssue` ("open") or `LoginChallenge` ("park") |
| `verifyTwoFactor` | `CodeAccepted`, `ChallengeConsumed`, `IssueSession` |
| passkey login | `PasskeyVerified`, `IssueSession` (or as login, without user verification) |
| `register` | `Register`, `IssueSession` |
| `refresh` | `RefreshSelect`, then `FamilyWipe`, `RefreshDrop`, or `RefreshRevoke`, `RefreshReload`, `RefreshIssue` |
| `logout` | `LogoutSelect`, `FamilyWipe` |
| `forgotPassword` | `ForgotSelect`, `ForgotDelete`, `ForgotInsert` |
| `resetPassword` | `ResetSelect`, `ResetCommit` (one transaction) |
| `changePassword` | `ChangeSelect`, `ChangeCommit` |
| `UsersService.create`, `update` with a password, `remove` | `AdminCreate`, `AdminSetPassword`, `AdminRemove` (with the cascades) |
| `TwoFactorService.activate` | `Activated`, of which this module needs the column `twoFactorEnabled` only |

`Abort` ends a request at any statement: a failed query, a foreign key, a 4xx
after a read, or the death of the process. What was committed stays. `Clock`
lets TTLs pass at any time. `openedUnder`, `lastReset`, `closed` and
`quietReset` are history. `MCAuthSessions` adds `overlapped`: have two requests
ever been under way together.

### TwoFactor

One account (accounts share nothing here). Each handler is the sequence of its
awaits:

| handler | steps |
|---|---|
| `beginSetup` | `SetupSelect`, `SetupStore` |
| `activate` | `ActivateGet`, `ActivateUpdate`, `ActivateDel`, `Reply` |
| `issueLoginChallenge` | `Issue` |
| `verifyLoginChallenge` | `VerifyGet`, `VerifySelect`, then `Spend` for a recovery code, `Consume`, `SignIn`; or `Fail`; or `Drop` when the account is gone |
| `regenerateRecoveryCodes` | `RegenerateSelect`, `RegenerateUpdate`, `Reply` |

`Spend` writes back the whole list it read, less the code, as the source does. `Fail`
writes a challenge back with the count it read, or deletes it at
`MAX_CHALLENGE_ATTEMPTS`, and does nothing once `expiresAt` has passed. `Fails` ends a
request at any await: a query or a Redis command is rejected, or the process dies.
What was written before stays, so codes may be stored and never shown, a code spent
and nobody signed in, a setup left behind, a wrong answer not counted. A statement
that was carried out and whose answer was lost is that statement and then `Fails`;
where the statement is the handler's last, the handler has then done all it does.
`SetupExpires` and `ChallengeExpires` let TTLs pass at any time. A TOTP code is
represented by its secret and a recovery code by its minting and its place on the list.

The history speaks of one challenge, one list, one setup, not of overlaps at large:

* `signIns`, `failures` and `lapsed` count, per challenge, what it let in, what it
  rejected, and the rejections whose SET or DEL failed;
* `behind` holds the requests whose challenge another request has answered since they
  read it, `raced` the challenges that such a request then answered;
* `stale` holds the requests with a list that another request has written since they
  read it, and `torn` says that such a list was written, until codes are minted again;
* `stray` says that another setup was under way when the second factor was enabled;
* `shown`, `spent`, `retired` and `closed` are what the user has seen, what was used, and
  the codes and challenges that ended while no other request held them.

`AuthSessions` contains this component's outcome only (`CodeAccepted`,
`ChallengeConsumed`, `ChallengeDropped`), which allows every sign-in `TwoFactor`
allows.

### Passkeys

One account. `RegOptions`, `RegPark` give out the challenge of a registration;
`RegGet`, `RegForget`, `RegInsert` are the statements of `verifyRegistration`,
`LoginOptions` gives out the challenge of a sign-in, and `VerifyGet`,
`VerifySelect`, `Consume`, `Count`, `ReadAccount` are those of `verifyLogin`;
`RemoveSelect`, `RemoveDelete` are `removePasskey`, `RemoveAccount` the cascade.
The library is modelled as the code calls it: it throws, and nothing is deleted,
unless the challenge matches and the counter of the assertion is above the one of
the row it was given (or both are 0, as for passkeys that are synced between
devices, `Synced`). `Create` and `Sign` are the user's authenticators: one that is
registered reports a counter, which its row then starts from, and counters grow. History: `opened` (assertions that signed in), `shared` and
`crossed` (challenges two requests held together, passkeys two requests verified, or
registered, together) and `retired` (passkeys removed while no request worked on them). The
session a sign-in opens is `PasskeyVerified` in `AuthSessions`.

### Roles and RoleCatalog

Ids of roles and of users are never given out twice (`used`, `known`). A role is
created with `CreateRole`, `InsertRole`, renamed with `RenameRole`, `CheckClash`,
`UpdateRole`, removed with `RemoveRole`, `LockRole`, `CascadeRole`. Creating or
updating a user is one transaction of several statements (`CreateUser` or
`FindUser`, `LockUser`; `DeleteRoles`, `SelectRoles`, `InsertRoles`, `Commit`), and
`DeleteUser` cascades. PostgreSQL is modelled as far as these statements meet it:
the unique index on names, the row lock of an UPDATE, the share lock of an INSERT
on the roles its foreign key names, a DELETE that waits for those, and the
detection of a circle of waiting statements (`Deadlock`), which fails one of them.
`Fails` is any failed statement or a dead process; the transaction is undone. The
history is `granted`, what the last committed write of a user named, and `renamed`.

`RoleCatalog` has the tables and no requests: `Create`, `Rename`, `Remove` (with its
holders), `Assign` (a user comes to be with the roles, or has them replaced),
`Dismiss` and `GiveUp` happen at one moment, on the tables as they are then. `Roles`
implements it with `gone` mapped to the users whose id was given out, whose row is
not there and whose creation is not under way. Which roles an `Assign` brings is left
open there, as a role may be renamed between the SELECT and the COMMIT;
`HoldersAreAsked` says that it is never a mixture of two requests.

### UserListCache and ReadAfterWrite

The database is a version number, a page the version its first SELECT saw. A
reader takes `ReadGen`, then `Hit`, or `Miss`, `Paginate`, `Store`; a writer
takes `Commit`, `Bump`. `SilentWriter` are handlers that write listed columns
and never bump (`changePassword`, `resetPassword`, `activate`). With `Faults`,
any Redis command may fail (the code swallows the error) and Redis may come back
empty (`LoseRedis`). `Crash` is the process dying between commit and bump.

`ReadAfterWrite` knows no generations and no cache: a read answers any version
between the last one acknowledged when it began and the present one.
`UserListCache` implements it with `reading` mapped to the readers that are not
idle and every other variable mapped to itself.

### WebSession

One cookie, several tabs; `NextTab` run the Next client, the others the Nuxt one.
A request to `/auth/refresh` is a *flight*; on the server it takes the steps of
`AuthService.refresh` that matter to another flight with the same cookie
(`Select`, then `Revoke`, `Issue`, or `Wipe`), and it comes back as `Granted`,
`Denied` or not at all (`Lost`). `FlightFor` is the difference between the
clients: everything in a Next tab that wants a refresh waits for the one promise
of `ensureSession`, every Nuxt call sends a flight of its own. `Send`,
`Unauthorized` are a call and its 401; `Granted` replays the calls that wait.
`Visit`, `Mount`, `Reload` and `Verdict` are the guards of the Next pages and the
plugin and middleware of the Nuxt ones. Reload leaves a flight behind which the
server still works on (slot `Left`). A token whose row nobody can present any more
is forgotten and its name reused, so the runs are not bounded in the number of
rotations. The history `trouble` says whether, since the last login, a second
refresh came beside a first one in the same page (`parallel`), or anything else
went wrong (`mishap`): a lost answer, another tab, a reload in mid-flight, the end
of the session on the server.

### UsersScreen

The table of the API is `role`, one value per user, with a counter of writes
`version`; what a list request reads is the set of rows of its page, the number of
pages and the version it saw. The query cache has one entry per filter and page
(`data`, `fresh`, `failed`, `fetch`). `Turn`, `Refine` and `Retry` move the screen;
`Read`, `Arrive` and `Fail` are a list request; `Submit`, `AskRemove`, `Confirm`
start a write; `Serve` runs it, `Acked` is `useApiMutation.onSuccess`: it
invalidates everything, refetches what is shown and waits for that. A Nuxt save
refetches once more. TanStack Query is not in `src/`; its invalidation, its
previous-page placeholder and its restart of a fetch that has data are modelled as
the code relies on them. History: `acked` (the last write answered), `outrun` (a
page overtaken by such an answer), `astray` (the list shrank, or the pager of one
list led into another).

### Notifications

One user's table `row` and one bell, of either client (`nuxt`). `SelectRows`,
`SelectCount`, `Arrive` are a list request: two statements and the answer.
`Click` sends a mark of one notification or of all; `SelectNote`, `UpdateNote` or
`UpdateAll` serve it, `Answer` or `Lose` end it. The Nuxt bell fetches when the
panel opens until a fetch has succeeded and patches its list on the answer; the
Next bell fetches when it is mounted and patches at the click. History: `late`,
`lost`, `done`, `crossed`, and in a list `torn` (its two statements saw different
tables), `twice` (a row shown as read was clicked) and `beyond` (unread rows past
the limit of 50).

### MattermostStream

JavaScript runs to completion between awaits, so a write with the start of a
drain, and the end of a post with the start of the next, are one step each:
`Write`, `PostOk`, `PostFails` (a retry follows), `RetryFails` (given up). A
failed post may or may not have reached the channel. A record is its number, a
notice carries the count it reports.

## 3. Runs

Each run ends within five minutes on two workers. `CHECK_DEADLOCK FALSE` throughout:
inputs (tokens, writes, mintings, clicks) are bounded, and a system that has used
them up stops; in reality it also rests when nobody calls it.

| run | instance | shows |
|---|---|---|
| `auth_sessions` | 1 account, 2 tokens, 1 reset token, 2 requests, 1 password write | the inductive invariant, and what rotation, wipe and reset guarantee *under interleaving*; until requests overlap a family has one usable token |
| `two_factor` | 1 challenge, 2 requests, 2 secrets, 2 attempts, 2 mintings of 2 codes, 1 uncounted answer | what is retired, closed or expired never returns; whatever fails, a challenge's answers are bounded, the codes on the list are those shown and an enabled secret stays, until an overtaken request writes |
| `passkeys` | 2 passkeys (1 synced), 1 sign-in challenge, 1 registration challenge, 3 requests, counters up to 2 | a removed passkey stays out; no assertion signs in twice and no counter goes back, but for the overlaps that are named |
| `roles` | 3 roles (1 seeded), 3 names, 1 user, 2 requests | refinement of `RoleCatalog`: the seeded roles stay, who was removed does not come back; a user holds what one writer named, every request ends |
| `list_cache` | 2 readers, 2 writers, 3 writes, no faults | refinement of `ReadAfterWrite`, which includes fresh reads |
| `list_cache_faults` | 2 readers, 2 writers (one silent), faults, 2 writes | liveness: no stale page stays for good |
| `web_next` | 1 Next tab with 2 calls at once, 1 mishap or navigation | refresh is transparent, nobody is signed out by it, calls and guards settle |
| `web_tabs` | a Next tab and a Nuxt tab, 1 call each | what both clients guarantee of a silent refresh |
| `web_parallel_refresh` | 1 Nuxt tab with 2 calls at once | violation, see findings |
| `users_screen` | up to 2 users, 1 at first, 2 roles (1 to filter by), page size 1, 2 pages, 2 writes, 1 lost request, 2 moves | what is shown follows the writes, no empty page, every save and removal ends |
| `notifications` | up to 3 notifications, 2 at first, lists of 2 rows, 2 fetches, 2 marks, 3 clicks, 1 loss, 1 mark elsewhere | the badge fits the rows, marks are not undone, what shows as read becomes read |
| `log_stream` | queue of 2, 5 records | every property of the stream, and that it comes to rest |

**Why the bounds are enough to be interesting.** Two requests are what every race of
the API needs: each is a pair of statements of one handler around a statement of
another. Two tokens are a session and its successor; the longer chain of three tokens
was checked apart with one request and two password writes (2.6 million states, over
a minute), with the same result. One account suffices where nothing but a token's
family and owner ties accounts together; the claims of `IInv` across accounts are
what the proof adds, for any number of them. One reset with two passwords tells old
from new. One challenge and counters up to 2 let one passkey sign two assertions for
it, and let two requests verify them in either order; the synced passkey has no counter
to stop it; the third request removes the passkey meanwhile, or registers it again.
Two attempts tell an answer that is counted from the one that uses the challenge up.
Two codes per minting tell "the list without this code" from "no list". In `roles`, two free names and two custom roles let two requests want the same name,
and a role be removed and another one created while it is being given; the deadlock
needs one user, one role and two requests. In `list_cache` three writes let one land
before, during and after a read; a fourth generation cannot be told from the third by
a reader that holds one. Four tokens and three families let a login, a rotation and
an abandoned flight each hold one, and their names are reused. A page size of one
makes two users two pages, so one removal empties a page and one filter shortens the
list. Three notifications with two rows to a list leave one past the limit. Five
records with a queue of two fill the queue, evict a record, fail a post twice, raise
a notice and evict the notice. Bounds are named in the modules by the word *bound* at
their constant (`MaxPassword`, `MaxWrites`, `MaxGen`, `MaxMints`, `MaxLapses`, `MaxMoves`,
`MaxFaults`, `MaxOthers`, `MaxPage`, `MaxCount`); `MaxAttempts`, `Place`,
`MaxQueue`, `PageSize` and `Limit` are parameters of the code with small values.

**Symmetry** permutes tokens, requests, challenges, secrets, places on a list, readers and
interchangeable writers, which no property names. Runs with a liveness property
use none.

**Fairness.** Nothing is assumed of users, of arrivals or of failures; what is
assumed is that something already sent or begun goes on.

* `UserListCache!FairSpec`: a reader that has begun takes its next step (its awaits
  resolve or reject), and Redis expires what it holds (every page is stored with a
  30-second TTL).
* `MattermostStream!FairSpec`: a post ends, because `AbortSignal.timeout` ends it if
  the webhook does not. It may fail every time.
* `Roles!FairSpec`: the statement of a request is executed (strong fairness: a lock
  that comes free again and again is got, since PostgreSQL queues those who wait),
  and a circle of waiting statements is found.
* `WebSession!FairSpec`: a flight is worked on and answered, a call that meets a 401
  reacts to it, a mounted guard runs its effect.
* `UsersScreen!FairSpec`: the API answers list requests and writes.
* `Notifications!FairSpec`: the API works off the marks it is sent.

## 4. Findings: where the code does not keep a documented promise

`web_parallel_refresh` is a run that ends in a violation. Every Nuxt call that
meets a 401 sends a refresh of its own (`useApi.ts:48`). Two calls of one page
therefore present one refresh token twice; the API takes the second for a replay
and wipes the family, and the page loses its session, where the comment promises
"a transparent 401 → refresh → retry" that refreshes "once". The Next client
shares the refresh, and there the property is proved.

Further promises fail when requests overlap. Those of `AuthSessions`, all but two,
hold until requests do; those of `TwoFactor` hold until an overtaken request writes
(section 5). TLC finds each in seconds:

* with these definitions in `AuthSessions.cfg`, three tokens and `MaxPassword = 2`:
  `OneLiveTokenPerFamily` (the UPDATE of a rotation does not look at `revokedAt`: two
  refreshes of one token both rotate it), `WipedFamilyStaysEmpty` (a rotation in
  flight refills a family after a logout), `ResetEndsSessions` (a refresh or login in
  flight across a reset opens a session under the old password),
  `ResetTokenSingleUse`, `ChangeVerifiesCurrent`, `RotatesOnce`; with two reset
  tokens `OneActiveResetToken`;
* in `TwoFactor`, for the cases that its properties except. Two wrong answers that
  read one count are counted once, and two right ones sign in twice for one challenge
  (`AttemptsBounded` without `raced`). A list read before another request wrote brings
  back the code that request took off, or all the codes it replaced
  (`ShownCodesWork` without `torn`). With two setups under way, the later activation
  replaces the secret that the first has enabled (`EnabledSecretKept` without `stray`);
* in `TwoFactor`, by a failure and without any overlap: a wrong answer whose SET or DEL
  fails costs no attempt (`lapsed`, which `AttemptsBounded` adds to the limit); when
  `activate` or `regenerateRecoveryCodes` fails after its UPDATE, the codes the user has
  are void and nobody has seen the ones that work; when `verifyLoginChallenge` fails
  after its UPDATE, a recovery code is used up, the challenge is still there and nobody
  is signed in. `ShownCodesWork` says that this is all a failure does to the list: the
  codes of the last answer work, less those taken off, or none of them does;
* in `Passkeys`, for the cases that `ReplaysRefused` and `CountersAdvance` except:
  requests that share a challenge sign in twice with one assertion of a synced
  passkey, and of two verifications that cross, the later UPDATE may set a counter
  back. The third case came up in the proof: two registrations that hold one challenge
  can insert a passkey, have it removed by a third request, and insert it again with
  the counter it had when it was made, below what has signed in. It takes three
  requests;
* with a `SilentWriter` in `UserListCache.cfg`: `ReadsSeeFinishedWrites`. A password
  change, a reset and an activation change columns that a cached list shows
  (`updatedAt`, `twoFactorEnabled`) without bumping the counter.

Comments and tests that the models disagree with in the small:

* `admin-guard.tsx:31` says that a logout in mid-session re-runs the guard's
  decision; its effect depends on the router only (`GoTo` in `WebSession`).
* `use-notifications.test.tsx:87` says that clicking an already read item is "a no-op
  for the count"; `use-notifications.ts:44-45` subtracts one (`twice`).
* `notification-panel.tsx:43` says that the fetch runs once the panel opens; the query
  is enabled when the bell is mounted (`Remount`).
* `roles.service.ts:59-62` answers 200 with undefined fields if the role was removed
  after the check; no row changes (`UpdateRole`).
* In the stream, a notice that is evicted or given up takes its count along and
  counts as one more loss: `LossesAccounted` is what does hold.

The concurrent runs state what is guaranteed all the same, and these are the
properties that are proved: past its UPDATE a rotation's token is never usable
(`RotatedTokenIsSpent`, part of `IInv`), a spent token stays spent
(`SpentStaysSpent`), a wipe or a reset is final if no request of that family or
account was in flight (`QuietWipeIsFinal`, `QuietResetIsFinal`), and likewise for
codes and challenges (`RetiredCodesStayRetired`, `ClosedChallengesStayClosed`).
In the clients, exceptions are made by name: `trouble`, `outrun`, `astray`,
`crossed`, `torn`, `twice`, `late`, `lost` are the cases in which the screen may be
wrong, and the theorems say that there are no others. So they are in `TwoFactor`
(`raced`, `torn`, `stray`, `lapsed`) and in `Passkeys` (`shared`, `crossed`). A property
with such an exception does not catch the race it names; it says what survives it.

## 5. Proofs

All theorems hold for every value of the constants, from the named assumptions on
the constants alone. Every invariance proof is `Init => IInv`,
`IInv /\ [Next]_vars => IInv'` with one step per action, and a temporal step.

**AuthSessions** (`Invariance`, `TypeCorrect`, `RotatedTokenSpent`, `NoOrphans`,
`FamilyOwner`, `QuietWipeFinal`, `QuietResetFinal`, `SpentForGood`).
`IInv` adds four things to the properties. `ColumnsOK`: the columns of any token
ever minted are set, and a family belongs to the owner of its first token; this
is what makes a rotation, which copies a family and takes the account from the
row it read, keep families apart. `RequestsOK`: a request works for the owner of
its token. `ClosedOK`: no rotation in flight belongs to a closed family, so none
can refill it. `QuietOK`: whatever is on its way to a session of a quietly reset
account (a challenge parked, a login past its comparison, a rotation past its
SELECT) has seen the new password. `SpentForGood` is a box-action theorem: no step
clears `revokedAt` or re-inserts a row, because an INSERT takes a fresh token.

What holds until two requests overlap is proved of `MCAuthSessions`
(`AloneInvariance`, `OneLiveToken`, `OneResetToken`, `PromisesKept`): `Solo` (at most
one request is under way), `RotationOK` (a rotation past its UPDATE leaves no usable
token in its family, so the one it inserts is alone) and `RowsAsRead` (what the request
has read is as it was, unless the account is gone). Two promises of section 4 are not
among them, because they fail without any overlap: a challenge parked before a reset
opens a session after it (`ResetEndsSessions`), and a password set by an administrator,
in one step, between the two statements of a change is overwritten
(`ChangeVerifiesCurrent`).

**TwoFactor** (`Invariance`, `Retirement`, `Closure`, `Expiry`, `OneMint`,
`AttemptsBoundedAlways`, `ShownCodesWorkAlways`, `EnabledSecretKeptAlways`), all of
`Spec`, with every interleaving and with failures at every await.
`CodesMinted` bounds every code by the mintings so far, so a new list is disjoint
from all retired codes; `RequestsOK` says which code and list a request at `Spend`
holds, that the code is not on the list, and which challenge each step works on.
`ChallengesOK` carries the count: for a challenge that is not raced, the count in Redis,
and on every copy that is not behind, is the number of answers rejected and counted
(`attempts + lapsed = failures`), and no copy but those behind is left once it has
signed somebody in (`Open`). A request that fails leaves the count and the copies of
others as they were, which is why a failure costs the bound no more than its own
lapse. `ListOK`: until torn, the list is the last minting less what was spent, and every
list held that is not stale is that list less one code. `SetupOK`: once enabled, a setup
left behind by a request that failed carries the secret in force.

**Passkeys** (`PasskeysInvariance`, `ReplaysAreRefused`, `CountersGoUp`, in
`RedisProofs`). `RegistrationsOK`: the challenge of a registration is gone before its
row is written, so a passkey is inserted once unless two requests registered it
together; without it, `RetiredStayOut` is not inductive. `ChallengesOK`: whoever holds
a challenge that has signed somebody in, or that another request holds, holds a shared
one. `CountersOK`: a row's counter is below what is being verified against it and at
or above what has signed in with it.

**Roles** (`RolesInvariance`, `BuiltInsProtected`, `OneWriterPrevails`,
`AtOneMoment`).
Protection of the seeded roles is a check made statements before the write, so the
invariant has to carry it across: `NamesOK` (the unique index, and that ids are
never reused) and `ChangesOK` (who has passed the check works on a custom role, and
a custom role never becomes a seeded one because no name is free that a seeded role
has). `OneWriterPrevails` rests on `WritersOK` (the row lock: one transaction at a
time writes a user, and what its DELETE found is all the user had) and `GrantsOK`
(what is about to be committed is still in the catalog: the foreign key's lock).
`AtOneMoment` is `Spec => RoleCatalog's Spec`: `Commit` maps to `Assign`, because
`WritersOK` makes what was deleted all there was and `GrantsOK` keeps what is inserted
in the catalog; `UpdateRole` to `Rename` of a custom role (`ChangesOK`), or to a stutter
where the row is gone or the name taken; `CascadeRole` to `Remove`, `DeleteUser` to
`Dismiss` or, the second time, to a stutter; the failure of a creation to `GiveUp`; every
other statement, lock, failure and broken circle to a stutter.

**UserListCache** (`Invariance`, `FreshReads`, `Implementation`, in `RedisProofs`), assuming
`Faults = FALSE` and `SilentWriter = {}`; with either, the properties are false.
A late store is harmless for two reasons that `CacheInv` keeps apart.
`CurrentGenerationFresh`: what the current generation holds, or a reader is about
to store there, has seen every acknowledged write (a writer bumps before it
answers). `ReadersServed`: what an older generation holds, or is about to, is new
enough for each reader that may still look there. `Implementation` is
`Spec => ReadAfterWrite's Spec`: `Hit` and `Store` map to `Answer`, `ReadGen` to
`BeginRead`, `Commit` to `Commit`, `Bump` to `Acknowledge` or a stutter, the rest
to stutters.

**WebSession** (`WebInvariance`, `CallsSucceed`, `SharingIsTransparent`,
`StaysSignedIn`). The heart of `WebInv` is `CalmOK`: on a calm session the cookie is
live, or exactly one flight is exchanging it and none is beside it; so no flight
can be denied. `SharedOK` says that a Next tab only flies the one flight its
callers share, hence `parallel` cannot arise where all tabs run Next. `FlightsOK` and
`PagesOK` keep flights to requests that carry a cookie and guards to the pages that
check. The three properties are action properties and follow from `WebInv` before
the step.

**UsersScreen** (`ScreenInvariance`, `FollowsWrites`, `NobodyStrays`). `PagesOK`: what was
read, or loaded and not invalidated, has seen every acknowledged write, unless an
answer overtook it; it is kept by `Acked` because that step invalidates every entry and
restarts the fetch of the shown one. `ShownOK`: the entry on the screen is fresh
when nothing is under way for it. `JobsOK`: a save or removal waits only for a
fetch that is under way, which is what its liveness rests on. `NobodyStrays` is about
page counts: `ListsOK` says that until a list shrinks, or a pager leads into another
list, no page that is shown, fetched or cached lies beyond the end of its list, and
none past the first is empty. It needs that a page of the table within the count has a row
(of more than n users, one has exactly n before it in the order of the list) and that
a write that shrinks no list lowers no page count.

**Notifications** (`NotesInvariance`, `OwnMarksStay`, `BadgeIsRight`). `FetchesOK`,
`MarksOK`, `ShownOK`: what a fetch carries as read is read in the table, a served
mark has done its work, and what shows as read is read, marked, lost or late.
`CrossingOK`: a fetch that was never under way with a mark cannot carry as unread
what that mark named. `BadgeIsRight` is arithmetic on cardinalities: each patch
takes as many off the count as off the unread rows.

**MattermostStream** (`Invariance`, `Bounded`, `Woken`, `Ordering`, `Conserved`,
`Accounting`).
`QueueInOrder` and `CurrentInOrder` say that the channel, the item in flight and
the queue read in that order are one sequence of increasing numbers, with the
item in flight as the only one that may already be in the channel. The bound
holds although the notice is pushed without looking at the limit, since the loop
shifts an item before anything else can run. `Accounting` relates the counter, the
counts of the notices under way and the records given up. The sum over the queue is a
function of the position (`Reports`), so that what an append and a shift do to it needs
no induction over the queue; `LossesOK` adds that a record given up is older than
all that wait, so it is counted once.

**Only model-checked**: `StaleOnlyForATime`, `Quiesces`, `RequestsSettle`,
`CallsSettle`, `GuardsSettle`, `JobsSettle`, `ReadInTheEnd`. They are liveness under
fairness, which is out of the prover's reach. Every invariant, action property and
refinement of the runs is also a theorem.

## 6. Not modelled, and why

Most of the repository's lines are presentation: pages, tables, forms, charts,
styles, texts, demo pages and the tooling that renames the project. They hold no
state but what a library keeps for them, and the share of lines modelled is small for
that reason. Of the rest:

* Of passkeys: signatures, names, transports and the list of credentials that an
  authenticator is asked to leave out are data; whether two challenges are equal is
  decided by the WebAuthn library.
* Settings and branding: a cache that is deleted on write, whose late stores are
  served for the 60 seconds of their TTL. No caller is promised more.
* Storage and files: object-store calls; a rejected bucket creation stays memoised
  (`s3.driver.ts:143`), so every later upload of the process fails with it. Backup
  and restore: one operator's command line.
* Passwords, hashes, JWTs and TOTP arithmetic are data; a TOTP code used twice
  within its window is not told apart from two codes. An access token carries the
  roles of its issue until it expires (`jwt.strategy.ts`), 15 minutes later.
* Guards, throttling, validation, filters and interceptors are functions of one
  request. The e-mail uniqueness check is advisory; the unique index, which
  decides, is in `Register`.
* The sorting and the columns of a list, search terms, and more filters than one:
  each is another key of a cache, and pages of two keys never meet. A Nuxt list
  request that waits offline reads the page and the filter when it resumes
  (`usePaginatedQuery.ts:17`), and could file one list under the key of another; the
  model reads them when the request begins.
* A second user of one browser tab; the times of notifications; the 403 and
  second-factor forms of the clients.
* Formatting of log messages; the throttled warning on stderr. Mail delivery,
  health checks, start-up, migrations.

## 7. What would come next

A refinement from `AuthSessions` to the rotation `WebSession` presumes would tie the
two by proof; today they agree by construction of the same four steps. `UsersScreen`
could presume `RoleCatalog`, whose `Assign` and `Dismiss` are its `Serve`, and
`ReadAfterWrite` for its list requests.
