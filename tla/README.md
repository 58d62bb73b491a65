# A specification of RusAuth.Authorization.Example

The repository is a Blazor Server application that shows how a client company
confirms a phone number through RusAuth: it asks RusAuth to start a confirmation
by phone call, shows the pending transaction, takes RusAuth's webhook, and lets
the user check the status by hand when the webhook does not come. It is small and
has no database, but everything in it that matters is concurrent: UI actions that
await RusAuth, webhook requests on other threads, one journal in memory that both
read and write without a lock, and pages that are redrawn from a webhook's thread.

The modules here describe that concurrency. Paths below are relative to
`src/RusAuth.Authorization.Example/`.

## 1. Inventory

| Component | State | Operations | Must be right |
|---|---|---|---|
| `Services/ExampleConfirmationStore.cs` (singleton) | `_flows`: row per transaction | `Start`, `MarkCallbackReceived`, `MarkManualStatus` (read, then write), `Get`, `GetAll` | a row shows only what RusAuth decided; what happens when whole rows overwrite each other |
| `Services/ExampleAuthFacade.cs` (per circuit) | none | `StartConfirmationAsync`, `CheckCurrentConfirmationAsync`, each with one await | the reply goes to the transaction and number the request was about; one check of a row at a time |
| `Services/ExampleAuthSession.cs` (per circuit) | current transaction, info and error message | `TrackTransaction`, `SetInfo`, `SetError`, `ClearMessages`, without a lock | the tracked row exists and is tracked in one tab only; not two messages at once |
| `Controllers/RusAuthCallbackController.cs` | none | `Confirmation`: mark, 404 or publish, 200 | an answered webhook is in the journal and on the screens |
| `Services/ExampleConfirmationNotifier.cs` (singleton) | the list of handlers | subscribe, unsubscribe, `PublishAsync` (snapshot, handlers awaited in turn, ends at one that throws) | pages that come and go during a publication neither miss it nor block it; no 200 for an update a page missed |
| `Components/Pages/Authorize` | form, `IsBusy`, `LocalError` | start, check, refresh, handler of updates | buttons come back; the page shows its error and the session's transaction as they are |
| `Components/Pages/Account` | none | refresh, handler of updates | the journal on the screen follows the journal and never goes back |
| `Infrastructure/CallbackBearerAuthorizationFilter.cs` | the token, bound once | `OnAuthorization` | accepts the token RusAuth was given |
| `Program.cs`, `Infrastructure/ConfigurationExtensions.cs` | configuration | checks at start, options, lifetimes | production serves only with stored and encrypted keys |
| `Components/Layout/ReconnectModal.razor.js` | one listener | `retry`, `resume`, Blazor's events | a page that lost its connection gets it back; one that works is not reloaded |
| RusAuth and its client (external) | transactions | issue, decide, answer, deliver webhooks, fail | - |
| `Components/Layout/MainLayout.razor` | none | drawn around each page | the session's messages are on the screen |
| health endpoints, static pages, tests, CI | none worth a model | | |

Interactions: a page calls the facade, which awaits the client and then calls the
store and the session of its circuit. The controller calls the store and then the
notifier, which calls back every subscribed page on the request's thread; the page
asks the dispatcher of its circuit to redraw. A circuit's dispatcher runs one piece
of page code at a time but is given up at every await; the store and the notifier
are shared by all circuits and requests.

What is hard: reads and writes of a row that are not atomic; answers older than
what the journal already says; webhooks that overtake the reply that creates their
row, come twice, or come while a page subscribes, unsubscribes or starts another
transaction; a handler that throws halfway through a publication; a client timeout
after RusAuth issued the transaction; a restart that empties everything; actions
that outlive their page; messages written field by field from two threads; buttons
that are disabled only in the browser. PROJECT.json lists each of these as a
hazard at its line with the properties that watch it.

## 2. Modules

| Module | Models | Extends |
|---|---|---|
| `ConfirmationStore` | the row and the three ways to build one | |
| `ConfirmationJournal` | *abstract*: what a reader of the journal may rely on | |
| `TabTransactions` | *abstract*: whose a transaction is | |
| `ConfirmationProtocol` | facade, store, session, webhook controller, RusAuth; timeouts, redelivery, restarts | `ConfirmationStore`, instances of `ConfirmationJournal` and `TabTransactions` |
| `ConfirmationInvariant` | its inductive invariants | `ConfirmationProtocol` |
| `ConfirmationProtocolProofs` | theorems about rows | `ConfirmationInvariant` |
| `ConfirmationOwnership` | theorems about the tabs that track and check them | `ConfirmationProtocolProofs` |
| `JournalScreens` | *abstract*: what an open journal page promises its reader | |
| `LivePages` | notifier, both pages, renderer, webhook publication, starts and manual checks | instances of `JournalScreens` and `TabTransactions` |
| `LivePagesInvariant`, `LivePagesProofs` | its inductive invariants, theorems | `LivePages` |
| `LivePagesRefinement` | the proofs that it implements `JournalScreens` and `TabTransactions`, and what its steps draw | `LivePagesProofs` |
| `PageActions` | `ExecuteAsync`, `IsBusy`, `LocalError` and the messages of the session, on both pages, against the webhook handlers | |
| `PageActionsProofs` | its invariant and theorems | `PageActions` |
| `MainLayout` | the layout around the pages of `PageActions` | `PageActions` |
| `MainLayoutProofs` | that the composition implements `PageActions`, and what it adds | `MainLayout`, `PageActionsProofs` |
| `Reconnect`, `ReconnectProofs` | `ReconnectModal.razor.js` | |
| `Hosting`, `HostingProofs` | startup checks, options, the bearer filter | |
| `MCConfirmationProtocol`, `MCLivePages` | symmetry sets for TLC | |

Three modules share the path of a webhook and of a call, each at the grain one
question needs. `ConfirmationProtocol` keeps whole rows, splits the store's
operations at the read and the write, and knows no pages. `LivePages` keeps of a
row its revision, the number of times it was written, so that every writer counts
and "older" has a meaning, and splits the publication into the call of each
handler and the redrawing it awaits; what a revision says, and that a whole row
may be written over a newer one, is left to `ConfirmationProtocol`. `PageActions`
keeps one circuit and splits the session's methods into single assignments.

### State and actions against the code

`ConfirmationProtocol`

- `flows` is `_flows`, `session` is `CurrentTransactionId` of each circuit's
  `ExampleAuthSession`, `form` is the number in the form (`Null` while it is not
  valid). `verdict` and `asked` are RusAuth's. `calls` and `hooks` hold the local
  variables of the UI calls and webhook requests under way (`pc`, the transaction,
  the reply, the row read). `acked`, `refused` and `raced` are history variables
  that no guard reads: the transactions with a webhook answered 200, those whose
  last webhook was answered 404 while the reply that creates the row was on its
  way, and those whose last webhook was written between the read and the write of
  a check.
- A start is `Submit`, `IssueTransaction` (RusAuth), `StoreStart`,
  `TrackTransaction`; a check is `CheckStatus`, `AnswerCheck` (RusAuth),
  `ReadForManualStatus`, `WriteManualStatus`; `CallFails` ends either while it
  awaits. A webhook is `CallbackLookup` (which also answers 404),
  `CallbackWrite`, `CallbackAnswer`, or `CallbackFails`: the publication throws,
  the answer is 500 and RusAuth may deliver it again.
- A circuit that closes (`CloseCircuit`) takes its form along.
- `TypeOK` says more than domains: a call or a request that has come as far as a
  step has what that step reads, a transaction, a reply, a row (`Complete`).
- The split points are where another thread can get in: after `store.Start`,
  between `TryGetValue` and the indexer, and at every await. `DispatcherFree`
  keeps two pieces of one circuit from overlapping.
- `Submit` and `CheckStatus` are not guarded by `IsBusy`, because the code does
  not test it: it disables the buttons once the browser has drawn them.
- RusAuth's answer to a check for a number it was not asked to confirm is
  `Failed`; the form is not validated on a check, so that happens.
- `Restart` keeps RusAuth's state and loses everything else.
- To `TabTransactions`, a row is stored when it is in `flows`, and taken unless a
  start is still between `store.Start` and `TrackTransaction` (`BeingTracked`);
  what a tab follows is `session`. `LivePages` maps to it in the same way.

`LivePages`

- `row[t]` is the revision of a row, `shown[p][t]` the revision page `p` drew last,
  `answered[t]` (history) the newest one whose webhook was answered 200.
- `subscribers` is the event's invocation list, `hooks[h].todo` the snapshot
  `PublishAsync` works through, `hooks[h].drawing` the page whose
  `InvokeAsync(StateHasChanged)` it awaits. `HandlerThrows` ends a publication at
  any handler: what is left of the list is not called and the answer is 500.
- A start is `Submit`, `StoreStart`, `TrackTransaction`, `EndCall`; a check is
  `CheckStatus`, `MarkManualStatus`, `EndCall`; `CallFails` ends either. At the end
  the page that started the call is drawn and no other, and a check publishes
  nothing.
- A page that is left stays subscribed until `DisposePage`; the renderer ignores a
  page that is gone. A component that is prerendered is a page in a circuit of its
  own.
- `Authorize.razor` reads `CurrentFlow` once per field, so that a drawing can be
  torn between two revisions. It is one step here, and `shown` is the oldest
  revision the drawing read: whoever wrote the newer one has this page's handler
  still to call, or is a call whose own page is drawn when it ends.

`PageActions`

- Each place in `CallPc` and `HookPc` is named for the assignment that comes next.
  `disabled` is the browser's button, `drawn` what the server drew last of the
  page, `busy` is `IsBusy`; `Deliver` is the render batch reaching the browser, and
  `Press` looks only at `disabled`.
- `Navigate` makes a new instance of the other page. Presses and handlers of the
  old one (`oldCalls`, `oldHooks`) run on: what they do to the session counts, what
  they do to their own fields is nobody's (`Mine`, `HookMine`).
- `told` (history) says whether the last thing that happened to the messages was
  `ClearMessages`, a message, or a message written while a method that writes the
  other one was half done.

`MainLayout` adds `layout`, the session as the layout drew it last, and `begun`, a
drawing under way: the layout reads `InfoMessage` and then `ErrorMessage`
(`DrawingBegins`, `DrawingEnds`), other threads write them in between
(`OthersRun`), and the dispatcher does nothing else until it is done
(`DispatcherRuns`). So a drawing may show both messages, or neither. `Routes` is
interactive as a whole, so the layout lives in the circuit and injects the same
session as the pages; the router draws it, around a new page or, for a link to the
page that is shown, around the same one.

`Reconnect`: `listening` is the `visibilitychange` listener, `attempts` the calls
of `retry` and `resume` under way; `overtaken` (history) has those of them during
which Blazor or another attempt brought the connection back. What follows an awaited answer up to the next
await is one step, as JavaScript runs it. Blazor and the server may do anything
the comments of the script allow (`ReconnectModal.razor.js:27-30`).

`Hosting`: a text is its content and whether blanks surround it, which is all
`Trim`, `IsNullOrWhiteSpace` and the comparison can tell. `token` is
`IOptions<ExampleCallbackOptions>.Value`, `Null` until it is first used. That a
production process protects its keys is one guard of one step (`ConfigureKeys`)
and has no property.

The operators commented *Fault* stand beside the definition they vary. They are
bugs the code could have had and no action uses them; each shows that some
property would notice.

## 3. Runs

| Run | Bounds | Shows |
|---|---|---|
| `protocol_safety` | 2 transactions, 1 circuit, 2 calls, 1 webhook request, 1 number | `TypeOK`, `TrackedIsStored`, `OutcomeIsGenuine`, and the inductive `IInv`; 4.4 million states |
| `protocol_rows` | 1 transaction, 2 circuits, 2 calls, 2 webhook requests, 1 number | what survives in a row when manual checks and redelivered webhooks overwrite it (the webhook's date, the check's date); two checks never overlap; a transaction whose start failed after RusAuth issued it never gets a row; the store implements `ConfirmationJournal` and the sessions `TabTransactions` |
| `pages_safety` | 2 transactions, 2 circuits, 2 pages, 1 call, 2 webhook requests, 3 revisions | no page that should be live is older than an answered webhook; the pages implement `JournalScreens` and the sessions `TabTransactions`; no page goes back, and a transaction is drawn in one tab |
| `pages_liveness` | 1 transaction, 2 circuits, 2 pages, 2 calls, 1 webhook request, 2 revisions | publications and calls end although pages close and RusAuth need not reply |
| `actions` | 2 presses, 1 handler, called again and again | messages, what the layout draws of them, busy flag, the page's error, and buttons that come back |
| `reconnect` | 2 attempts | the page is never stranded nor reloaded while it works, unless an attempt was overtaken, and recovers |
| `hosting` | 2 token contents | settings edited at any moment of start and service: a webhook that carries the token RusAuth was told is accepted exactly if no blanks surround it |
| `doc_acked_is_success` | 1 transaction, 2 calls | **violated**: see findings |
| `doc_stored_was_not_refused` | 1 transaction | **violated** |
| `doc_shown_is_answered` | 2 transactions, 1 circuit, 2 pages | **violated** |
| `doc_layout_is_current` | 1 press, 1 handler | **violated** |

Why the bounds are enough: every property is about one transaction, one row, one
page or one session, and is broken by the interleaving of at most two actors on
it, so two of each suffice to bring the case about; the second transaction is
there for the session to move to, the second circuit for a tab that closes with a
call under way or for a page whose handler is called after another's, the second
page also for one that is opened while the other is left. `actions` has one
handler at a time, around two presses, because fairness and the layout make two of
them too many for TLC. Its safety properties are proved for any number of handlers;
for `ButtonsComeBack`, handlers read `IsBusy` and never write it, and draw in one
step, so that one handler called again and again draws whenever two of them could.
Three revisions are a start and two webhooks, or a webhook and a check. A number is
either the one asked or not valid (`Null`), so one number already gives a form
edited during an await. No queue is cut off: what bounds the
state space is the number of transactions RusAuth issues, tabs opened and pages
created, each used once, and in `LivePages` how often a row is written
(`MaxRevision`, in the guards of `MarkManualStatus` and `MarkCallbackReceived`; the
theorems hold for every value of it). The theorems of section 4 hold for every size.

Deadlock checking is off where the system may come to rest with everything used
up (all transactions decided, all pages left); `actions`, `reconnect` and
`hosting` check it.

### Fairness

Safety runs use none. `pages_liveness` assumes that code which holds a thread or
the dispatcher runs on (weak), and that what waits for a dispatcher gets it
(strong: the dispatcher is taken by others in between but serves its queue in
order). `CallFails` is among the steps so assumed because the HTTP client has a
timeout (`RusAuth:TimeOut`); nothing is assumed of RusAuth, of users or of new
webhooks, and no handler need throw. `actions` makes the same assumptions and adds
that the connection delivers what was drawn and that a drawing of the layout that
has begun ends. `reconnect` assumes only that Blazor's
calls return or throw; that the server comes back for good and that the user keeps
returning to the tab are hypotheses of `Recovers` itself.

### Findings

1. `AckedIsSuccess`: a status check that RusAuth answered before it decided is
   written over the `Success` of a webhook that was already answered 200. The row
   reads "pending" or "not confirmed" until somebody checks again. The same write
   can lose the webhook's date, and a webhook's write the date of a check:
   `CallbackKeptUnlessRaced` and `CheckKeptUnlessRaced` say that nothing else can.
2. `StoredWasNotRefused`: the row is created after the reply to `CallToConfirm`;
   a webhook that comes while that reply is on its way gets 404 and the row stays
   pending.
3. `ShownIsAnswered`: an Authorize page opened while another page's start is
   awaited keeps showing the old transaction, or no row at all, and drops the
   webhook of the new one.
4. `LayoutIsCurrent`: the message a webhook or a call leaves in the session, and
   the active transaction, are drawn by `MainLayout` alone, which nothing draws but
   navigation. Right after an action or a webhook, on either page, the user sees
   neither; the heading goes on saying that no confirmation was started.

Not findings, because no text promises otherwise: a second start makes a tab
forget its first transaction (`TrackTransaction` overwrites it), and a start that
fails after RusAuth issued the transaction leaves one the application knows nothing
of. `LostStaysLost` says how final that is.

What does hold beside each of them is checked and proved: outcomes are genuine,
only a manual check takes a confirmation back, only a webhook written inside a check
disturbs the dates, the page of the session's own
transaction is live, and a page shows its own error as it is.

## 4. Theorems

All proofs are checked by TLAPS without assumptions beyond those the modules
state: `Null` is not a member of the sets it stands beside. No set is assumed
finite or non-empty.

`ConfirmationProtocolProofs`. None of the safety properties is inductive: each
speaks of the journal, and is broken by a value some call or request has been
carrying since before. `IInv` (`ConfirmationInvariant`) therefore says what is
carried: a row read and not yet written back, like a row in the store, has the
number RusAuth was asked for, an outcome RusAuth decided and dates that explain it
(`RowOK`); a start that was answered holds an issued transaction without a row,
different from that of any other start (`StartOK`, `StartsApart`); a check holds
an answer RusAuth could still give (`CheckOK`, which needs that decisions are
final); a request that writes or publishes is about a stored, confirmed
transaction (`HooksOK`); and the date of a delivered webhook is also in every copy
about to be written, unless the transaction is in `raced` (`DeliveredOK`). Delivery
without a race takes it out of `raced` again. The
lemmas `NewRow`, `ManualStatusRow` and `CallbackRow` say what the store's
operations do to a row that satisfies `RowOK`; one lemma per action then shows
that `IInv` is kept. `TypeOK` (with `Complete`: no step finds its transaction, reply or row
missing) is part of it. From `Invariance` follow `TypeCorrect`, `TrackedStaysStored`,
`OutcomesAreGenuine`, `PhonesAreTheConfirmedOnes`, `OutcomesAreExplained`,
`AckedStaysSuccess`, `CallbackStaysUnlessRaced`, and the action properties
`ChecksStayUnlessRaced` (a row loses the date of a check only to a webhook that
read it before the check) and `LostTransactionsStayLost` (an issued transaction
that has no row and whose reply is not on its way, because the start failed or the
process restarted, never gets a row: its webhooks are answered 404 for good). `ImplementsJournal` proves the
refinement `Spec => JournalSpec`: under `IInv`, each write of a row is a `Report`
or an `Enter` of the abstract journal, a restart is `Forget`, and everything else
is RusAuth's step or a stutter.

`ConfirmationOwnership`. `ChecksDoNotOverlap` needs that no two circuits track one
transaction, and that is not inductive: nothing in `TrackTransaction` looks at the
other sessions. `OwnInv` follows a transaction from the start that was issued it.
An answered start is the only call that holds its transaction, and no session has
it (`StartsAlone`); from there it passes to the session of the call's own circuit,
and other calls get it from that session only, so that everything that has to do
with it is in one circuit (`OneCircuit`); and of the calls of a circuit one at a
time is between two accesses to the store (`OneHolds`). `OwnInv` is inductive under
`IInv`, whose `StartsApart` it rests on (`Ownership`); `SessionsAreApart` and
`ChecksNeverOverlap` follow. This is what the store relies on without saying so:
`MarkManualStatus` is not atomic, and yet checks lose to webhooks only.
`ImplementsTabs` proves `Spec => TabsSpec`: `StoreStart` is `Store`,
`TrackTransaction` is `Take`, a restart is `Forget`, and everything else, a closed
circuit included, leaves the abstract state alone (a session keeps its
transaction when its circuit ends, and no circuit is opened twice).

`LivePagesProofs`. `IInv` says where an update is on its way to a page: a page the
publication has reached is not older than the revision the webhook wrote, a page it
has not reached is in `todo` or `drawing`, and a page that is not in the snapshot
subscribed after the row was written and draws it first thing (`UpdatesOK`).
`StartsOK` adds that a row that is stored and not yet tracked is on no Authorize
page, which is what makes the gap between `store.Start` and `TrackTransaction`
harmless. A handler that throws only removes a publication that was never answered.
The theorems are `JournalPagesAreLive`, `CurrentIsLive` and `TypeCorrect`.
`LivePagesRefinement` proves `Spec => ScreensSpec`: under `IInv` a drawing of a live
journal page is a `Draw`, a page that is left or replaced is a `Close`, each writer
of the store is a `Write`, an answer is a `Promise` whose condition is
`UpdatesOK`, and everything else stutters. `PagesGoForward` proves
`PagesNeverGoBack`: a page draws what is in the store and not what an update
carries, and no page shows more than the store has, so a drawing by whatever call,
handler or refresh can only raise a row (`StepsDraw` says what each step draws). The
`OwnInv` of `LivePages` counts the Authorize pages that show a transaction among
what has to do with it; that a page not yet opened is blank (`UnopenedIsBlank`)
keeps it true when pages are opened. From it follow `TabsShowTheirOwn` and
`ImplementsTabs`. `IInv` of `LivePages`, and `OwnInv` of both models, were checked
with TLC too; no run repeats it.

`PageActionsProofs`. Whoever made two messages stand is about to clear one of them
(`MessagesOK`); hence `MessagesExclude`. For `MessagesStand` the invariant says
where a message could be cleared next and that one stands there (`StandsOK`); it
needs that the dispatcher runs one press at a time (`OneRuns`). `PageOK` says that a
page that is busy, was drawn busy, or shows another error than it has, is about to
be drawn by an action or a handler *of its own*, which is why those that outlive
another page cannot harm it; hence `IdlePagesAreNotBusy` and `PagesAreCurrent`. All
for any number of presses and handlers.

`MainLayoutProofs`. `PagesInLayout` proves that the pages inside the layout
implement `PageActions` (`FairPagesInLayout`: with its fairness), so that the
theorems above hold of the whole tab. `BothShownAreTorn` needs an invariant about
the drawing (`DrawingOK`): while the layout draws, no call holds the dispatcher,
and an info message it has read still stands, for what runs off the dispatcher
clears none (`OthersKeepInfo`). So a layout that shows both messages was drawn
while the session had both; it has them only inside `SetInfo` or `SetError`
(`MessagesOK`), and only a webhook's handler writes messages without the
dispatcher.

`HostingProofs`. A process that serves has told RusAuth no token but the one it is
bound to (`ToldOK`), whatever the settings have become since. The facade sends it
as it is, the filter trims what the request carries and not what it compares with;
hence `ToldTokensAreAccepted`, for every token: 200 exactly if no blanks surround
it, and otherwise 401 for every webhook of that process.

`ReconnectProofs`. `NeverStranded` is inductive given the types; the proof goes
through every way an attempt can end. `WorkingPageIsKept` is not: a page that works
is reloaded by an attempt that asked while it did not. `LateOK` says that a
connected page has its circuit and that whoever is still about to resume it then was
overtaken, whence `WorkingPagesAreKept`, for any number of attempts.

Only model-checked: all liveness (`WebhooksAnswered`, `CallsEnd`, `ButtonsComeBack`,
`Recovers`), for it rests on fairness, which the prover does not treat.

## 5. Not modelled

- The health endpoints, the middleware chain and the static pages: no state, one
  condition on a port.
- The cancellation of a publication: no caller passes a token.
- The dialog of `ReconnectModal` and its styles: when it is shown is Blazor's
  doing. What `Blazor.resumeCircuit` answers for a circuit that another attempt has
  resumed cannot be told from this code; the model allows both answers, and
  `WorkingPageIsKept` says what follows whichever it is: only an attempt that was
  overtaken can reload a page that works.
- The links of `NavMenu` and the other pages of the site, which keep no state and
  use neither session nor journal.
- What the protection of keys does; only that a production start without it stops.
- Texts of messages, formatting, logging, and the columns of a row that never
  change after `Start`.
- `EditForm`'s validation, beyond whether the number is valid.

## 6. Plan

Done, in order of importance: the protocol and its journal; live pages, with
revisions, manual checks and handlers that throw; actions and messages across both
pages; the layout; reconnecting; hosting; the abstract journal and the abstract
screens with their refinements; whose a transaction is, as a third abstract
specification that both models of the session implement; the composition of pages
and layout; theorems for every safety and every action property of a passing run.

Possible extensions:

1. A composition of `LivePages` with the rows of `ConfirmationProtocol`, so that what
   a page shows is compared with the row's status and not with its revision. The
   store's lost update would be visible on a page; it is found without pages now.
2. The dialog of the reconnect script, once what Blazor promises about its events is
   fixed.
