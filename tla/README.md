# Arcadestr: TLA+ models, checks and proofs

Arcadestr is a desktop game store without a central server.  Listings, campaigns, grants and
receipts are signed Nostr events on relays; a developer's ADP server sells and delivers builds; a
Tauri application discovers events, signs with a local or a remote (NIP-46) key, keeps what it
acquired in SQLite and downloads builds.  The specifications here are written from the Rust sources
(`src/core`, `src/desktop`), at the grain at which the code can be interrupted: one action per
database statement, network exchange, file operation or lock acquisition that another task can
observe.

Contents: [inventory](#1-inventory) · [modules](#2-modules-and-how-they-correspond-to-the-code) ·
[runs](#3-runs-what-is-checked-and-the-bounds) · [fairness](#4-fairness) ·
[proofs](#5-proofs) · [divergences found](#6-divergences-found) ·
[not modelled, and the plan](#7-not-modelled-and-the-plan)

To check a run: `tlc -workers 2 -config <cfg> <module>`; to check proofs: `tlapm <module>.tla`.

## 1. Inventory

"State" is what outlives a call.  "Hard" is what makes the component difficult to test.

| Component (sources) | State | Operations | Hard | What makes it correct |
|---|---|---|---|---|
| Entitlement grants (`entitlements.rs`, `entitlements_repository.rs`) | `entitlement_events` rows | `ingest_event`, `chains_for`, `is_owned`, `history_for_buyer` | read, await, insert: overlapping calls validate against an old chain | ownership rests on a validated root, never returns after a revocation or conflict; readers agree |
| Campaigns (`campaign.rs`, `campaign_discovery.rs`) | events on relays | build, resolve, resolve at a time, group by id | partial answers, forks, one-second timestamps | the past of a campaign does not change; started terms hold; a fork fails closed |
| Campaign commands (`adp_commands.rs`) | relays, listing event | `publish_campaign`, `update_campaign_pointer` | read-modify-write over awaits; second step fails after the first succeeded | no session publishes into a fork; pointers name published roots; no edit lost |
| Purchases (`purchases.rs`) | `purchases` rows | `upsert_receipt`, `is_owned`, walk over the chain | receipts in any order, forks, refunds | one tip or none, refund and conflict final |
| Ownership service (`ownership.rs`) | none of its own | `source_for`, history, library | two readings of the same rows | shown status agrees with ownership |
| Acquisition commands (`adp_commands.rs`, `main.rs`) | both tables, `download_tokens` | `confirm_purchase`, `claim_entitlement`, `ingest_receipt` | late answers, account switch, failure between two writes | only validated credentials; token after credential; games do not affect one another |
| Fulfillment authorizations (`authorization.rs`) | relays, provisioning rows | resolve at a time, discover, reuse | chain of replacements and cancellations | an authorization ends when cancelled |
| ADP publish flow (`components/publish.rs`, `adp_commands.rs`, `adp_publish.rs`, `adp_client.rs`, `adp_storage.rs`) | form identity, provisioning rows, relays, servers | publish or edit a listing, repair, provision, upload | many steps, each may fail after the last was visible; other devices; progress events shared by all forms | a listing names a published authorization, an edit keeps it; a retry does not duplicate; the outcome shown is true |
| Download and install (`install.rs`, `http_client.rs`, `main.rs`) | game directory, `installed_games` | `install_game`, `verify_and_record_downloaded_game`, quarantine | file operations of two installs interleave, crashes | the row describes the artifact; nothing is lost or overwritten in quarantine |
| Accounts (`auth/`) | `accounts` rows, `AuthState` | login, switch, delete, restore | two updates without a transaction; five places that say who is active | the account shown is the one that signs; a logout lasts |
| NIP-46 sessions (`nip46/`, `nip46_commands.rs`) | keyring profiles, last-active id, `AppSignerState` | connect, activate, restore, retry, logout, delete, QR login | background tasks finishing after a switch; several stores for one fact | state shown is that of the active profile; "Connecting" ends |
| Signers (`signers/`) | connection of a lazy signer | sign, `ensure_connected` | two locks, handshake outside them | one handshake, no deadlock, truthful state |
| Profile fetcher (`profile_fetcher.rs`, `user_cache.rs`) | queue, failures, caches | enqueue, fetch batch, fetch single, clear | the loop ends at a batch without an answer; the clock may go back | whoever is queued is asked for |
| NIP-05 validator | cache, failures | validate, cached lookups | expiry and back-off | no stale verdict |
| Relays (`relay_*.rs`, `subscriptions.rs`) | health rows, pools, subscriptions | record outcome, choose, connect, subscribe, clean up | counters at their limits, concurrent connects | limits hold, cooled-down relays come back |
| Extended network, social graph | network cache, edges | discover, threshold, store | partial discoveries, cancellation | a cache is complete or marked incomplete |
| Marketplace (`marketplace*.rs`) | listing caches | parse, merge, cache | replaceable events out of order | newest event wins |
| Nostr client (`nostr.rs`) | clients | fetch, publish | fallbacks | — |
| Store pages (`store_page*.rs`, `store_page_commands.rs`, `store_page_publish.rs`) | pages and listings on relays, two caches per device, incomplete publications in memory | load editor, publish, retry, enrich cards and details | a page and its listings name each other but are replaced one by one; lost acknowledgements; relays behind the cache | a complete publication links both ways; a retry does not publish twice; no pointer ahead of its page; a view does not go back |
| Blossom (`blossom*.rs`, `blossom_media_upload.rs`) | server settings, selections, running uploads, the dialog | save settings, pick, upload, retry, cancel, discard | the file changes while it is read; answers after the dialog moved on; four maps and flags changed one after the other | the draft names a stored blob, the previewed one, only while it is awaited |
| Payments and the game page (`game_detail.rs`, `lnurlp.rs`, `nwc_client.rs`) | signals of the page, invoice, preimage | look up ownership, request, pay, confirm, claim, install | answers outlive what the page shows; an account switch finishes late; money is spent before the credential arrives | one payment at a time; what was paid is confirmed; "owned" is stored |
| Achievements, local storage | badge and key stores | parse, encrypt | — | conversions |
| Desktop shell, rest of the user interface, web | windows, signals | rendering, forms | — | — |

How they interact.  The UI calls Tauri commands; each command is a tokio task.  Commands share
`AppState`: mutexes around `AuthState` and `AppSignerState`, and a SQLite pool through which every
repository writes.  No lock or transaction spans a command, so any two commands, and a command and a
background task, interleave at each await.  Relays and ADP servers answer late, in part or not at
all.  Authorizations justify grants (`issue_grant`) and receipts (`issue_receipt`); campaigns justify
grants; grants and receipts together are ownership; ownership, open access or a token justifies a
download.

## 2. Modules and how they correspond to the code

| Module | What it is | EXTENDS / uses |
|---|---|---|
| `Grants` | pure rules of grant events: `Parses`, `Resolves`, `ValidGrant`, `IsOwned` | — |
| `Entitlements` | the grant repository with concurrent `ingest_event` calls | `Grants` |
| `Campaign` | pure rules of campaign chains: `ResolveAt`, `ClaimableAt` | — |
| `CampaignPublishing` | publisher sessions running the two campaign commands | `Campaign` |
| `Receipts` | pure rules of receipt events and the persisted walk | — |
| `Purchases` | the purchases table and the history read from it | `Receipts` |
| `CredentialStore` | abstract: what the credential and token tables promise | — |
| `Acquisition` | the three acquisition commands over both tables and the tokens; implements `CredentialStore` | `Receipts`, `Grants`, `CredentialStore` (INSTANCE) |
| `Install` | installs of one game at file-operation grain | — |
| `LazySigner` | overlapping sign requests over one deferred NIP-46 signer | — |
| `Sessions` | accounts, sessions and who signs: every account command with the background tasks beside it | — |
| `Publishing` | Game page forms and `publish_adp_listing` on several devices | — |
| `StorePages` | store-page editors, publication and retry, and the buyers' views | — |
| `Uploads` | Blossom media uploads: service, commands and the dialog of the editor | — |
| `Checkout` | the page of a game: buy, pay, confirm, claim and install | — |
| `EntitlementsProofs`, `AcquisitionProofs`, `PublishingProofs`, `StorePagesProofs`, `CheckoutProofs` | theorems | the module they are named after |
| `SessionsProofs` | theorems | `Sessions`, `LazySigner` |
| `FileProofs` | theorems on files that others may change | `Install`, `Uploads` |
| `ChainProofs` | theorems on the two walks of a chain | `CampaignPublishing`, `Purchases` |
| `MC…` | model values for TLC | the module they are named after |

**Signed events.**  An event is an element of a set (`Events`, `Receipts`) and its content a function
of it (`Ev`, `Rcpt`): ids are hashes, so two contents never share an id.  In `Campaign` events are
created during a behaviour and are records that contain their predecessor; this gives identity by
content and acyclicity, as hashing does.  Signatures are taken as unforgeable: `signer` is a field.
Payment proofs (`purchases.rs`, BOLT11, preimage, zap) become one three-valued field, the wording of
errors, JSON and SQL column conversion are left out.

**Views.**  What relays showed a caller about a campaign or an authorization is a parameter of the
action, drawn from a set of views; two callers may have seen different prefixes of one lifecycle.

**Grants / Entitlements.**  `ReadChain` is `ingest_event` up to its first await (parse, select rows
of the grant), `InsertEvent` the rest (resolve and validate what was read with the new event, insert
or ignore), `EndIngest` every way it ends without a row.  `Resolves` is
`resolve_entitlement_grant`; since only a revocation may follow a grant and nothing a revocation, the
walk has at most one step and needs no recursion.

**Campaign / CampaignPublishing.**  `ResolveAt` is the loop of `resolve_campaign_at` as a recursive
function over rounds; `ClaimableAt` is `state_at`, which resolves the resolved chain again at a time.
`SignCampaign` covers discovery, the reused-id and tip checks, building, signing and the prospective
resolve; `PublishCampaign`, `SignListing`, `PublishListing` the awaits after it; `Abandon` any failed
await or exit.  With a partial `setup` a discovery returns any subset of what is published
(`fetch_events_best_effort`).

**Receipts / Purchases.**  `PersistedTip` is `resolve_persisted_receipt_tip`; `OwnedByReceipt` is
`is_owned`; `ShownStatus` is `purchase_status` after `durable_records_for`.  The application upserts
only validated paid roots; lifecycle receipts (disputed, refunded, fulfilled) reach the table through
the repository's interface and its tests, so `Purchases` stores any receipt in any order.

**Acquisition.**  A command is a task with a `pc`: `asked` (the request is out), `accepted` (the
answer was validated), `store`, `insert`, `token`.  `SwitchAccount` may fall between any two.
`Commit` is the check that the account is still the one that asked.  The final `Fail` models errors
and exits: nothing stored is rolled back.

`CredentialStore` is the specification behind it, without accounts, commands or awaits: `Hold` adds a
valid credential, `Issue` adds a token of a credential that is held.  `Acquisition` instantiates it
with the rows of both tables as `held` (`Credentials`), the receipts and granted roots that some view
justifies as `Valid`, and as `Unlocks` the tokens of a receipt's developer or a grant's game.
`StoresCredentials` is its specification under that mapping.  `StoreReceipt` and `InsertGrant` map
to `Hold`, `StoreToken` to `Issue`, every other action to a stutter.

**Install.**  The file `artifact.bin` is `dest`, the quarantine names are `quar`, opened files keep
their content when a name is replaced, and `got` is the content of the file a task has open.
`Begin` follows the server choice of `install_game_with_fetcher_and_signer`; the access decision is
its parameter `mayAccess`.  `Crash` ends all tasks and keeps the files.  `crew` is the set of installs
that may run in one behaviour: with `Crews = SUBSET Tasks`, any.

**LazySigner.**  `inner` and `state` are the two fields behind tokio `RwLock`s; `innerW` and `stateW`
name the request that holds their write guard.  Read guards never outlive the statement that takes
them and need no variable.  `FastPath`, `LockState`, `Recheck` are the way in, `Shaken` the handshake
with its free outcome, `KeepClient` and `ReportConnected` the `Ok` arm (which takes the second lock
while it holds the first), `ReportFailed` the `Err` arm.  `Drop` is the timeout of a caller
(`blossom_upload.rs`): the future is dropped at whichever await it is, with its guards.

**Sessions.**  A command of `nip46_commands.rs` is `cmd`, with the statement it stands at (`at`); its
steps are those another task can observe, and `Fail` ends it wherever the code returns an error.  The
UI starts one account command at a time (`is_loading`), so there is one `cmd`; what runs beside it has
variables of its own: `poll` (the QR loop and `check_qr_connection`), `restore`
(`restore_session_on_startup`), `tasks` (connect tasks of lazy signers) and `pub` (a publication, from
`resolve_active_signer` to the signature).  `session` is `AppSignerState`, `auth` the signer in
`AuthState`, `last` the last-active keyring entry, `shown` the npub of `AuthContext`.  A local account
is active by its row's flag, a remote one by `session` and `last`; `Signer` is the rule of
`resolve_active_signer` that decides between them.  `active_profile_id` holds the profile id or the
bunker key, depending on the path that wrote it, and `attempt_manual_reconnect` looks for the former
only.  Keyring writes that the code merely logs when they fail (`last`) may fail silently.  `late`,
`seen` and `out` are histories, which no guard reads.

**Publishing.**  A form is opened once (`OpenNew`, `OpenEdit`) and submits any number of attempts; the
`task` of a form is the running `publish_adp_listing`.  `Check` and `Recheck` are the two comparisons
with the expected event, `Provision`, `Store`, `Announce` the authorization (made or repaired), its row
and its publication, `SignListing`, `Send`, `Confirm`, `Finish` the listing.  Roots and listings are
numbered in signing order, which stands for `created_at`: two signatures in one second and clocks that
disagree are not distinguished.  A relay keeps the newest listing of a page; each fetch sees any
non-empty set of relays.  `SendUnheard` and `AnnounceUnheard` are publications whose acknowledgements
are lost.  `Begin` asks for the account of the form: a new form that is submitted under another account,
which then publishes for that one, is not followed.  `Send` is two emits of the code (`publish-listing` and `listing-coordinate`) in one step; its
parameter `H` says which listening forms of the device hear them: the form's own does, others may,
since the event goes to every listener.  `form.home`, `form.key`, `form.last` and `unheard` are
histories but for the key, which is what the request passes as `existing_fulfillment_pubkey`.

**StorePages.**  `edit` is a `StorePageEditorView` with its association rows and the response of an
incomplete publication (`PUBLISHER_STORE_PAGE_RECOVERY`), `task` the `publish_store_page` or
`retry_store_page_pointer_sync` it waits for.  `SignPage` is everything up to the signature: the two
checks are the same comparison with what the editor has loaded, and only what the second one sees
decides.  `FetchPointer`, `SignPointer`, `SendPointer`, `ConfirmPointer` are `publish_pointer_update`
for one row; the rows follow each other in any order, as their order is that of the editor.  A relay
keeps the newest version of a page or a listing; versions are numbered in signing order, as in
`Publishing`, so two in one second are not distinguished.  `Current` is what a fetch over the relays
of `V` returns after it is merged with the cache.  `EditGame` is a whole edit with the game form.
`StartView` and `EndView` are the two halves of `enrich` and of `enrich_detail`: the page that was
read from the cache is a candidate beside the relays' answers only if it names the game, and no
candidate is "unavailable" or "not found".  An editor is opened once; `Before` is what earlier ones
have published.  `sent`, `unheard`, `forgot` and the field `held` are histories.  Validation and
sanitizing of page content are left out: every page is valid, and a row is a link or an unlink.

**Uploads.**  `up[r]` is the task of request `r`: `listen` until its progress listener is registered,
then the command (`start`, `activate`), then the service (`select`, `hash`, `sign`, `send`, `finish`),
then `back` until the dialog has taken the answer.  `op`, `active` and `token` say whether it is in
`operations`, in `active`, and cancelled.  `Sign` covers the destination, the signature, the check of
the signed event and the preflight: what they can do to an upload is to end it (`UploadFails`,
`Cancelled`).
A content stands for its hash and length and modification time are one `stamp`; a write that keeps the
stamp is possible and marked `forged`.  `job[j]` is a task of the dialog for picking or discarding
a file, `JobStep` its steps; `ui` holds the signals of the component (`session`, `sel`, `request`,
`upload`, `alive` for `listener_alive`, `listener` for the installed listener).  `Follow` is the effect
that passes a switch on to the user interface and the editor.  `gaveUp` and `crossed` are histories.
Formats, dimensions and addresses are not modelled; a content fits the media role or does not.

**Checkout.**  `page` holds the signals of `GameDetailView`, `calls` the futures it spawned with the
account each was started for (`who`), `at` and `said` how far the command behind it is and what it
answered, `as` the account that command signs for.  `Primary` is `select_primary_action`; the look-ups
of the listing, the device, the installation and the library are taken to have been answered, and the
public and timed modes, which need no purchase, are left out.  `page.server` says whether the listing
yields an ADP server URL (`adp_server_url`), which neither the primary button nor an invoice asks for:
without one `Paid` shows the early return of `confirm_with_preimage`, which leaves the operation as it
is, and a manual confirmation or a claim changes nothing.  `Switch` is the start of a switch, which
only the settings offer, so the page is closed; `Switched` and `Follow` are its two later halves and
may find the page open.  `Follow` is also the two effects on `auth.npub`: the one that looks ownership
up again and the one that lets a download go.  A page that is left loses its signals; its commands run
on with nobody waiting (`who = None`), those that store nothing are dropped.  What `confirm_purchase`
and `claim_entitlement` validate is in `Acquisition`; here `Store` is their last steps, and the server's
replay table is `used`, a history for a buyer who confirms twice.

Definitions marked "Mutant" in comments are deliberate errors, used only to confirm that each
property can fail: no action refers to them.

## 3. Runs: what is checked, and the bounds

| Run | Expect | Properties | What it shows |
|---|---|---|---|
| `entitlements` (MCEntitlements.cfg) | pass | `OwnershipIsBacked`, `HistoryHonoursRevocation`, `OwnershipNeverReturns` | Two overlapping ingest_event calls over competing roots and revocations of one grant id, stale, wrongly signed and malformed ones included, each call with its own view of the campaign: ownership is always backed by a validated root, never returns, and the history agrees about revocations. |
| `campaigns` (MCCampaignPublishing.cfg) | pass | `ChainResolves`, `PublishNeverRewritesEarlier`, `ForkIsFinal` | One session with complete relay answers editing two campaigns and the listing, and two sessions with partial answers: alone a publisher never publishes into the fail-closed state; with others, what may not change about the past of a campaign, and that a fork is never repaired by publishing more. |
| `purchases` (MCPurchases.cfg) | pass | `TipMatchesReference`, `RefundIsFinal`, `HistoryHonoursTip` | Every subset of a set of competing receipts, stored in every order: the walk finds the tip of the declarative chain rules, a refund or a conflict is final, and the history does not contradict a resolved tip. |
| `acquisition` (MCAcquisition.cfg) | pass | `TokenFollowsCredential`, `OwnershipIsEarned`, `OwnershipLostOnlyByConflict`, `StoresCredentials` | Two overlapping acquisition commands with account switches, late answers and failures between the two writes: the tables behave like a CredentialStore (one validated credential or one token at a time, nothing taken back), a token follows its credential, ownership is earned and is lost only to a conflicting credential. |
| `install` (MCInstall.cfg) | pass | `RecordedArtifactMatches`, `RemovedIsQuarantined`, `InstallEnds`, `ReservationsHeld`, `QuarantineKept` | One install of any listing of the game, or two of the same listing interleaved at every file operation, with a crash, failing file operations and all quarantine names taken: an install ends, nothing in quarantine is overwritten, and alone it records and removes only what it should. |
| `lazy_signer` (MCLazySigner.cfg) | pass | `ConnectedHasClient`, `RequestsEnd` | Two overlapping sign requests, one with a deadline of its caller, with handshakes that succeed, fail or are dropped at any await: the connection state is truthful, a client once kept stays, and a lock cycle ends when the deadline drops a request with its guards. |
| `lazy_deadlock` (MCLazySigner_nodeadline.cfg) | violation | `RequestsEnd` | Without a deadline two first sign requests take the locks of inner and state in opposite orders and wait on each other for ever. |
| `sessions` (MCSessions.cfg) | pass | `ConnectingIsPending`, `SignsAsShown`, `PublishedAsShown`, `LoggedOutStaysOut` | Two local and two remote accounts, four operations: every account command with every step of it failing, beside a QR approval that comes after its flow was cancelled, the restore task of the startup, connect tasks, a publication and restarts. The five places that say who is active end up naming one account, an event is signed by the account it was asked for, and a logout lasts. |
| `publishing` (MCPublishing.cfg) | pass | `ListingNamesPublished`, `RowKnowsRoot`, `AuthorizationKept`, `FormKeepsItsPage`, `OutcomeTruthful` | Two devices of one publisher with three forms, two relays, retries after lost answers, account switches, exits and rotated fulfillment keys: a listing names a published authorization, an edit keeps it, a retry replaces the listing of the attempt before, and the outcome shown is true of the listing. |
| `store_pages` (MCStorePages.cfg) | pass | `CompleteMeansLinked`, `OneReplacement`, `PointerHasPage`, `ViewNeverGoesBack` | A publisher links a second game to a page (or unlinks one) over two relays with partial answers, lost acknowledgements, failures at every step, retries and edits of the game form, while a buyer looks at both games: completion is true, a retry does not publish twice, no pointer is ahead of its page, and what is shown does not go back to an older version. |
| `uploads` (MCUploads.cfg) | pass | `DraftIsStored`, `PreviewIsUploaded`, `OnlyAwaitedEnters`, `UploadingIsPending` | Media uploads from the Store Page editor while the file is written, the account switched, the page reloaded, the dialog cancelled, closed and opened again and the file chosen anew: the draft only ever names a blob the server holds, which is the one that was previewed and is still awaited, and the dialog does not wait for nothing. |
| `checkout` (MCCheckout.cfg) | pass | `OperationAwaited`, `PaidInvoiceConfirmed`, `OwnedIsRecorded` | The page of a game while its buyer asks for invoices, pays, confirms, claims and downloads, leaves and opens it again and an account switch finishes: no two payments or confirmations overlap and the page does not stay busy unless a listing without a server was paid for, what was paid is what is confirmed, and the page calls owned what is stored. |

Bounds and why they are enough.

* `Entitlements`: one buyer, one game and one grant id, eight events: two competing roots, two rival
  revocations and the ways an event can be wrong (a revocation by time or by key, a root issued after
  the campaign or with a predecessor).  Two
  tasks give every overlap of one read with another insert; a third adds no new pair.  Views contain
  a campaign before and after its cancellation.
* `CampaignPublishing`: each behaviour is one of two `Setups`: one session with complete answers, two
  campaigns and three listing events (an edit of each of two pointers, one undone), or two sessions
  with one campaign, two windows and partial answers.  `MaxEvents` 3 admits root, replacement,
  cancellation and rivals of each; `MaxTime` 3 puts events before, at and after the start of a window
  and twice in one second.  `ChainResolves` speaks about the first setup.
* `Purchases`: all 2^11 subsets of eleven receipts; two links with rivals, one refund followed by a
  late receipt and by a late payment, one wrong signer, one delegated order.
* `Acquisition`: two accounts, two developers, four receipts and two rival grants; one ADP server (a
  token records the server and nothing else depends on it).
* `Install`: `MaxSlot` 1 (two names) instead of 1,024: the search is uniform in the suffix; one crash.
  `MaxCrashes` and `MaxSlot` are the only bounds.  A behaviour of `MCInstall` has one install
  at a time, or two overlapping installs of one listing (`MCCrews`, `Allowed`); `RecordedArtifactMatches` and
  `RemovedIsQuarantined` speak of the first (section 6 says why).
* `LazySigner`: two requests, which is what a lock cycle over two locks needs; a request may be made
  again after it ended, so any number of handshakes happen.  No bound.

* `Sessions`: two local and two remote accounts, so that a command can meet the session, the flag and
  the keyring entry of another account of either kind.  `MaxOps` 4 is the number of commands, QR flows
  and restarts: log in, log in or be approved late, switch or delete or log out, restart.  Five
  operations were checked once (3.7 million states) with the same result.  A behaviour has one QR poll
  at a time.
* `Publishing`: two forms on one device and one on another, two relays (the confirmation wants two), two
  pages, two keys; `MaxEvents` 5 is two delegated attempts and one without (6, three delegated ones, was
  checked once, 1.3 million states, with the same result), `MaxOps` 3 bounds attempts together with
  lost answers, account switches, exits and key rotations: a retry of an attempt whose answer was lost,
  an edit after another device's edit.  `StillPublishing` ends a behaviour when `MaxOps` is used up and
  no call works: only forms would be opened and left.  `MayLeave` FALSE keeps a form open until its attempt ended;
  with `MayLeave` TRUE one device with `MaxEvents` 5 was checked once (6 million states) with the same
  result, and the proofs cover both.
* `StorePages`: a page that already names one game, an editor for another one (so the new page has two
  rows, each a link or an unlink), two relays (`STORE_PAGE_PROPAGATION_THRESHOLD` is two) and a buyer.
  `MaxEvents` 5 is the page, its first pointer, a new version of the page and two listings; `MaxOps` 2
  bounds retries, edits, views, exits and lost answers together: two retries, two views, or a retry
  after a lost acknowledgement.  Two editors on two devices with `MaxOps` 1 (0.9 million states), one
  editor with `MaxOps` 3 (4 million) and `MaxEvents` 6 (3.7 million) were checked once with the same
  result.
* `Uploads`: two files, two requests, two tasks and two openings of the dialog, but no behaviour needs
  all of them: each of the six `Limits` of `MCUploads` admits one kind of trouble (a second choice
  while the first is discarded, reopening while tasks run, a switch, load or write in between, two of
  those so that one may undo the other).  `MaxSelections` 1 instead of 32 makes every second choice
  evict the first, unless that was discarded or has expired.  One of the two contents fits the role.

* `Checkout`: two accounts, three calls under way (an operation, a look-up and an orphan or a download
  that was let go) and four `Limits`: two invoices in one visit with a switch; a purchase or a claim
  with the page left and opened again and two switches, with and without an invoice to buy and a
  download to try; two downloads with a switch in between.  Accounts are interchangeable (symmetry).

Deadlock is checked in every run except those of `CampaignPublishing`, `Sessions`, `Publishing`, `StorePages`,
`Uploads` and `Checkout`, whose bounds (`MaxEvents`, `MaxTime`, `MaxOps`, `Setups`, `Limits`) stop behaviours, and `lazy_deadlock`,
which ends in the deadlock that it is about.

## 4. Fairness

`Install` assumes weak fairness of `Work(t)` for every install: tokio polls each spawned task, the
request has a 30-minute timeout, and file operations return.  Nothing is assumed about users (no
fairness on `Begin`) or about success: `Fail` is always a possible outcome and satisfies the
assumption.

`LazySigner` assumes strong fairness of each lock acquisition, since tokio's `RwLock` is a fair queue
and a lock that is free again and again is granted in the end; weak fairness of the handshake and of
signing, which end after 30 seconds at the latest (`lazy_nip46.rs:139`); and weak fairness of `Drop`
for requests with a deadline (`signer_timeout`, 90 seconds).  Nothing is assumed about users or about
success.  In run `lazy_deadlock` the same fairness holds and no request has a deadline, as in the
publish and campaign commands.

All other modules state safety only and assume nothing.

## 5. Proofs

The theorems hold for every value of the constants that satisfies the named assumptions
(`EventsAssumption`, `ReceiptsAssumption`, `InstallAssumption`, `SignerAssumption`,
`SessionsAssumption`, `PublishingAssumption`, `StorePagesAssumption`, `CheckoutAssumption`,
`CampaignAssumption`, `UploadsAssumption`: events have typed content, absent values are not events, a publisher has
finitely many sessions, no account is both local and remote, the server list is not empty, there are finitely many relays,
the bounds of one behaviour are within those of the model, and what earlier store-page editors published had each page before its pointers); TLC evaluates the same
assumptions on each run.  The three campaign theorems have one more, `NoPredIsNone`:
the value that stands for no predecessor is none of the events the commands build (TLC takes a model
value, of which that is true).

**Entitlements.**  `OwnershipIsBacked` is not inductive: an insert may complete a chain whose root
another call stored.  `IInv` adds `GrantStoredFirst` (a grant always has a root in the table),
`RootsValidated` (every stored root was valid under some view) and `ReadsStored` (what a call read is
still stored and belongs to the grant of its event).  `InsertEvent` then either stores a root it
validated, or a revocation of a stored root.  `OwnershipNeverReturns` follows from rows that only
grow: with more rows a grant that does not resolve to "granted" cannot start to
(`MoreRowsNeverGrant`), unless it had no rows.

**Acquisition.**  A token is stored two steps after its credential was validated and one after it was
stored.  `IInv` therefore says, per command, what it checked about the credential it holds
(`ConfirmChecked`, `IngestChecked`, `ClaimChecked`) and, at `token`, that the credential is in its
table.  Tables only grow, so a step of one command keeps what another relies on.
`OwnershipEarned` needs in addition that a resolved tip lies in the rows of that buyer and game.
`ImplementsStore` is the refinement.  A row that is written is valid because its command checked it,
and a token is an `Issue` step because the credential of its command is still in its table: both are
conjuncts of `IInv`, so each step maps under `IInv` (`StoreStep`).  It says more than
`CredentialsValidated`, which only looks at a state: one write never stores two things, and none
removes any.
`OwnershipKept` is an argument about two states: tables only grow (`TablesGrow`), and an order or a
grant whose rows are the same resolves to the same.

**The chains.**  `resolve_persisted_receipt_tip` and `resolve_campaign_at` are loops, and the model has
them as recursive functions over rounds.  What such a function returns is proved from the principle
that a set of numbers which is not empty has a least member: a set of rounds that contains 0 and each
successor contains every round (`Induction`), a function is defined by its first value and its step
(`Iteration`), and a set that grows with every move among finitely many members stops growing
(`MovesRunOut`).  Since each event of a chain is later than the one it follows, a walk has settled
after as many rounds as there are events (`OrderWalkSettles`, `CampaignWalkSettles`), so the bound of
the loop never cuts a chain short.

*Purchases.*  `TipIsReferenceTip` compares the walk with the declarative reading: what the walk passes
is closed under succession, hence all that is reached, and conversely a reference tip is passed, and
the walk stays there.  `RefundsAreFinal` follows with more rows: they reach everything that was reached
before, and nothing follows a refund.  `HistoryHonoursTips` needs that every receipt after the root
carries no payment proof of its own.

*Campaigns.*  `WalkAmongMore` compares the walks over some events and over more of them: round by
round they agree until the longer one forks or the shorter one has settled.  Hence a campaign that has
forked stays forked (`ForkedAmongMore`).  For one more event that nothing follows yet
(`WalkWithOneMore`) the chain stays, gets that event at its end, or forks (`OneMoreEvent`), so that the
past of a chain is never rewritten.  `ChainsResolve` adds `SingleInv`: what the only session is about
to publish opens its campaign or follows the tip, since nobody else publishes between its discovery
and its send.  `Inv` says of all that is published that it is a valid root, or follows a published
event in a campaign that has a root.

**Install.**  `ReservationsHeld` is not inductive, since two installs might share a name: `Exclusive`
adds that a held name is partial and held once, which `create_new` establishes.  `QuarantineKept`
follows because only the holder of a name writes or removes it, and its content is then `"partial"`.
`RecordedArtifactMatches` and `RemovedIsQuarantined` need to know what an install that runs alone knows
of `artifact.bin` between two file operations (`Knows`): from the hash to the row, from opening the
corrupt file to the end of the copy, and from there to its removal.

**Uploads.**  Part two of `FileProofs`; four properties, one invariant.  `DraftIsStored` needs
`StoredInv`: what was sent is stored from the moment the body ends, and a request that came back "ok"
has the hash of what was sent, since `Verified` compares both.  `PreviewIsUploaded` needs
`PreviewInv`, which never speaks of the time between two reads but of stamps: no stamp is ahead of the
file (`StampsPast`), so one that still matches was not followed by a write that shows, and the file is
what the preview was read from (`Faithful`).  That needs the registry never to give a selection that
is in use a newer stamp, hence `FitsInv`: selections of requests, of the dialog and of jobs were picked
before, and one that a job is about to hand over is known to nobody else (`HeldAlone`).
`OnlyAwaitedEnters` needs `GivenUpInv`: whatever abandons a request takes away for good one of the
things `accepts_completion` compares.  Sessions and contexts only grow, and a selection that was
cleared is never shown again; an account may come back, so a request made under another account is
dead only together with the context that ended with it (`Outdated`).  `UploadingIsPending` needs
`BusyInv`, which also remembers that the request is for the selection shown and that a request still
waiting for its listener has it alive: the discard of `choose_another` clears what its own session
shows (`JobFits`), and all that breaks this is recorded in `crossed`.  Steps are taken by kind: those
that leave the dialog alone (`QuietStepKeepsCourse`, `JobStepKeepsCourse`), those that move it
(`MoveKeepsCourse`), and, for the service, those elsewhere (`Elsewhere`).

**LazySigner.**  `ConnectedHasClient` alone is not inductive: a late failure of one handshake must not
take a client from another.  `NoClientYet` says that while there is no client no request stands past
the point where one was kept; since `inner` is only ever filled, both properties follow.  `SignerTypeOK`
ties each guard to the statement that holds it, which every action must re-establish.

**Sessions.**  None of the four properties is inductive.  Typing needs `CmdFits` (the account a
command works on is of the kind its step expects) and `BackgroundFits` (the same for the poll, the
restore task and the publication).  `ConnectingIsPending` is then a matter of who writes
`connection_state`.  `PubInv` says what the snapshot and the author of a publication have to do with
`seen` at each of its steps: the two reads of a check straddle steps of others, and the author is
either the client read second or the AuthState read first, which was still there when the check began.
`OutInv` follows a logout through its steps: nothing that could sign survives the step that clears it,
and neither a restart (no flag, no last-active entry) nor the `load_active_account` after a deletion
finds an account.  `SignsInv` is the large one: for each step of each command it says which of the five
places already name the new account and which still may name an old one.

**Publishing.**  `ListingNamesPublished` rests on four facts kept together: `LogFits` (it holds of the
signed events, and an edit replaces a published listing), `SentFits` (what relays hold as listings are
listings), `FormFits` (what a form knows is published, and its page is that of the event) and
`TaskFits` (the authorization a call has in hand is a root for its page, published once the call is
past `Announce`).  A step of one call keeps what another has settled, since `known`, `sent` and the log
only grow (`Stays`, `CallStays`).

The other four properties are about one form over several attempts, and none is inductive.  All of
them rest on `Working`: of two calls on one device, one belongs to a form that was left.
`RowKnowsRoot` needs `RowsFit`, which follows a root from its signature to its row and to a relay: the
root a call is about to store is newer than every root of its device and page, or is of another form
(`CallRows`).  `AuthorizationKept` needs `KeysFit`: what a form shows, what its call replaces and what
it has signed have the key the form was opened with; `Provision` compares keys, and a listing signed
without a new root takes the authorization of the one it replaces.  `FormKeepsItsPage` needs
`PagesFit`: once a form has heard of a listing of its own, its next call is an edit of that page, so
no second page is minted (`HeardShown`, `HeardCall`, `LastSigned`).  `OutcomeTruthful` needs
`OutcomeFits`: until the call has told the form of a listing, what it signed last is on no relay or
went unheard.  What it says of a first publication needs three more, together `HoldingInv`: the listing
that founded a page is its first (`FirstsFit`), relays hold sent
listings of that page only (`RelaysFit`), and what was sent is held by a relay, it or a later version (`SentReaches`); so
the two relays that show the page to the confirmation have this version or a successor.  What a form that was left can still do to a later one on its device is named in the
properties (`Left`, `Beside`) and carried through each of these invariants.

**StorePages.**  `Inv` joins five parts.  `LogFits` says of the signed events what `PointerHasPage`
says, and holds since a pointer is signed only when a command knows its page, which `SentFits` says was
published.  `StoreFits` says that relays and caches hold versions under the subject they are of.
`EditorsFit` follows a publication: the page in hand lists the link rows and nothing else, each row is
still to do, has an outcome or was confirmed by an earlier response (`RowsFit`), and whatever is
confirmed or held is on two relays, which stays so because relays only move forward
(`SpreadKept`); `CompleteMeansLinked` is what that comes to when no row is left.  `BuyersFit`
says that a view works for the listing that is shown and began with a version at least as new as the
page that is shown; `ViewNeverGoesBack` needs that of the state before `EndView`.

`OneReplacement` needs more, `Once`: every version of an editor that nobody
has lost track of is recorded with it, as the version at hand, as an outcome or as a held one
(`Recorded`); a row that is worked on holds nothing yet (`RowsOnce`); and the retry passes on exactly
what the response recorded (`StageOnce`).  Whoever signs a second replacement would have to have a row
without a record.  `Answer` is the one step after which a record may go, and it adds what goes to
`forgot`.

**Checkout.**  `OperationAwaited` is inductive only with `AttemptInstalls` (an attempt is remembered
only while a download is the operation, so letting it go cannot end a payment), `target # shown` (a
switch that is followed changes the account, so the download that ends is of another one) and
`LeftIsBlank`.  Its exception, `Stranded`, lasts until the page is left: a page that is paying offers no
button that changes its operation or its invoice, and `paid` only grows.  `PaidInvoiceConfirmed` needs `PayingKeepsInvoice`: while the wallet pays, no button
can request another invoice and no other call sets one.  `OwnedIsRecorded` needs `AnswersBacked`: a
command that answered "ok" has stored for the account it signed for, and a look-up that answered
"owned" saw a stored credential of the account it was asked about; `holders` only grows.

The modules update two fields of one function value by a nested EXCEPT, never by two paths of one
EXCEPT that share their index: tlapm 1.4.5 translates the latter as if the second had no effect.

| Theorem | Establishes |
|---|---|
| `EntitlementsProofs!Invariance` | The inductive invariant of the repository: stored events parse, every one has a validated root stored with it, and each overlapping ingest read a part of what is stored. |
| `EntitlementsProofs!TypeCorrect` | The repository state is well typed for every set of events and tasks. |
| `EntitlementsProofs!GrantAlwaysFirst` | No event of a grant is stored before a root of that grant, whatever calls overlap. |
| `EntitlementsProofs!OwnershipBacked` | Whoever owns a game by a grant has a root of it that was validated against an authorization or a campaign. |
| `EntitlementsProofs!OwnershipDoesNotReturn` | A grant that stopped giving ownership never gives it again. |
| `EntitlementsProofs!HistoryAgrees` | The purchase history, which groups the rows by campaign as well, never shows a grant as active that ownership reads as revoked. |
| `AcquisitionProofs!Invariance` | The inductive invariant of the acquisition commands: what is stored, and what each command holds between its awaits, was validated for the buyer it was started for. |
| `AcquisitionProofs!TypeCorrect` | The acquisition state is well typed. |
| `AcquisitionProofs!OnlyValidated` | Every stored receipt and grant root passed the validation of its kind. |
| `AcquisitionProofs!TokensFollowCredentials` | A download token is only ever stored when the buyer already has a credential of the developer of its listing. |
| `AcquisitionProofs!OwnershipEarned` | Ownership shown to a buyer rests on a stored, validated receipt or grant of that buyer for that game. |
| `AcquisitionProofs!ImplementsStore` | The acquisition commands implement the abstract CredentialStore: every write holds one validated credential or issues one token of a credential already held, and nothing is taken back. |
| `AcquisitionProofs!OwnershipKept` | A game that is owned stops being owned only when another receipt of the same order or another event of the same grant is stored. |
| `FileProofs!Invariance` | The inductive invariant of installs: reserved quarantine names are held by exactly one install. |
| `FileProofs!TypeCorrect` | The install state is well typed for any number of installs and slots. |
| `FileProofs!ReservationsAreHeld` | A quarantine name being filled belongs to one install only. |
| `FileProofs!QuarantineIsKept` | A finished quarantine copy is never overwritten or removed. |
| `FileProofs!RecordedAlwaysMatches` | With no other install of the game, the row is written while artifact.bin is the file it describes. |
| `FileProofs!RemovedAlwaysQuarantined` | With no other install of the game, artifact.bin is removed only after its content was quarantined. |
| `FileProofs!UploadsInvariance` | The inductive invariant of media uploads: what the service delivered is stored and is the file that was picked, requests, jobs and the dialog fit together, and what was given up can no longer be accepted. |
| `FileProofs!DraftAlwaysStored` | What the upload dialog puts into the draft is on the server, whatever is written to the file and whatever the server claims. |
| `FileProofs!PreviewAlwaysUploaded` | Unless a write kept length and modification time, the file in the draft is the one whose preview was made when it was picked. |
| `FileProofs!UploadingAlwaysPending` | The dialog never says Uploading for nothing, apart from what tasks of the past do to it. |
| `FileProofs!OnlyAwaitedAlwaysEnters` | A request that was cancelled, or outlived by a switch, another choice or a load, never reaches the draft. |
| `SessionsProofs!SignerInvariance` | The inductive invariant of the deferred signer: guards belong to the request at the statement that takes them, and before a client is kept nobody signs or reports Connected. |
| `SessionsProofs!SignerTypeCorrect` | The signer is well typed for any number of requests, and no guard outlives its request. |
| `SessionsProofs!ConnectedIsTrue` | The signer reports Connected only when it has a client, whatever handshakes overlap. |
| `SessionsProofs!SigningHasClient` | A request that signs finds a client; a failed handshake never takes it away. |
| `SessionsProofs!SessionsTyped` | Accounts, sessions, commands and background tasks are well typed for any sets of accounts, and only a row of the table is flagged active. |
| `SessionsProofs!ConnectingAlwaysPending` | The status Connecting is never left behind: a connect task that will replace it is running. |
| `SessionsProofs!AlwaysPublishedAsShown` | An event is signed only by the account that was shown when the publication began and was active after it was prepared. |
| `SessionsProofs!LoggedOutAlwaysOut` | After a logout nobody signs and nothing is shown until somebody logs in, across restarts, failures and deletions. |
| `SessionsProofs!AlwaysSignsAsShown` | Between commands whoever would sign is the account shown, nobody, or an account a background task activated, whichever steps failed. |
| `ChainProofs!TipsMatchReference` | The stored tip of an order is the one the chain rules pick, for every finite set of receipts, in whatever order they arrived. |
| `ChainProofs!RefundsAreFinal` | An order whose chain ends in a refund never gives ownership again, whatever receipts arrive later. |
| `ChainProofs!HistoryHonoursTips` | The purchase history never shows an order as active whose chain ends in a refund or a dispute. |
| `ChainProofs!ChainsResolve` | A publisher with one session that hears all its relays never publishes a campaign that fails to resolve. |
| `ChainProofs!ForksAreFinal` | A campaign that has forked, or has two roots, never resolves again, whatever is published by any number of sessions. |
| `ChainProofs!EarlierIsKept` | Publishing an event never changes whether its campaign was claimable in an earlier second. |
| `PublishingProofs!PublishingTyped` | The publication state is well typed for any devices, forms, relays and pages, whether or not forms are left while they publish. |
| `PublishingProofs!ListingsNamePublished` | A listing only ever names an authorization for its page that a relay has stored. |
| `PublishingProofs!RowsKnowRoots` | Once a relay has a root of a page, the device that signed it has a provisioning row for that page, of that root or a later one, except where a form was left while publishing. |
| `PublishingProofs!AuthorizationsKept` | An edit keeps the authorization of the listing it replaces or puts a newer one, and a form that opened a delegated listing keeps its fulfillment key, except with a listing it was told of by a form that was left on its device. |
| `PublishingProofs!FormsKeepTheirPage` | The listings a form signed that reached relays are of one page, the one it was opened for or the one minted for it, except after a listing it never heard of or with a listing of another form that was left on its device. |
| `PublishingProofs!OutcomesTruthful` | When a form says Failed, no listing of that attempt it was told of is on a relay; when it says Complete or Partial, the listing it knows or a successor is on one; when it says Complete, two relays have a listing of the page, and of a first publication this one or a successor. |
| `StorePagesProofs!TypesHold` | Editors, commands, relays, caches and views are well typed for any sets of devices, editors, games, pages and relays. |
| `StorePagesProofs!PointersHavePages` | A listing that points to a page follows a published version of that page which lists the game, however editors, retries and the game form interleave. |
| `StorePagesProofs!CompletionsLink` | A publication reported complete has put its page and an agreeing version of every listing of it on two relays, whatever was retried. |
| `StorePagesProofs!ViewsNeverGoBack` | A refresh that hears only relays that lag behind does not put an older page in the place of the one that is shown. |
| `StorePagesProofs!NothingReplacedTwice` | An editor never replaces a listing or its page a second time unless it lost the acknowledgement or a failed retry forgot the first. |
| `CheckoutProofs!Invariance` | The inductive invariant of the game page: its operation and the calls it waits for fit together, or the wallet has paid for a listing without a server and the page stays busy; so do the account shown and what the commands may answer. |
| `CheckoutProofs!TypeCorrect` | Signals of the page and calls are well typed for any accounts, invoices and number of calls. |
| `CheckoutProofs!OneOperation` | The page is busy only while a call is under way that will end it, except after the wallet paid for a listing without an ADP server; and it never has two payments, confirmations or claims under way. |
| `CheckoutProofs!PaidConfirmed` | What the wallet paid is confirmed for the invoice and the account that paid. |
| `CheckoutProofs!OwnedRecorded` | What the page newly calls owned is stored for the account shown, a 409 and a command that signed for another account aside. |

Only model-checked: `InstallEnds` and `RequestsEnd` (liveness, which is out of the prover's reach) and
the run of kind "violation".  Every other property of a passing run is proved.

## 6. Divergences found

* `lazy_deadlock` (core/src/signers/lazy_nip46.rs:112): A request that finished its handshake holds the write guard of inner while it waits for that of state, and a request on its way in holds state while it waits to read inner (line 94): both hang, and so does every later sign request that has no timeout of its own. The comment at src/core/src/signers/lazy_nip46.rs:139 bounds a deferred connection ("Shorter timeout for deferred connection") and line 77 says "Ensure connection is established (called before signing)".

Met while modelling and not kept as runs of their own:

* Of two overlapping pointer updates the later one drops the pointer of the earlier: fetching the
  listing, signing and publishing are separate awaits.  The comment at `adp_commands.rs:735` says "Merge
  the pointer into the latest listing instead of overwriting a concurrent edit."  One session
  at a time loses no pointer.
* `persist_purchase_confirmation` (`adp_commands.rs:1219`) never compares the `a` tag of a receipt with
  the listing the purchase is for and stores the token under that listing; `NIP-102.md:171` wants "The
  root `a` matches the claimed listing coordinate."
* After copying a corrupt artifact aside the code removes `artifact.bin` by name (`install.rs:153`), so
  an artifact another install renamed into place meanwhile is deleted without a copy, against
  `CODEBASE.md:2439`.  `RemovedIsQuarantined` holds for one install at a time.
* Deleting a remote account never disconnects `AuthState`: the deleted account still signs if nobody
  else is active, although `nip46_commands.rs:814-815` says "logout first".  Deleting any remote account
  clears the last-active entry, and deleting any local account ends the active session.
* `get_public_key` of a lazy signer answers from its configuration, without the handshake that
  `session.rs:93` expects of it, so the connect task reports Connected for a bunker nobody reached; and
  it reports after a logout too.  `docs/TEST_PLAN.md:199` says "Disconnected → Connecting → Connected;
  never skips states", while `connect_bunker` goes straight to Connected.
* The keyring index is pruned by comparing the user's key with the bunker's (`storage.rs:415`).
* `publish.rs:3435` offers to "deliberately choose another mode to replace the authorization", but
  `preserved_listing_tags` carries the authorization over in every mode.
* Progress events reach every form of the application (`publish.rs:2998`), and nothing keeps the user
  from leaving a form while it publishes: a form opened next on the same device takes the
  listing-coordinate of the earlier publication for its own, and its retry replaces the page of the
  other game, against `publish.rs:500` ("Identity of the listing this form is responsible for").  It may even
  keep another key than its own with such a listing, and of two roots the two forms sign for one page
  the older may stay in the provisioning row.  `FormKeepsItsPage`, `AuthorizationKept` and
  `RowKnowsRoot` except exactly these (`Left`, `Beside`).
* A retry forgets a known replacement: if a pointer was published but not confirmed and its retry fails
  (a relay answers with the listing from before), the outcome has no event id, `retryable_mutations`
  (`store_page_publish.rs:821`) passes none, and the next retry reports a conflict with the publisher's
  own replacement or, where relays have not seen that one, signs a second.  The design
  (`Arcadestr_Store_Page_Protocol_and_Enrichment_Design_v2.md:1055`) says that a retry only rechecks
  propagation "when its event ID is known".  `OneReplacement` excludes exactly these (`forgot`), and
  versions whose acknowledgements were lost (`unheard`).
* A cached page that no longer names the game is not a candidate of an enrichment
  (`store_page_discovery.rs:661`, `:870`), so an older answer of a relay that lags attaches the page
  again; the design (lines 587-590 and 644) lets cached and fetched versions compete and detaches the
  page.  `ViewNeverGoesBack` is what does hold.
* The design (line 1040) wants a listing "never silently overwritten"; an edit of the game form that
  lands between the fetch and the send of a pointer replacement is.
* The re-read before a replacement is published says "newer metadata is not overwritten"
  (`adp_commands.rs:1644`); signing and sending come after it, so another device's edit in between is
  replaced.  The confirmation counts relays that show any version of the page, where
  `ARCADESTR-ADP-CLIENT-INTEGRATION-v1.md:247` wants to "re-fetch the just-published listing from ≥2
  relays": an edit may be Complete while one relay has it and the other the version before.
  `OutcomeTruthful` promises two relays for a first publication only.  An attempt that failed may leave
  its authorization public, without a listing that names it.
* A delegated page can be edited only on a device that has its provisioning row, and no longer once the
  server has another key.

* Whatever upload command returns first clears the flag all requests share
  (`blossom_media_upload.rs:684`), so a retry that is just registering its listener returns silently
  (line 664) and the dialog says "Uploading" until it is cancelled.  The plan
  (`Arcadestr_Blossom_Media_Upload_Implementation_Plan.md:38`) wants that "concurrent or stale operations
  cannot consume each other's events".  `UploadingIsPending` excludes this (`crossed`).
* "Choose different file" clears the selection after its discard without asking whether it is still
  the one it discarded (`blossom_media_upload.rs:828`), unlike every other late step of the dialog: a
  file chosen meanwhile disappears from the dialog and stays registered until it expires.
* A discard that falls between the two registrations of an upload (`operations`,
  `blossom_commands.rs:714`, and `active`, `blossom_upload.rs:387`) removes the operation without
  cancelling it: the upload runs to its end and its blob is stored, though it no longer reaches the draft.
* A 409 of the ADP server is taken for "you own it already" (`game_detail.rs:1095`, as
  `ARCADESTR-ADP-CLIENT-INTEGRATION-v1.md:289` describes it) and the page says "Permanent access is recorded for the active account"
  (line 1937), but a server answers 409 to any proof it has seen: after an answer that was lost or
  could not be stored, nothing is recorded on this device, and the download that is offered is denied.
  `OwnedIsRecorded` excludes this, and the next case.
* The page remembers the account it showed, the command asks for the signer when it runs: while a
  switch begun in the settings is finishing, a confirmation signs and stores for the new account and,
  if its answer comes first, the page calls the old one the owner until it follows the switch.
* Once the wallet has paid, `confirm_with_preimage` returns early for a listing that yields no ADP server
  URL (`game_detail.rs:1053`), with an error message and without a change of the operation that
  `on_pay_nwc` set (line 1155): the page says "Please wait for the current operation to finish." (line
  256) with nothing under way until it is left, and forgets the preimage then.  Neither `on_buy` nor
  `select_primary_action` asks for a server before the invoice is paid.  `OperationAwaited` excepts
  exactly this (`Stranded`).
* A wallet answer that comes after the account changed, or after the 60 seconds of `nwc_client.rs:219`,
  is dropped with its preimage (`game_detail.rs:1166`): the invoice is paid, and only its buyer's wallet
  can still show the preimage that confirms it.  The invoice stays on the page and may be paid again.
* A failed or outrun ownership look-up leaves `purchase_confirmed` false (`game_detail.rs:893`), so the
  page offers an owner to buy; a download that was let go at a switch ends the next one of the same
  account when it answers (lines 1249-1260), as no attempt has an identity.
* A cancellation signed in the same second as its predecessor is published and reported as published,
  but `resolve_campaign_at` wants a strictly later `created_at` (`campaign.rs:322`) and ignores it;
  ADP-01 (`ADP-01-amendment-free-acquisitions.md:191-197`) names no such lower bound.
* Discovery resolves a campaign at `u64::MAX` (`campaign_discovery.rs:198`), so a fork published later
  makes it report no state for any time, while ADP-01 (line 213) considers only events up to the time
  asked about.
* The purchase history decides an order by its latest receipt (`ownership.rs:118`), where `NIP-102.md:141`
  wants the chain tip: an order with two competing roots is shown active although `is_owned` rejects
  it.  `HistoryHonoursTip` is what does hold.
* The install takes the first server with a cached token (`main.rs:1301`), while `CODEBASE.md:2437`
  says that only the first `server` tag is used.

## 7. Not modelled, and the plan

Order of the plan: what decides ownership first (done: grants, campaigns, receipts, acquisition,
install, the deferred signer), then what holds the keys (done: sessions), then what publishes (done:
the publish form and store pages), then what the buyer sees (done: the game page), then caches.

1. `ProfileFetcher`: the queue and its loop, which the Nostr client mutex makes sequential; that a
   batch without an answer does not end the loop for the batches behind it.
2. `Authorization`: the chain of replacements and cancellations of a fulfillment authorization.
3. Relay cache and manager, subscription registry; NIP-05 and marketplace caches; Blossom settings.
4. `Checkout` for public and timed listings, and the look-ups it takes as answered.

Where a later module asks a sharper question than a run that only documents a divergence, that
divergence moves to the prose of section 6.


Left out for good: rendering (`app`, `web`), event and JSON conversion (`nostr.rs`, parsing in
`marketplace.rs`, `store_page.rs`, `achievements.rs`), cryptography and key files (`storage/`),
the wire formats of payments (`lightning.rs`, `lnurlp.rs`, `nwc_client.rs`).  These keep no state that
steps of two actors contend for.

The hazards, with the line where each bites and the properties that cover it, are listed in
`PROJECT.json`.
