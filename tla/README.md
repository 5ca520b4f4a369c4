# Formal models of polar-sdk

TLA+ models of the concurrent, failure-prone and stateful parts of
`github.com/networkextension/polar-sdk`, the Go SDK that plugin services and
host agents use to talk to *dock*. TLC checks the models on small instances;
TLAPS proves the central safety properties for every value of the constants.

`PROJECT.json` maps every definition to the lines it models and lists the
components, runs, hazards, findings, mutants and theorems. Paths below are
relative to the repository's source.

## 1. Inventory

### Components

| component | source | state it keeps | operations | module |
|---|---|---|---|---|
| websocket hub | `wsbroker/broker.go` | `rooms` (workspace → user → set of clients), the `register`, `unregister` and `broadcast` channels | `Run`'s cases, `fanOutToUser`, `removeClient`, `closeAll`, `Broadcast`, `BroadcastUser` | WsHub |
| websocket pumps | `wsbroker/pumps.go` | per connection: the `send` channel, its `closed` flag, the connection | write, ping, read, close | WsHub |
| websocket admission | `wsbroker/auth.go`, `ServeHTTP` | none | token extraction, verification, workspace resolution, upgrade | WsHub |
| auth answer caches | `client.go` | `authCache`, `agentAuthCache` under `authMu` | `AuthVerify`, `AuthVerifyWS`, `AuthVerifyAgent` | AuthCache |
| OTA binary update | `selfupdate.go`, `selfapply.go`, `HeartbeatV2` in `client.go` | files: binary, `.bak`, temporary file | `HeartbeatV2`, `SelfApply`, `SelfUpdate`, `verifyReleaseSignature`, `copyFile` | Release, SelfUpdate, OtaLoop |
| OTA archive install | `selfinstall.go` | files: `versions/<v>`, the link `current` | `SelfInstall`, `safeJoin`, unpacking, `repointSymlink` | Release, SelfInstall |
| asset store | `extras.go` | dock's rows and the provider's blobs | `AssetUpload`, grant, PUT, `AssetFinalize`, `AssetDelete`, `AssetGet`, `AssetStat`, `AssetDownload` | AssetTransfer |
| profile caches | `extras.go` | two package-level `ttlCache`s | `UserGet`, `TeamGet` | ProfileCache |
| compute tasks | `compute_tasks.go`, `compute_tasks_lifecycle.go` | dock's rows, requests and callbacks under way | submit, list, get, release, pause, resume, cancel, priority, `VerifyDockCallback` | ComputeTasks |
| signed transport | `client.go` | none | `DoContext`, `readJSON` | in ComputeTasks: the stamp and the outcomes |
| scope checks | `client.go` | the memory behind a cached answer and its copies | `clone`, `HasScope`, `Unscoped` | AuthScopes |
| workflow binding | `workflow/workflow.go` | the memory behind a binding and its copies | column lists, `InsertArgs`, the two scanners, `IsBound` | TaskBinding |
| route catalog generator | `cmd/api-catalog-gen/main.go` | `visited`, the routes, the environments of the walk, contracts, two files | all of `main` | RouteCatalog, HandlerContracts, ApiCatalog |
| token and host issuance | `extras.go` | none in the SDK | `IssueAgentToken`, `IssueHost` | not modelled |
| agent enrolment, uncached wrappers, `PutManifest` | `extras.go`, `client.go` | none | one request each | not modelled |

### How they interact

* `ServeHTTP`, the pumps and publishers talk to the hub goroutine through
  channels only; the hub alone touches `rooms`. A client's `send` channel is
  closed by the hub and drained by the write pump; the connection is closed by
  whichever pump ends first, which ends the other.
* Admission and every other plugin handler ask the auth caches, which ask dock.
  The mutex is *not* held while the request is under way. The profile caches
  work the same way, except that all Clients of the process share them.
* `HeartbeatV2` brings an `UpdateDirective`; `SelfApply` hands it to
  `SelfUpdate` (a binary, which exits so that the supervisor restarts it) or to
  `SelfInstall` (an archive, whose entrypoint restarts the module). Both share
  the sha256 and signature gate that `Release` models.
* Asset bytes travel between the caller and a provider by a signed URL; dock
  only sees the grant and the finalize. A download falls back to a stream
  through dock.
* A compute task is submitted and driven by signed requests; when it has ended
  dock posts a callback to the path the submission named, which the plugin's
  handler checks with `VerifyDockCallback`.
* A cached answer of `AuthVerifyWS` reaches handlers as a clone, on which they
  ask `HasScope`.
* The catalog generator reads the source of dock or of a plugin and joins the
  routes it finds to the contracts of their handlers.

### What is hard, and what must hold

| component | hard behaviours | properties |
|---|---|---|
| hub, pumps | eviction of a slow consumer against its own unregistration, shutdown against everything, competing publishers, failed writes | `RoomsExact`, `GapFree`, `NothingLost`, `EventsArrive`, `EvictedIsReaped`, `ShutdownClosesRegistered`, `PublishedWhileRunning`, `ImplementsFeed`; not: `NoHubPanic`, `BroadcastReturns` |
| auth caches | answers stored late and out of order, revocation and expiry while a request is under way, the sweep | `AnswersTheQuestion`, `DeadSoonRefused`, `OverCapIsRecent`, `FreshIsKept` |
| OTA update | death between any two steps, overlapping calls and rollback copies, mixed-up directives | `BinIsWhole`, `BakIsPrevious`, `ImplementsUpgrade`; not: `VersionsAgree` |
| OTA loop | directives of earlier heartbeats, dock changing its mind, overlapping calls that install in any order | `Converges` |
| OTA install | leftovers of an attempt that died, partial files, two installers in one directory, errors that are dropped, reinstalling the live version | `OnlyVerifiedFiles`, `EntryRunsWhole`, `CurrentIsWhole`; not: `CurrentUntouched` |
| assets | lost requests and replies, retries, deletion in between, two uploads of one content, providers switched off and on or refusing what they hold | `AssetInv` (with `ReadyIsStored`), `UploadIsStored`, `DownloadIsServed` |
| profile caches | late replies, stale entries, the sweep | `StaleAtMost`, `OverCapIsRecent` |
| compute tasks | requests that take effect after their caller gave up, callbacks late, repeated, misdirected or altered, clocks that differ | `NilMeansDone`, `CallbacksSound` |
| scope checks | handlers that write into an answer, nil against empty, wildcards | `AnswerIsDocks`, `ScopesAsGranted` |
| workflow binding | one variable for many rows, reads that stop half-way, copies inserted again | `CollectedIsInserted` |
| catalog generator | a walk in map order with a shared visited set, names that several functions share, group middleware, expressions the analysis misreads, a failed write | `Sound`, `CompleteWhenCalledOnce`, `NoRecursion`, `AuthNotOverstated`, `EndpointsAreHandlers`, `FilesAgree` |

"Not" marks what a comment of the code promises and the code does not do: a run
shows each (section 5).

## 2. Modules

```
GoMap                  partial maps with Go's lookup, store and delete
EventFeed              abstract: what a subscriber is promised
WsHub                  the broker                 -> MCWsHub, WsHubProofs
AuthCache              both auth caches           -> MCAuthCache, AuthCacheProofs
Release                directives, signatures and the gate of both installers
Upgrade                abstract: what a self-updating module promises
SelfUpdate             the binary update          -> SelfUpdateProofs
OtaLoop                heartbeats around it       -> MCSelfUpdate
SelfInstall            the archive install        -> MCSelfInstall, SelfInstallProofs
AssetTransfer          uploads, downloads         -> MCAssetTransfer, AssetTransferProofs
ProfileCache           ttlCache and its callers   -+
ComputeTasks           tasks and their callbacks   +-> MCClientCalls, ComputeTasksProofs,
AuthScopes             cached scopes               |   ClientCallsProofs
TaskBinding            the workflow package       -+
RouteCatalog           collectRoutes
HandlerContracts       extractContract
ApiCatalog             main: both, the join       -> MCApiCatalog, ApiCatalogProofs
```

`WsHub` is checked against `EventFeed` and `SelfUpdate` against `Upgrade`, each
by an `INSTANCE` with a refinement mapping. `MC*` modules only give values to
constants and name symmetries, but for `MCClientCalls`: its four modules share
no state, so a behaviour of `ClientSpec` picks one `part` at the start and is a
behaviour of that module's own specification while the rest stands still. The
states are the union of the four, not their product.

### WsHub

The grain is one action per channel operation. `Register`, `Unregister`,
`Dispatch` and `HubStop` are the cases of `Run`'s select, guarded by
`HubSelects`: the hub selects only when no event is being fanned out. A
dispatched event leaves the connections it has yet to reach in `todo`, and
`Enqueue`, `Evict` and `PanicOnClosed` are the outcomes of the non-blocking
send to one of them; pumps, handlers and publishers run in between. Go's map
order is the choice of the next member of `todo`.

| variables | code |
|---|---|
| `hub`, `cancelled`, `crashed` | the `Run` goroutine, its context, a panic that ended the process |
| `rooms`, `queue` | the fields of `Hub`; `queue` is the broadcast channel |
| `outbox[p]` | a publisher inside its send on that channel |
| `handler[c]`, `ident[c]` | how far `ServeHTTP` is, and the `Client` it built |
| `send[c]`, `closed[c]` | the client's channel and whether it is closed |
| `writer[c]`, `reader[c]`, `connClosed[c]` | the pumps and the connection |
| `log`, `from`, `wire` | history: events dispatched, how many at registration, what was written |

One turn of a pump's loop is one action. Deadlines and network errors are
failures that may happen at any time. What dock answers to the verification is
part of the request. `GapFree`, `NothingLost` and the feed speak of `wire`, what
the write pump has handed to the connection. A panic of the hub ends the
process: its deferred `closeAll` runs and nothing else moves.

### AuthCache and ProfileCache

Time is a counter. `Hit` answers from a fresh entry; `Miss` sends the request;
`DockAnswers`, `Return` and `Fail` are separate, so that dock's verdict, its
arrival and the store happen at different times and for different callers in
any order. `Return` is one action because the code stores and sweeps under the
mutex. `AuthCache` keeps both maps in one function whose keys carry the kind;
the sweep counts the map that was written only. `expires_at` is left out of
dock's answer because nothing reads it; the token's expiry itself is modelled.
`Tick` lets no request outlive the HTTP client's timeout. In `ProfileCache` a
miss deletes the stale entry, as `ttlCache.get` does, and the freshness test is
`<=`, where the auth caches' is `<`.

### Release, SelfUpdate, OtaLoop and SelfInstall

An artifact stands for its bytes and its sha256; a signature stands for the
manifest that was signed. `Release!Verified` is the gate. `Blessed` is what may
ever be put in place: with a pinned key, the artifacts of signed manifests.

`SelfUpdate` has one action per step of the call, a failure for each step that
can fail, and `Crash` between any two. `Backup` and `BackupDone` split
`copyFile` at its truncating open, so that overlapping copies garble each
other: `mix` records what the last copies into `.bak` that overlapped were made
of. One that ends while another is under way may find the file truncated, and
when they were made of different binaries, the bytes of one may stay among or
behind the other's; both leave `Torn`, possibly. A copy that breaks off
(`BackupFails`) leaves what it has, and the call goes on without a rollback
copy of its own, as the code ignores the error. `BakIsPrevious` says what
selfupdate.go:49 promises of `.bak`, for a call whose own copy succeeded and was
not disturbed: the binary that its rename replaces is the one kept. `Restart` is
the supervisor: it restarts what ended unsuccessfully.

`OtaLoop` is the loop around it. `Beat` is a heartbeat that reports the version
of the running image and brings back dock's directive, its URL made absolute by
`Resolved`; `Applies` is `SelfApply`; `DockOffers` lets dock change its mind at
any time, so a directive acted on may be an old one. A process that dies loses
its answers.

`SelfInstall` unpacks entry by entry. An entry has a name (a file of the
archive, its root, or one that `safeJoin` refuses) and a kind (a file, one
longer than `maxArchiveEntryBytes`, a directory, a link, a fifo or device).
`Clear` (RemoveAll then MkdirAll) succeeds in one action, `ClearFails` stops it
at any subset; `UnpackFails` leaves a torn file and ends the call;
`ZipCloseFails` leaves one and does not, because `unpackZip` drops the error of
Close, and an entry that is too long is cut off without an error. Installers
are processes and nothing locks the directory: `shared` records that another
one is, or was since the clearing, inside. `SelfInstallFails` is any other
error or the installer's death. `disturbed` is history: the live version's
directory was cleared since `current` was pointed at it, or shared. `Holds` is
the reference definition of what the first entries of an archive leave in an
empty directory.

### AssetTransfer

Callers go through grant, PUT and finalize, or through grant and metadata when
dock has the content. `ReplyLost` carries a request out and fails the caller,
`Fails` does not carry it out. Dock's rows and the provider are external, and
modelled from what the calls expect: a grant finds or makes the row of what is
uploaded, and a blob goes with the last row that names it. A download asks for a
URL, fetches from the provider, and on any error of the first request streams
through dock; a refusal by the provider or by dock is returned as a response. A
provider may refuse what it holds (`Fetch`: an expired URL, a failure of its
own), and the code does not fall back then. `DownloadIsServed` therefore says
which refusals there are and that bytes, by either way, are the row's.
`DockSwitches` turns providers off and on. An upload that meets a dock without
one skips its PUT and is exempt from `UploadIsStored` (section 5), but what it
leaves must not make another row ready or a download wrong.

### ComputeTasks

`Call` is `DoContext`: it stamps the request with the plugin's clock, `skew`
off dock's. Requests stay in `wire` until dock takes them, in any order or
never; the goroutine of a call may give up (`Fails`) while its request is still
there. `Returns` is a nil error. `told` keeps what such calls said where it is
meant to last: a pause may be followed by a resume, a cancel may not be
followed by anything. Dock's rows and the transitions that the calls' comments
name are external. `Arrivals` is everything a posted callback may arrive as;
`VerifyDockCallback` is evaluated on all of them in every state. A signature
stands for its key, method, path, timestamp and body.

### AuthScopes

The three pointers of an `AuthVerifyResult` lead to cells of memory. `Clone`
takes new ones; the decoded answer of a miss goes to the caller and its clone
into the cache, and a hit gives a clone away. `Edits` is a handler that writes
through a pointer. What no pointer reaches is free again. A verification needs
free cells for every field of its answer that is not nil (`Free`). Ages are
left out: an entry `Expires` at any time.

### TaskBinding

`InsertOwn` and `InsertCopy` are a plugin's INSERTs through `Columns` and
`InsertArgs`; `ReadRow` is a SELECT of `ColumnsPrefixed` scanned into one
variable, whose pointers move from cell to cell, and which may stop after any
column. `meant` and `collected` are history.

### RouteCatalog, HandlerContracts and ApiCatalog

A program gives each function its parameters and a body of statements: a group
assigned to a variable, in the form the tool reads or in another (`unseen`), a
`Use`, a route, or a call with arguments. An expression that stands for a group
is a variable, a selector (`s.router`, but also `p.db`) or a chained call
`r.Group(path, ...)`. A path is what the tool reads of it, and what gin makes of
it. `stack` is the recursion of `collectRoutes`, `visited` the shared set, and
the order in which functions are walked is free, as it is for a Go map.

The walk reads as the code does: a receiver that is no known variable is the
root (`PrefixOfReceiver`), a helper is followed with the prefix of its first
argument, which any selector is taken to have (`ArgGroupPrefix`, `HelperEnv`),
whichever parameter is its group (`GroupParam`), and a route is listed if its
path reads as a literal with a leading slash (`HasSlash`).

The reference does not: `Registered(g)` are the routes that package `g`
registers when it runs, under gin's paths and with all the middleware before
them, with every argument of every call bound to its own parameter, chained
calls made, and names that the package did not assign holding what `g.outer`
says (`GroupOf`, `After`). A *context* is a function with the groups it starts
with; `Contexts(g)` are those the program can get into, `EnvAt(g, c, k)` the
groups before statement `k` of context `c`.

The two differ in packages that the tool misreads (section 5), and the run has
such packages: `Sound` and `CompleteWhenCalledOnce` fail there without their
hypotheses. `Plain(g)` is the style in which they hold, stated on the text of
the package and not on what the walk does with it: groups, listed routes and
calls of helpers have variables assigned before or names of the root as
receivers (`ReadsRight`), paths are literals as gin has them (`ReadsPath`), and
helpers take the group first. `CompleteWhenCalledOnce` is about packages whose
helpers are called in one context and with a first argument that is followed
(`ArgumentsFollowed`). It is not enough that the variable has a meaning in the
program: after `adm.Use(...)` on a group kept elsewhere the call `regB(adm)` is
not followed, because only an assignment from `Group` makes a prefix known
(`main.go:394`). `AuthNotOverstated` is claimed for every package: outside the
style it compares with the routes of the same handler.

`HandlerContracts` has no state: `ExtractContract` runs the two walks of a
handler over its statements, and `IsContractOf` says what the contract has to
be. `ApiCatalog` is `main`: parse, collect, walk, join by the handler's name,
and write two files, each of which may fail and be left cut short.

## 3. Runs

| run | instance | distinct states | shows |
|---|---|---|---|
| `hub_safety` | 2 connections, 5 kinds of request over 2 workspaces and 2 users, 1 publisher, 3 events, channels of depth 1 | 2.1 M | exact rooms, gap-free feeds, nothing lost, the inductive invariant (types included) |
| `hub_live` | 1 connection, 2 publishers, 4 events, channels of depth 1, fairness | 5.8 k | refinement of `EventFeed` and the liveness properties |
| `panic` | 1 connection, 1 publisher, 3 events, channels of depth 1 | violation | `NoHubPanic` fails |
| `broadcast_blocks` | 1 connection, 1 publisher, 2 events, fairness | violation | `BroadcastReturns` fails |
| `auth_cache` | 2 callers, a session token with and without a hint, an agent token, window 2, timeout 1, cap 1, clock to 5 | 3.4 M | the cache's properties and its inductive invariant |
| `self_update` | 2 callers that heartbeat, 4 artifacts, 2 signed releases, relative and absolute URLs, fairness | 253 k | binary and rollback copy, the inductive invariant, refinement of `Upgrade` with its liveness, convergence |
| `update_version` | 1 call, 1 mislabelled directive | violation | `VersionsAgree` fails |
| `self_install` | 2 installers, 5 archives (tar.gz and zip, a long entry, a name outside, a missing entrypoint), 2 versions | 1.1 M | directories, entrypoint and link, the inductive invariant |
| `install_again` | 1 installer, no pinned key, 1 release | violation | `CurrentUntouched` fails |
| `asset_upload` | 2 callers, 2 names, 2 contents, 4 rows | 1.3 M | rows, blobs and calls agree (the inductive invariant), what uploads and downloads return is true |
| `client_calls` | profiles: 2 callers, 3 ids, window 2, timeout 1, cap 1, clock to 6; tasks: 2 calls, 3 ids, 1 callback, skews -1 and 1, window 1, clock to 2; scopes: 2 readers, 4 grants, 5 scopes; bindings: 2 rows, 2 copies | 556 k | age of profiles, truth of nil errors and callbacks, isolation of answers and bindings |
| `catalog` | packages of 2 set-up functions and 2 helpers: in the style the tool reads, with group middleware, groups known and unknown; outside it, with chained receivers, selectors that hold a group or none, declared groups, constant paths and paths without a slash, helpers whose group is the second parameter or one of two; and with methods of two receivers | 39 k | routes, labels, contracts and files of the catalog |

Bounds, and why they are enough:

* `MaxEvents` bounds the events of a behaviour; with channels of depth one,
  three events make a consumer slow, evict it, and dispatch again afterwards.
  Two connections are enough for one to suffer for the other, in one room or
  in two. The theorems of section 4 have no such bound.
* `MaxTime` reaches a token's end plus window plus timeout, the longest history
  the properties of the caches speak of, so that every bound can be missed.
  A cap of one makes the sweep frequent.
* Two overlapping updates are enough for each to disturb the other's rollback
  copy, and for an older directive to be installed over a newer one. Copies of
  *different* binaries overlap only with a third call (one copies, one renames,
  one copies again); `UpdateInvariant` and `UpdateKeepsPrevious` are proved for
  any number. Two installers are enough for a
  shared directory; `InstallInvariant` is proved for any number, and for any
  archives.
* Of the compute tasks, two calls and a row that is there already are enough
  for a late request to meet a later one on the same task; the clock reaches
  both ends of a window of one tick for both skews. The theorems have no bound.
* `MaxCells` of the bindings and the cells of the scopes are more than a
  behaviour with the given rows, copies and readers can use, so that in the run
  memory never hides a step. The theorems hold for any memory, a full one too:
  there a verification waits.
* `MaxAssets` bounds catalog ids: four are enough for both names of both
  contents, or for deletion and re-creation.
* Clients, callers, names, contents and ids are interchangeable where a run
  uses symmetry; no run with liveness does.

`CHECK_DEADLOCK FALSE` is stated for the broker, which really stops (a stopped
or crashed process with nothing left to do), for the catalog generator, which
ends, and for `client_calls`, whose bounded parts end when the calls, the clock
or the rows are used up.

Every property of a passing run has a mutant: a plausible mistake in one mapped
definition that makes the run fail. The "Broken variant" operators in the
modules are these; no specification uses them.

### Fairness

`WsHub!FairSpec`: Go's `select` chooses at random among the ready cases, so a
case that is ready again and again is taken: strong fairness for the hub's
cases, and for the senders that compete for room in the channel (Go queues
them). A goroutine that stays runnable runs: weak fairness for the pumps, the
fan-out and the end of a handler; writes have a deadline, and reads on a closed
connection fail. Nothing obliges requests, calls, cancellation or network
failures to happen.

`SelfUpdate!Spec`: a goroutine past its rename calls `os.Exit`, and the
supervisor restarts what failed. Nothing else is assumed; in particular neither
downloads nor directives are bound to happen.

`OtaLoop!LoopSpec` adds that the heartbeat's timer goes on and that every call
ends, as all its requests have timeouts: weak fairness of each caller's next
step, whatever it is, and of the restart. It does not say that a step succeeds;
a failed one is a step too. `Converges` therefore has two hypotheses that a
reader should weigh: dock settles for good on a complete release that passes
the gate and reports the version it is offered as (a binary that reports
another version is offered, installed and restarted for ever), and from some
time on nothing goes wrong (`Trouble`: the process does not die before its
update is done, a sound call does not fail, storage serves what is named).
Calls that were begun with older directives may still do what they like.

The other modules state no fairness and claim no liveness.

## 4. Proofs

Every safety property that a passing run checks is a theorem as well, for every
value of the constants that satisfies the named assumptions of the modules:

* broker: channel depths of at least one, the empty string neither a workspace
  nor a user, finitely many publishers, well-formed requests and calls;
* caches and tasks: a window of at least one tick, and the like;
* OTA: directives and signed manifests of their types, a deployed binary that
  is one, torn bytes that are none; entries of an archive of their types;
* scopes: cells have addresses other than 0, a scope is a non-empty sequence of
  parts (`ScopesAssumption`); the bindings need no assumption;
* catalog: a package that parses (`ProgramsAssumption`, `StructsAssumption`,
  `MethodsAssumption`): finitely many functions, parameters of different names,
  bodies of the five kinds of statements, calls of functions that are there with
  as many arguments as they take, named fields, and, as Go's compiler demands,
  one method of a name for a type.

| module | theorem | establishes |
|---|---|---|
| WsHubProofs | `HubInvariant` | `Spec => []HubInv` |
| | `HubTypes`, `HubRooms`, `HubGapFree`, `HubNothingLost` | the properties it implies |
| | `HubImplementsFeed` | `Spec => ImplementsFeed`: every step of the broker is a step of `EventFeed` or a stutter |
| | `HubPanicsOnlyByEviction` | `Spec /\ [][EvictsNobody]_vars => []NoHubPanic` |
| AuthCacheProofs | `CacheInvariant`, `CacheTypes` | `Spec => []CacheInv` and the types it contains |
| | `CacheAnswers`, `CacheRevocation` | no crossed answers; refusal within window plus timeout of revocation or expiry |
| | `CacheOverCapIsRecent`, `CacheFreshIsKept` | what the sweep leaves, and that it never takes a fresh entry |
| ClientCallsProofs | `ProfileInvariant`, `ProfileStaleAtMost`, `ProfileOverCapIsRecent` | profiles of the id asked for, at most window plus timeout old; the sweep |
| | `ScopesInvariant`, `ScopesAnswerIsDocks`, `ScopesDecideAsGranted` | `ScopesSpec => []ScopesInv`; answers are dock's until edited; `HasScope` decides as granted |
| | `BindingInvariant`, `BindingCollectedIsInserted` | `BindingSpec => []BindingInv`; collected bindings keep the row they were read from |
| | `ClientInvariant` | `ClientSpec => []ClientInv`: the four parts side by side, as the run checks them |
| AssetTransferProofs | `AssetInvariant`, `AssetReadyIsStored` | `Spec => []AssetInv`; ready rows have their bytes |
| | `AssetUploadIsStored`, `AssetDownloadIsServed` | what uploads and downloads return |
| SelfUpdateProofs | `UpdateInvariant`, `UpdateTypes`, `UpdateKeepsBin`, `UpdateKeepsPrevious` | `Spec => []UpdateInv` and what it implies, for `BakIsPrevious` of each step |
| | `UpdateImplements` | every step of `SelfUpdate` is a step of `Upgrade` or a stutter |
| | `LoopInvariant`, `LoopKeepsBin`, `LoopKeepsPrevious`, `LoopImplements` | the same of `LoopSpec`, which the run checks: the loop takes only steps of `SelfUpdate` |
| SelfInstallProofs | `InstallInvariant` | `Spec => []InstallInv` |
| | `InstallWritesVerified`, `InstallKeepsCurrent`, `InstallRunsWhole` | nothing unverified is written, `current` is whole, entrypoints run beside their archive |
| | `InstallApart` | `Spec /\ [][Apart]_vars => []~ disturbed /\ CurrentUntouched` |
| ComputeTasksProofs | `TasksTypes`, `TasksNilMeansDone` | types; what nil errors said stays true |
| | `TasksCallbacksSound` | accepted callbacks are true of their task and on time |
| ApiCatalogProofs | `RouteInvariant`, `GenInvariant` | `Spec => []CatalogInv`, `GenSpec => []GenInv` |
| | `CatalogIsSound`, `CatalogIsComplete`, `CatalogNoRecursion`, `CatalogAuthNotOverstated` | the routes: in packages of the style real, and all there when helpers are called once; in all packages found by a walk that ends, and not claimed to be guarded more than they are |
| | `CatalogEndpointsAreHandlers`, `CatalogFilesAgree` | contracts of handlers of any length; the two files |

**HubInv.** `GapFree` speaks of the wire only, and a write extends it from the
channel; so the invariant says that wire and channel together (`Stream`) are a
gap-free run. The hub extends the channel with the event being fanned out, so
`FanOutOK` says that this event is the log's last and addressed to every
connection in `todo`, and `StreamOK` that a connection in `todo` does not hold
it yet. That `todo` stays within the registered connections needs `RoomsExact`
and `Phases`, and needs the hub not to select during a fan-out. A connection
that is not in `todo` has missed nothing because `NothingLost` holds up to
`Reach`; once evicted it gets nothing more. There is one lemma per action.

**ImplementsFeed.** A write takes the head of the channel; that it is the first
event the feed owes is `GapFreeRun` of wire and channel together, which
`HubInv` has: an owed event before it would be in the run, and so on the wire
already. Joining is a registration, for which the connection must still be
open, a second invariant (`OpenUntilJoined`); a pump's exit ends one
subscription and a panic all of them.

**No panic without eviction.** The run `panic` shows that the hub can panic;
the theorem says that evicting a slow consumer is the only way to it. Channels
are closed in three places. Unregistering takes the connection out of the rooms
first and leaves its reader past that point, and shutdown ends the hub, so of a
running hub that has evicted nobody every closed channel belongs to a connection
that has left (`ClosedHaveLeft`); the connections still to be reached by an
event are in the rooms by `FanOutOK`.

**CacheInv.** `DeadSoonRefused` is not inductive: it depends on when the answer
given out was issued. The invariant dates each answer: issued before its
token's end, stored at most `Timeout` after being issued (the request that
brought it was sent before, and none outlives its timeout), hit less than `TTL`
after being stored. The bound is therefore 45 s and not the 30 s of the window.

`ProfileInv` is the same argument for `ttlCache`, whose test is `<=`, so that a
profile is up to and including 45 s old. The two sweep theorems are inductive
on top: a sweep leaves what is not older than the window, and a fresh entry is
not.

**AssetInv.** A row is made ready by a finalize, or by a grant because another
ready row names the content. The first needs that the bytes stored by the PUT
are still there although rows were deleted in between; so the invariant says of
each call that its row, if not deleted, is of the call's content, and stored
once the PUT is done. Ids are never used again, so a deleted row stays away,
and a blob goes only with the last row that names it (`RowsGoOn` says all this
of one step, once, and every action is a case of it).

**UpdateInv.** Past the gate a call's temporary file is what its directive
names and is blessed, so a rename keeps `BinIsWhole`; a dead process has no
calls and ended in failure, so that a restart is possible. `BakIsPrevious` speaks
of a rename; that the rollback copy is the binary then needs to hold since the
copy was made, while other calls copy, fail and end. `BakInv` says it: until a
call of this process has replaced the binary, every copy under way or done by a
call that is still there is of the binary, so are all that overlapped with the
last one, and if none broke off and none is under way, `.bak` is it. A copy that
begins alone starts a new `mix`; a death takes the calls with it, so that a copy
of the last life disturbs none of the next.

**InstallInv.** `EntryRunsWhole` speaks of the moment after the last entry; the
invariant says of an installer that is alone in its directory that what is
there is exactly what the entries it has passed leave (`Holds` up to `next`),
and one lemma shows that writing an entry takes `Holds` from n to n + 1, since
of entries with one name the later wins. `current` stays whole because an
installer that is inside the directory it resolves to has set `disturbed` when
it cleared it. `OnlyVerifiedFiles` needs none of this: an archive is blessed
once it is past the gate.

**Installers apart.** The run `install_again` shows that a failing install can
touch what `current` resolves to. `InstallApart` says what is missing for the
comment to be true: installers that begin only with a version that is not the
live one (`Apart`; the code checks nothing of the kind) and that no other
installer is at. Then no installer under way is ever in the
directory of the live version or in that of another, and the conditions on
`disturbed` and `shared` in the properties above are always met.

**Compute tasks.** `NilMeansDone` is about replies that were read; the
invariant says it of every reply under way as well, from the moment dock made
it, and that dock's transitions keep each of these facts: a row's owner and ref
never change, and a final status is final. A callback is signed for a row that
is final, so what it says stays true.

**ScopesInv.** `AnswerIsDocks` is about answers nobody has written into, and
is not inductive: that a write does not reach another's answer, nor the next
hit, needs that no two answers, and no answer and the entry, share a cell, and
that the entry reads as dock's answer. A clone takes cells outside of those in
use, so both stay true, also when an entry expires and its cells are free again.
The proof found what the first form of the model did not say: with no cells
left there is nothing to choose, so a verification now needs that `Free` is not
empty. `ScopesDecideAsGranted` adds that `Covers`, which looks at the grant's
parts from the end, is membership in the list of what covers a scope, whatever
the number of parts.

**BindingInv.** `Reads` says of a memory and a binding that each column reads
as the row's value, and that a pointer that is not nil reads a value that is not
null (from which `IsBound` follows). Scanning only appends to the memory, so
what copies point at never changes, and after n columns the first n of the
variable read as the row. An insert of a copy writes what the copy reads, which
is what was meant, so the table is always what was meant.

**ClientInv.** The parts share no variable, so a behaviour of `ClientSpec` is a
behaviour of each part's own specification, in which the part either moves or
stands still (`ClientParts`); the four inductive invariants follow together.

**CatalogInv.** The walk knows less than the program: prefixes and no
middleware, one visit of each helper. The invariant relates each frame of the
stack to a context c that the program really has: the frame's variables are
exactly those an assignment before this statement or the parameter gives
(`Known`), and in a package of the style every name that is not hidden from the
tool has, in the program, the path that the walk takes it to have (`Agrees`;
names the walk does not know count too, as the program may give them middleware
and the root's path). Behind a frame every helper called with a first argument
that is followed has been visited, and in a package of the style every named
route with a literal path is in the catalog (`HandledTo`). A helper is followed
from a frame of c; if its group is its first parameter, the path agrees with the
prefix it is given, and the new frame walks the context of that call. `Contexts`
are the calls nested at most as deep as there are functions; that the frame's
context is among them is `NoRecursion` (a stack without repetition is no
deeper), which needs that a function on the stack is a helper that was visited
or a function no longer to do, of which neither is entered again. All this holds
of any package; the conditions of the style are needed where paths are compared,
and there only. A route was found by a frame, so one with its handler is
registered in the frame's context, with the middleware of its call and more
(`Listed`, from which `AuthNotOverstated` follows), and under its path if the
package is of the style (`Sound`). For completeness a walk that returns leaves
its function `HasWalked`; at the end every function that is no helper was, and
by induction over the depth of calls so was the function of every context. If a
helper has one context only, that is the one it was walked in. Without the
condition on its arguments completeness is false: proving it showed that the
condition had been too weak (section 2), and TLC confirms that the earlier one
fails for the package of the run that calls `regB(adm)` with a group it did not
make.

**GenInv.** What each step of `main` leaves behind: contracts after parsing,
endpoints after the join, and which files hold them. `ExtractIsContract` is
about one handler, by induction over its statements: after i of them the
parameters are what the first i calls read, each once, and the body is that of
the last bind among them; the type that the first walk gives a variable is that
of its only declaration. `CollectContractsAre` is the same for the methods of
the package.

These proofs use induction over the natural numbers for formulas that depend on
the model's functions. The library states induction with an operator as a
parameter, which no installed prover instantiates; `NatInduct` of
`ApiCatalogProofs` therefore takes the *set* of the numbers with a property, and
is derived from the well-foundedness of the natural numbers. The recursive
functions of the catalog (`EnvAt`, `UpTo`, `FieldsOf`, `LocalVars`,
`ExtractContract`, `CollectContracts`) are unfolded by such inductions too, one
lemma each.

Only model-checked, because the prover has no rule for them: all liveness
(`EventsArrive`, `EvictedIsReaped`, `ShutdownClosesRegistered`,
`PublishedWhileRunning`, `Converges`) and the fairness half of
`ImplementsUpgrade`. That the conditions of conditional theorems are met by real
behaviours (packages whose helpers are called once, callers that have not
edited their answer) is seen in the runs: the mutants break these properties
under the runs' own configurations.

## 5. What the code does and its comments do not say

Shown by a run:

* `panic`: `fanOutToUser` closes a slow consumer's channel but leaves it in
  `rooms`; the next event for it, before its pumps have unregistered it, sends
  on the closed channel and panics the hub goroutine, which nothing recovers.
* `broadcast_blocks`: `Broadcast` "never blocks" says its comment; it blocks on
  a full channel, and for ever once `Run` has returned.
* `update_version`: the signature check compares the manifest's sha256 with the
  directive's, and not the version that its comment names.
* `install_again`: installing the version `current` points at clears the live
  directory first, so a failure does not leave `current` untouched.

Seen while modelling and described here only:

* After `Run` returns nobody receives from `register` and `unregister`:
  `ServeHTTP` of a connection upgraded but not registered, and the read pumps
  of connections open at shutdown, block for ever (`broker.go:316`,
  `pumps.go:28`). `ShutdownClosesRegistered` holds because the write pumps
  close the connections.
* `BroadcastUser` with an empty user id reaches the whole workspace
  (`broker.go:155`).
* The auth caches never read `expires_at`; `DeadSoonRefused` bounds by how much
  a token outlives it.
* The rollback copy of `SelfUpdate` is best effort: a copy that fails half-way
  has already truncated the previous one, and the update goes on
  (`selfupdate.go:134`). When another call has renamed and not yet exited, a copy
  may also be of the *new* binary, contrary to the comment at
  `selfupdate.go:49`, and copies of different binaries may garble each other.
  The conditions of `Rollback` are these cases.
* `AssetUpload` against a dock without providers skips the PUT and returns the
  pending row without an error (`extras.go:1109`); `AssetDownload` returns
  whatever status the provider answers, so that a ready asset is refused when
  its URL has expired or the provider fails, although dock could stream it
  (`extras.go:974`).
* `unpackZip` drops the error of a file's Close (`selfinstall.go:324`), which
  `unpackTarGz` returns, and writes a zip's symbolic link as a file where a
  link in a tar is refused (`selfinstall.go:279`).
* The profile caches are package variables keyed by the bare id, so Clients of
  two docks in one process mix their profiles (`extras.go:429`).
* `IssueAgentToken` fails after a timeout although dock may have recorded the
  row, so the rollback its contract asks for makes the tables differ
  (`extras.go:681`).
* A helper called with two prefixes is walked once per package, so the routes
  under the second prefix are missing from the catalog (`main.go:345`):
  `CompleteWhenCalledOnce` says when it is complete.
* The catalog has wrong paths, or lacks routes, where the tool misreads a
  package; `Plain` excludes these and the run contains them. A receiver that is
  no variable is the root, so the routes of `r.Group("/api").GET("/x", h)` and
  of a group kept in a field are listed without their prefix (`main.go:391`), as
  are those of a group that a `var` declaration or a multiple assignment made
  (`main.go:325`). A helper is followed with any selector for the root, and with
  its first argument whichever parameter is the group, so
  `register(p.db, api)` is walked as if `api` were the root, and
  `register(db, api)` is not walked (`main.go:346`, `main.go:400`). A route whose
  path is a constant, empty or without a leading slash is left out
  (`main.go:337`), and a group's prefix that is a constant is lost
  (`main.go:329`).
* Middleware given to `Group` or `Use` is not seen, so a route guarded by it is
  labelled `""`, which a comment explains as open (`main.go:52`); the label
  "plugin-hmac" of that comment is never produced. `AuthNotOverstated` says
  that labels err on this side only. Of two registrations with the same method,
  path and handler the first in map order gives the label.
* A struct field declared as `A, B string` gives one entry in a contract
  (`main.go:281`), and the last `var` of a name in a handler gives its type for
  all scopes (`main.go:208`): the contract's body is exact otherwise.
* The second catalog file is left as it was when writing the first fails, and
  the first is the new one when writing the second does (`main.go:118`).

## 6. Assumptions and limits

* The SDK has no lock on `destRoot`. `EntryRunsWhole` and `CurrentIsWhole` are
  claimed for a version directory that only one installer was in;
  `OnlyVerifiedFiles` for any.
* A crash is the death of a process, not a loss of power: what was written is
  there afterwards. The code syncs nothing.
* `safeJoin`'s rules for paths are abstracted to the three kinds of names; a
  symbolic link already below the version directory is not modelled (nothing
  unpacks one). What an install script does is not modelled: the properties
  speak of the archive's own files, and hold after the script ran if it leaves
  these alone. (The script of the happy-path test adds two files of other names
  to the directory.)
* RemoveAll and the MkdirAll after it are one step when both succeed.
* Dock, providers, supervisors and networks are environments, modelled from
  what the calls expect of them; the definitions are marked external.
* Functions of a package have distinct names in `RouteCatalog`, and so have
  selectors and variables. Every function that takes no group is assumed to run,
  once. `Use` on a group reaches the name it is called on, not another name of
  the same group, nor the caller's from within a helper: the reference may have
  less middleware than gin, never more. Methods named `GET` and the like are
  gin's. Go's parser is
  external, and the order and the layout of the catalog's JSON are left out.
* A scope is the sequence of its parts, so `HasScope`'s prefix test is one on
  sequences.

### Not modelled

`IssueAgentToken`, `IssueHost`, `AgentRegister`,
`EnsureWorkspaceAgentPoolProxyToken`, `CreateBotForAgent`, `LLMConfigGet`,
`BotUserGet`, `ChatThreadGet`, `AgentDispatch`, the billing records,
`AssetDownloadURL` and `PutManifest` validate their arguments, make one request
and decode one reply. They keep no state, and what their docs promise (two
tables that agree, idempotent registration, roles in force) is done by dock and
by plugins outside the repository, so a model of them would be a model of code
nobody can compare it with. The signature of requests is checked by dock only;
`DeriveHMACKey` is one hash.

## 7. Plan

Done: every module of section 2, its runs, and the theorems of section 4.

Left, in this order:

1. `AuthCache` and `ProfileCache` share their argument: one abstract
   specification of a cache of answers that are at most so old, and both shown
   to implement it.
2. `ComputeTasks`: that the calls and the fleet take dock's rows through each
   status at most as the comments of the calls say, as an action property.
