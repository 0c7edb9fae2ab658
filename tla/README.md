# OpenMPTCProuter VPS: a verification project

TLA+ models of the server side of OpenMPTCProuter (`src/`), TLC configurations
that check them on small instances, and proofs that TLAPS checks for every value
of the constants. Line numbers are those of the files under `src/`.

## The system

A VPS ends the tunnels of OpenMPTCProuter routers. Routers and administrators
drive it through the HTTP API of `admin/omradmin.py`. FastAPI runs the plain
`def` handlers in a thread pool of each of two uvicorn workers (6697, 6641-6672),
so any two handlers interleave step by step; the `async` ones, which keep their worker's
event loop, only read, but for those of the metrics router (`omr_metrics.py`). Nearly
all state is in one JSON file without a lock, in the kernel, and in the
configuration files of the VPN and proxy services. Around the API there are a
timer-driven helper (`wg-remote-lan-route`), a watchdog (`omr-service`), tunnel
scripts, the static firewall (`nftables/omr.nft`) and the installer.

### Components

| Component | State | Operations | Talks to | What is hard | What makes it correct |
|---|---|---|---|---|---|
| Configuration store (`read_omr_config`, `modif_config_user`, `set_global_param`, `add_user`, `remove_user`, `check_username_serial`) | `omr-admin-config.json` and its dated copies | read; read-modify-copy-truncate-dump | every handler; the WireGuard helper | no lock: lost updates, readers in the truncate/dump window, overlapping writers, death in the window | the file parses unless a write was cut short or overlapped; nothing writes over a broken file; userids are unique; the primary account stays; every write is one change of a stored document |
| WireGuard remote LAN gate (`wg-remote-lan-route`) | saved permission, nftables set, policy table 24612 and its rule, MQVPN routes | `--refresh` (timer), `--allow`, `--deny` (API) | configuration, `ip`, `nft`, MQVPN's socket | each command may fail; the API kills the helper after 10 s; the timer overlaps requests; `flush ruleset` | an open gate is a saved permission; it shows the configured LANs once their routes are ready; it is shut, or restored, in the end |
| MPTCP settings (`POST /mptcp`, startup) | sysctls, NanBBR parameters, `90-shadowsocks.conf`, `nanbbr-var.json`, a lock file | lock, snapshot, set and read back, save, roll back; re-apply and repair at startup | kernel, files | ten writes, each of which may fail or read back another value; startup does not take the lock | all or nothing; the saved settings are the live ones |
| nftables engine (`_fw_port_*`, `_nft_sync_*`, `_nft_resync_all`) | the dynamic chains of `inet omr` | save a change, render what is read next, replace a chain | configuration, `nft`, nftables.service | two transactions for the ports; renderings overtaken by writes; reloads; two workers starting | the chains show the saved configuration |
| VXLAN and 6in4 tunnels (572-663, 5059-5199, `/vpnips`) | VNI, port and addresses per user; files in `omr-vxlan/`; kernel devices | assign, enable, write the unit's file, start and stop the unit | configuration, kernel | checked on one reading, written after another; the kernel refuses a second device; an unchanged file restarts nothing | no two enabled users share VNI and port; the device is what is saved |
| XRay (1425-1672, 4319-4482) | `xray-server.json`, `rpf_dnat_bypass`, opened ports | forward (validate, replace, restart, restore), redirect, settings | xray, nftables engine | whole-file and in-place writers meet; a failed restart restores old bytes; the chain's result is ignored | what runs is what is saved; every forward is exempt from the bulk redirect; forwards and clients fit |
| MQVPN (1383-1420, 5422-5804) | `server.json`, the running daemon | add, remove, server settings; path policy pins | control socket | the daemon refuses or is down after the file is written; the old port is closed before the restart | the daemon knows the users of the file and listens on an open port |
| User provisioning (`add_user` 6217-6338, `remove_user` 6363-6437, `sync_ss_go_users`) | one account per service and the configuration record | some ten services in sequence | all services | cut off half way; a daemon that does not hear; ids and ports handed out twice | a user is in every service or in none, and owns its port and userid |
| Port and settings changes (`/shadowsocks`, `/openvpn`, `/glorytun`, ...) | the services' files, firewall ports, the user's record | checksum, write, checksum, restart, open | services, firewall | cut off before the restart; two requests take checksums of each other's files | the service runs its file, and listens where the firewall lets through |
| Metrics (`JSONBackend`) | `omr-metrics.json` and its `.tmp` | report, read | two workers | locks are per process, the `.tmp` is shared; a torn file reads as empty | readers see the latest report of every interface |
| Decision engine (`omr_metrics.py`) | model, optimizer, moving average per worker; the model file | decide, train, reset, background round, switch | metrics, configuration | threads of a worker, workers sharing one model file, caches and sleeping loops | a discarded model stays discarded; an interface that is down gets nothing; disabling stops the rounds |
| Authentication (2206-2211, `get_current_user`) | `secret_key`, tokens | login, decode | configuration | both workers create a key at their first start | a token of one worker is accepted by the other |
| Watchdog (`omr-service`) | none of its own | poll, restart | services, tunnels | restart decisions on stale answers | a dead service is restarted, a healthy one is not |
| Scheduler map scripts, tunnel scripts, installer, packaging, kernel patches | files | sequential shell | - | - | not modelled, see below |

The hazards, each at its line and with the properties that cover it, are listed
in `PROJECT.json`.

## What is modelled

### Configuration store: `ConfigDoc`, `SnapshotStore`, `ConfigStore`, `ConfigStoreProofs`, `MCConfigStore`

`ConfigDoc` is the content: per user the userid, one setting, the pinned serial
and its error count, and the global flag `serial_enforce`. `Writes(r, d)` says
whether a handler reaches its write, `Result(r, d)` what it writes; `NextId` is
the userid loop of `add_user` (6223-6230), stated by what it finds.

`ConfigStore` is the file and the handlers. `Begin` reads and parses and works
the change out, `Backup` is `backup_config`, `Truncate` is `open(..., 'w')`,
`Dump` is `json.dump` and close, `BackupRaises` and `DumpRaises` are their
failures. Handlers overlap freely. A dump over another one's text may leave a
text that does not parse ("damaged"). `Crash` ends all workers, `Start` needs a text that
parses, as the import-time `json.load` (2196) does.

`SnapshotStore` is what the file promises: a request works on a snapshot that
was stored, and commits it with its change or gives up. It does not promise that
updates are not lost, because the code does not.

| Property | Kind | Says |
|---|---|---|
| `WholeUnlessExposed` | invariant | the file parses unless a handler is writing, or a write was cut short or overlapped |
| `BrokenIsKept` | action | a file that does not parse is not written over when nobody is at work |
| `IdsStayUnique` | invariant | userids are unique in stored and held documents |
| `PrimaryStays` | invariant | the primary account and its userid 0 stay |
| `StoreSpec` | refinement | `ConfigStore` implements `SnapshotStore` |

### WireGuard remote LAN gate: `WgLanGate`, `WgLanGateProofs`, `MCWgLanGate`

One process is the timer's helper, the others are started by the API. A run is
`Call`, `Acquire` (flock), `Decide` (the part of `reconcile` before its first
command), then one action per external command: `RegisterPrimary`, `Prune`,
`AddRoutes`, `AddRule`, `Publish`, `RegisterAll`, `Save`, or `Close`,
`ClearRoute`, `ClearRule`. `Fails` is an exception in any of them, `Unsave` and
the following steps are the handler in `main` (308-320), `CleanupFails` its own
failure, `Killed` the API's timeout. The rest of the VPS changes freely:
configuration (malformed while a handler writes it), tunnel, MQVPN server,
`flush ruleset`. `RegisterPrimary` reads the configuration a second time, as `sync_mqvpn_routes`
does (155): when it has changed since `Decide` took its snapshot, the server is told of, and
asked for, other LANs than `Publish` then lets in. `moved` remembers this, and what tunnel and
server lost, as the exceptions of `PublishedIsReady`.

| Property | Kind | Says |
|---|---|---|
| `OpenIsSaved` | invariant | between runs an open gate is a saved permission, unless the latest run was killed or could not clean up |
| `Settled` | invariant | if the world did not change under the run, gate, routes, rule and MQVPN routes agree with the configuration |
| `PublishedIsReady` | action | LANs enter the gate only when rule and routes are there, and the MQVPN server's, whatever the configuration does meanwhile; except for routes lost since to a change of tunnel or server, and for the server's when it was told of another configuration |
| `OnlyAllowOpens` | action | a shut gate opens only for an allow or a saved permission |
| `UnsavedIsShut` | liveness | an open gate without a permission does not stay |
| `AllowedIsRestored` | liveness | a permitted gate comes back after every reload |

### MPTCP settings: `AtomicSettings`, `MptcpApply`, `MptcpApplyProofs`, `MCMptcpApply`

The kernel settings are numbered in the order in which `POST /mptcp` sets them:
the scheduler first, the congestion control last, NanBBR parameters in between.
`Acquire` to `Reply` are the steps of the request: `ReadFiles` and `ReadLive`
are the snapshots, `Set` and `SetFails` one setting with its read-back,
`SaveNanbbr` and `SaveConf` the files, `Undo`, `UndoConf`, `UndoNanbbr` the
rollback in its order, `UndoFails` a rollback step that fails. `Start` to
`MoveLines` are `load_mptcp_bpf_schedulers` and
`normalize_persisted_mptcp_path_manager` in a starting worker, without the lock.
A request may leave out an optional setting (`Optional`: a blank `close_timeout`, `pm_type`,
`stale_loss_cnt` or `syn_retrans_before_tcp_fallback`, 4650-4660). The file is rewritten
without any `net.mptcp` line but the request's (4690-4698), so that a setting left out is no
longer saved (`None`), while the kernel keeps its value until it boots.

`AtomicSettings` is what the endpoint promises: one step changes everything a request names,
live and saved, and drops the saved lines of the sysctls it leaves out (`After`), or changes
nothing, and the answer says which. What it allows besides costs a fault
(`Spoil`, `AbortPartly`, `Die`) or is a startup's, whose writes to sysctls while a request
is served (`dirty`) no request answers for; module parameters and `nanbbr-var.json` are
never a startup's. The mapping (`Found`) shows the holder's snapshots as the settings until the
request has succeeded (`SaveConf`) or has been undone (`UndoNanbbr`), and compares saved names
by what the running kernel calls them. Beyond `ErrorRestores` and `DoneApplies` this says that
a request leaves what it does not name as it was in the kernel, that what is restored is what was there
and not only what was read, and that nothing changes between requests.

| Property | Kind | Says |
|---|---|---|
| `AppliesAtomically` | refinement | `POST /mptcp` implements `AtomicSettings` |
| `ErrorRestores` | invariant | a request that reports an error and a complete rollback has changed nothing |
| `DoneApplies` | invariant | a request that reports success has the kernel and the files as asked, without a saved line for what it left out |
| `SavedIsLive` | invariant | between requests the kernel runs what is saved (of a setting left out nothing is), except for settings set apart by the boot, a kill, a reported incomplete rollback or a worker's stale write |

### nftables engine: `Firewall`, `FirewallProofs`, `MCFirewall`

A handler's `Request` is the reading `_fw_port_add`, `_fw_port_del` and
`/vpnips` decide on; `Read`, `Truncate` and `Dump` are `modif_config_user` or
`set_global_param`; `More` the further writes of `/vpnips`. `SyncPorts`,
`ApplyAccept`, `ApplyDnat` are `_nft_sync_ports` with its two transactions,
`SyncC2c`, `ApplyC2c`, `ApplySip` the two flags; a starting worker runs the same
steps after `Resync`. `LoadRuleset` is a start or reload of nftables.service, which
empties the chains and queues `Restart`. A file that does not parse at the moment
means: no rendering of the ports, a disabled client2client flag, a
`set_global_param` without effect, an exception in `modif_config_user`.

| Property | Kind | Says |
|---|---|---|
| `SavedIsShown` | invariant | with nobody at work the chains show the saved configuration, except those whose latest rendering failed, was overtaken, or was not the business of the handler that wrote |
| `ShownAtLast` | liveness | once the configuration rests, the chains come to show it, whatever reloads and deaths there were |

### Users across the services: `Provision`, `ProvisionProofs`

The services are a few kinds of store: files that know a user by name, files that
know it by a port or a userid, and daemons that are told through a control interface. `AddPlan`
and `RemovePlan` are the orders in which the two handlers visit them; `job.at` is
how far the request is. `BuildCertificate` and `CertificateFails` are the first
step of `add_user`, `AddShadowsocks` hands out the port (and keeps one more in the
record when there are public addresses, 6299), `AddToFile`, `RemoveFromFile`,
`AddToDaemon`, `RemoveFromDaemon`, `AddMqvpn`, `remove_mqvpn`, `RevokeCertificate` and `Save`
are the others. A request may name the userid and the Shadowsocks port (6223, 6240), those of
another user too: the functions of the services write over what is there (677, `Tunnel`). A port
that was named comes back as a string, to which the public addresses add one: `GivenPortFails`.
`DropEntries` is the cleaning of `index.txt` by the text `/CN=` + name (6260): it takes the
entries of every name that begins with the new one (`Longer`), and the certificate's files
(6264-6271) even if the certificate then cannot be built. `pki` follows what becomes of the
certificates: `revoked` and listed; `lost`, revoked but no longer listed, so that the next list
(6396) lacks them; `loose`, accepted though no one can revoke them; `again`, names whose entries
an adding dropped. A call that a daemon does not hear is only logged, as in the code. `CutOff`
ends a request between any two steps, `sync_ss_go_users` is the repair in a
starting worker, `MqvpnRestarts` makes its daemon read the file. `dirty` and
`stray` are history: the users whom something happened to.

| Property | Kind | Says |
|---|---|---|
| `NamesAgree` | invariant | services and configuration agree on every user; except one whose request was cut off, not heard, ended by a port named with public addresses, or added a second time with a certificate that failed, until a removal runs to its end; a removed user's certificate is accepted only if an adding dropped its entry |
| `KeysAgree` | invariant | a user owns exactly the port and userid of its record; except one with public addresses, added twice or cut off, or whose port or userid another's record names too, be it asked for or kept one too high (6299) |

### Reconfiguring a service: `ServiceConfig`, `ServicesProofs`

A handler is the sequence of its steps, written out per service (`shadowsocks`,
`openvpn`, `mqvpn_set_config`, `glorytun`, `dsvpn`, ...): read with its checksum,
write, compare, restart if changed, open the port, move the port, save in the
user's record, tell the service. Two handlers interleave step by step; one
behaviour is about one service. `RestartFails` and `CutOff` are the faults; a file
written in place is torn when the writer is cut off. SoftEther may take a setting or not, and
answer or not (`DoTell`): without an answer the handler ends, but any answer will do, and the
password is saved although it was refused (5878-5885). `apart`, `shut` and `met` say what
may have come apart and are part of the claims, not of the code.

| Property | Kind | Says |
|---|---|---|
| `RunsItsFiles` | invariant | at rest the service runs what its files say, except after a cut-off, a failed restart or a write over another's |
| `ListensOpen` | invariant | unless a request was cut off or two met, the port in its file is open, and the one it listens on too but after a failed restart, when MQVPN's old port is closed already (5554), or when DSVPN's port was changed alone |
| `SavedIsRun` | invariant | what the router is told to connect with is what the service runs after a request served alone to its end, but for a password that SoftEther answered it refuses |

### XRay: `XrayPorts`, `ServicesProofs`

Three kinds of handlers rewrite one file: reverse forwards (`Test`, `Replace` by
rename, `Restart`, and `RestartFails` with the old text put back), redirections and settings
(`Truncate`, `Dump` in place). A rename under a writer sends its text to a file that is
`gone`; two in-place writers may leave a torn text. `Sync` renders `rpf_dnat_bypass`, `Open`
opens or closes the port, `Save` and `RealityPort` belong to the settings; a starting
worker (`resync`) renders the chain from the file.

| Property | Kind | Says |
|---|---|---|
| `XrayAgrees` | invariant | between requests XRay, chain, opened ports and the user's record agree with the file, but for what an unfinished, failed or overlapping request had still to see to |
| `ForwardsFit` | invariant | no two users forward one port, and the listener knows exactly the users who forward one |

### VXLAN and 6in4: `Vxlan`, `VxlanProofs`

`Merge`, `Check`, `Save` are the check-then-act of `/vxlan` and `/vxlan_user` with their
different rules (`Refused`); `ReadConf` to `RemoveConf` are `write_vxlan_conf`, which reads the
configuration again; `ReadAll` to `RestartSixin4` are `/vpnips`: a router that
announces the addresses and the ULA that are saved is sent away (6122), what differs is saved in
up to three writes (`SaveVpn`), and the 6in4 unit, like the VXLAN unit, is restarted only if its
file changed (6157), without a look at whether it started (`UnitFails`). So a retry repairs
nothing: only a request that changes the file does. `StartUnit` is
`omr-vxlan-run`: no file, nothing; a pair that another device has, refused.

| Property | Kind | Says |
|---|---|---|
| `PairsDiffer` | invariant | without overlaps and cut-offs no two enabled users share VNI and port |
| `DeviceShows` | invariant | between a user's requests its device and its 6in4 tunnel are what is saved, also when others' requests overlap; except from a cut-off, failed unit, refusal or overlap of its own on, until a request changes the file and the unit starts |

### The composition of the service modules: `MCServices`, `ServicesProofs`

The four modules share the API process but no state, so `MCServices` runs them as four
parts of one instance: `part` is chosen at the start and the other parts do not move. It
extends `XrayPorts` and instantiates the other three.

### Metrics store: `TmpFile`, `LatestMetrics`, `MetricsStore`, `EngineProofs`

`TmpFile` is what `open(tmp, 'w')`, `json.dump` and `os.replace` do to a file and its
shared `.tmp` when several processes do them: a descriptor follows its file through the
rename. `MetricsStore` is `write_interface` over it, with failing calls and kills.
A file that is torn, and one that cannot be opened or read for any other reason (353-358),
both read as empty. `LatestMetrics` is the promise: each report stored whole and at once, "ok"
only for what is stored; nothing is promised while two workers write at once, and a writer that
could not read (`blind`) may drop all other interfaces, which no other may.

| Property | Kind | Says |
|---|---|---|
| `LatestSpec` | refinement | `MetricsStore` implements `LatestMetrics`, with `latest <- read_all` |

### Decision engine: `LearnModel`, `Weights`, `LearnToggle`, `EngineProofs`

`LearnModel`: the model is known by its generation. Three threads of a worker (background
round, training request, reset) take its lock as the code does: a round holds
it for its last save, a training request does not (3075). `Judge` is the watchdog.
`Weights`: from reports to integer weights, in exact fractions: costs, moving average, offline
mask, exploration, rounding. With `?predict=true` a missing round-trip time is made up from
earlier ones (`_predict_payload`), and an interface without one is not masked; a score that is no
number makes all shares equal (2024), for those that are down too. `LearnToggle`: the switch, the file it shares with handlers
that write in place, the cache of 60 s in each worker, and the loop that sleeps
with what it has read.

| Property | Kind | Says |
|---|---|---|
| `AdamIsModels` | invariant | the optimizer steps the model in memory, never a discarded one |
| `BackOnlyLate` | action | the file goes back to an older model only by a training request that took it before the reset |
| `DownAtOnce` | invariant | an interface that is down gets the least weight in the very next answer, while another is up and has any quality; except in answers whose scores are no numbers, and for one whose round-trip time was predicted, unless it is reported offline |
| `SharedOut` | invariant | the weights add up to 255, but for rounding and the least weight |
| `FewRoundsMore` | invariant | after a saved disabling the serving worker begins at most one round more, another two |

`MCEngine` runs `MetricsStore`, `LearnModel`, `Weights` and `LearnToggle` as
four parts of one instance. `UnsavedLasts`, what the docstring of `_auto_set_enabled` says of a
toggle that could not be saved, has a run of its own, which violates it (finding 4).

## The runs

| Run | Instance | Question |
|---|---|---|
| `config_store` | 2 threads, 2 new usernames besides the shipped ones, every kind of request | all safety properties of the store and the refinement |
| `config_taken_name` | `add_user` for the primary username | violates `PrimaryStays` (finding 1) |
| `wg_gate` | timer and 1 caller, 2 LANs, all kinds of tunnel | safety of the gate |
| `wg_gate_live` | 1 LAN | liveness and `OnlyAllowOpens` |
| `wg_gate_killed` | 1 LAN | violates `FailureShutsGate` (finding 2) |
| `mptcp_apply` | casts: 2 requests with 2 faults, 1 request beside a starting worker, or that worker with 2 faults | atomicity, the refinement of `AtomicSettings` included; saved against live |
| `fw_ports` | casts: 2 threads of 1 worker and the port chains, or 2 workers with a thread each and the flags; 1 fault | chains against configuration |
| `fw_live` | 2 workers, 1 thread, 1 fault | `ShownAtLast` |
| `fw_stale` | 2 threads, no fault | violates `PresentIsShown` (finding 3) |
| `services` | four parts: users, service, xray, vxlan | services against what is saved |
| `engine` | four parts: metrics, model, weights, toggle | the metrics refinement, the model, the weights, the rounds after a disabling |
| `learn_toggle_unsaved` | 2 workers, 1 other handler, 3 events | violates `UnsavedLasts` (finding 4) |

A cast is a choice of the processes that take part, made at the start; it lets one
run ask the same question of different small groups.

Deadlock is not checked where the system may stop: a damaged configuration file
keeps the service from starting, and bounds on userids, requests and error
counts end all requests.

### Bounds and why they are enough

* *Processes.* Every hazard listed is between two actors: two handlers, a handler
  and the timer, a request and a startup. Two of each kind that matters are there.
* *Store.* `MaxId = 4` allows two allotted userids, the case in which the loop has
  to look at its own allotments, `MaxErr = 1` one counted error. Two added names
  and two serials make uniqueness and pinning meaningful; names, serials and
  threads are symmetric.
* *Gate.* With two LANs a configuration can gain one and lose one at once, which
  one LAN cannot show; the liveness run has one LAN and leaves out the plain VPN,
  which differs from MQVPN only by having fewer commands.
* *MPTCP.* Four settings are the scheduler, the path manager, one parameter and
  the congestion control: one of each kind that is treated differently. A fault is
  a kill or a failing rollback step; failing sets and writes are not bounded. A
  request beside a startup has none, since the refinement is slow to evaluate there; the
  theorems, which state every property of this run, have no such bound.
* *Services.* Two users, the second's name beginning with the first's, and three requests to add
  (plain, with public addresses, for userid 3 or for port 1, which may be the other user's, or for
  port 1 with public addresses), with userids up to 4, ports up to 3 and one fault, allow every
  reuse of a name, an id and a port; only the handlers are symmetric. A service has two
  ports or two settings, three requests and one fault: a cut-off, the retry, and
  another's request. XRay: two users who want one port, as a forward or as a redirection,
  and one port that is free; three requests, one fault. VXLAN: the shipped user and one other, two
  VNIs, two ports; one overlap and one fault, any number of requests.
* *Engine.* Two workers, two interfaces, three reports and two faults let a clash be
  followed by a report that is served alone. Four generations of the model allow two resets and
  the watchdog's, whose limit is the code's 3 bad losses. Three
  interfaces, five reports (three up, one of them of no quality, and two kinds of down) and two
  decisions, by one worker or two, let an average meet reports it was not made from, predicted or
  not, with or without PyTorch; workers are symmetric. The theorems have no such bounds.
* *Toggle.* Three events (requests, kills, failing writes, edits): two requests
  that meet and an edit, or a kill; for finding 4 a request and a failing write suffice.
* *Firewall.* One key per chain, one address, one fault (reload, death or refusal
  by nft) besides the first load; transactions per chain do not depend on the
  number of rules in it.

### Fairness and why the code justifies it

* `WgLanGate!FairSpec`: the timer fires every 30 s after the last run
  (`OnUnitActiveSec`) and its unit has no start timeout, so the timer's helper is
  called again and is not killed: WF of `Call(Timer, "refresh")`. A helper comes
  to the end of each command, with success or an exception: WF of `Moves(p)`. A
  waiting timer is not passed over for ever by callers (`SF Acquire(Timer)`),
  and removing a file or closing a set does not fail every single time
  (`SF Unsave(Timer)`, `SF Close(Timer)`). API helpers may be killed at any step.
* `Firewall!FairSpec`: a handler ends; uvicorn and systemd (`Restart=always`)
  start what has died; a queued restart is executed; the base ruleset is loaded
  once. Nothing is assumed of requests, and `MaxFaults` ends reloads, deaths
  and refusals.

## What is proved

`ConfigStoreProofs` proves, for any names, requests, threads and bounds that satisfy
`DocAssumption`:

* `TypeCorrect`: `Spec => [](TypeOK /\ Planned)`. `Planned` (the request a handler
  holds does lead from its document to a document) is what makes `TypeOK`
  inductive: `Dump` stores `Result(req, doc)` long after `Begin` checked it.
* `FileIsWhole`: `Spec => []WholeUnlessExposed`. The invariant alone is not inductive:
  it must be known that while one single handler is between open and dump the
  text is empty (so that its dump is whole), and that two such handlers have set
  `exposed`. `Explained` adds both.
* `BrokenFileIsKept`: `Spec => BrokenIsKept`, an action property. It needs types
  only: no action but `Begin` leaves the idle state, and `Begin` needs a whole text.
* `UseridsStayUnique`: `AutoIds` (every `add_user` leaves the userid to the server)
  implies `[]IdsStayUnique`. The key lemma `NextIdIsAbove` shows that the loop's
  result exists and is above every userid, from well-foundedness of `<` on Nat.
* `PrimaryIsKept`: `FreshNames` (no `add_user` names the primary account) implies
  `[]PrimaryStays`. The strengthening says the same of held documents, because an
  old snapshot may be stored later. Finding 1 shows the assumption is needed.
* `ImplementsSnapshotStore`: `Spec => StoreSpec`; steps of the file map to `Begin`,
  `Commit`, `Abort` or a stutter.

The two about stored documents share `DocumentsMove`: a step stores what a handler worked out or
leaves the document, and a handler keeps the document it read or reads the one that is stored.

`AutoIds` and `FreshNames` are assumptions about the requests, not about the code;
the code enforces neither.

`WgLanGateProofs`, for any LANs, callers and tunnels, without assumptions: `TypeCorrect`,
`GateOpenIsSaved`, `GateSettles`, and the action properties `GateOpensReady` and
`GateOpensAllowed`. `GateInv` is the invariant: the lock has one holder and only
its holder is inside; with nobody inside, what `OpenIsSaved` and `Settled` say (`Rested`);
and for the holder its *phase*: what it has made of routes, rule, MQVPN's routes and
set so far (`OnTheWay`, `Done`, `Shutting`), under what has changed since in the world
(`steady`) or was lost (`moved`). Only `Publish` makes the set larger
(`OnlyPublishOpens`), which gives the action properties.

`MptcpApplyProofs`, under `MptcpAssumption`, for any settings, values, requests and faults:
`TypeCorrect`, `OneRequestInside` (mutual exclusion), `ErrorsRestore`, `SuccessApplies` and
`SavedStaysLive`. `ApplyInv` gives the holder of the lock a *phase*. `Before` the first setting
kernel and files are as in its snapshots; while it is `Undoable`, whatever is not in `applied`
and not in `wrote` still is; `Applying` says the same of what it has reached so far, from the
other end: it is as asked; `Undone` says how far the rollback has come, in its order. With the
lock free, `Agree` is `SavedIsLive` with its exceptions. A starting worker does not take the
lock, so every phase has to allow for its writes. `RequestsAreAtomic` (`AppliesAtomically`) maps
every step to one of `AtomicSettings` or to a stutter, from `ApplyInv` before and after the step:
the phases say what the settings are where the mapping turns from snapshots to readings. It
adds only `BadInv`, that a rollback is incomplete only once there is one.

`FirewallProofs`, under `FirewallAssumption`, for any casts, callers and documents: `TypeCorrect`
and `SavedStaysShown`. A chain that does not show the configuration is nobody's fault only as
long as someone comes to render it, so `ChainInv` says that it is set apart, or that a handler
`Comes` to it with a later step, or that everything will be rendered (`AllComing`, after a
reload). `JobOK` adds that a reading that counts as fresh is what the file says; without it a
rendering could show an old configuration and still count.

`ServicesProofs` is about the parts of `services`. For `XrayPorts`, under `RequestsAssumption` (a
request about a port names its user; a torn text is no configuration):

* `ForwardsStayFit`: `FitInv` asks of the file, of what runs, and of the text that every request
  may still write or put back that they fit on their own; no handler ever combines two texts.
* `AgreementIsKept` (`XrayAgrees`): a request that was served alone so far is in its phase: what
  it has done agrees, what it has not is as before it. Requests that overlap set the things they
  were at apart, and `AgreeInv` says that nothing comes apart in another way.

For `ServiceConfig`, `FilesInv` has a part per question: a text that is torn is known to be
(`TornInv`); a service that lags behind its file is apart or someone `Owes` it the restart
(`LagInv`); a port that is not open is shut for a known reason or someone `WillOpen` it
(`OpenInv`); what is saved is what runs, or the request that saves is still at it (`SaveInv`).
`ServicesRunsItsFiles`, `ServicesListensOpen` and `ServicesSavedIsRun` follow.
`ServicesNamesAgree`, `ServicesKeysAgree`, `ServicesPairsDiffer`, `ServicesDeviceShows` and
`ServicesStayTyped` carry the theorems of the other two proof modules over to the composition:
`PartInv` says of the part that was chosen that its own invariant holds.

`VxlanProofs`, for any users and requests. `PairsStayDifferent`: as long as nothing overlapped or
was cut off there is one request at a time (`OneAtATime`), and what it is about to save was
checked against what is still saved (`CheckedIsFree`). `DevicesShow` (`DeviceShows`): `ShowInv`
says for each step of a user's request what file, device and tunnel are like between the
save and the last `ip` command, and for a tunnel that is not set apart only
(`InLine`, `Sixin4InLine`); other users' requests move only their own.

`ProvisionProofs`, under `ConstantsOK`, for any users and bounds. `NamesStayAgreed`
(`NamesAgree`): the stores that the request has visited show it done, the others show it not
begun (`Done(Visited)`), for a request that nothing happened to; a certificate is out
of reach of its list only once an adding has dropped its entry (`PkiInv`). `KeysStayAgreed`
(`KeysAgree`): a userid or a port that two records name makes both their users stray (`IdsInv`,
`PortsInv`), and each file keyed by one of them has the keys of its users that are not
(`KeysInv`), since what a request writes over is then another stray user's.

`EngineProofs`:

* The metrics store, under `TornAssumption` and `FaultsAssumption`: `TypeCorrect`, and the
  refinement `ImplementsLatestMetrics`. A report is stored when the rename happens, so the
  invariant says for a worker that writes alone that it holds the stored document with its report
  in it, that its descriptor leads to the file it emptied, and that what it dumped is there
  (`AloneIsSound`); `Alone` and `OnlyWhileOpen` keep others from disturbing it.
* The model: `AdamStaysModels` and `EngineAdamIsModels` (every step keeps a worker's optimizer
  with its model or drops it, `KeptOrDropped`) for any number of workers and models.
  `EngineGoesBackLate` (`BackOnlyLate`) is for one worker: its lock orders the threads, so that
  the model in memory is never older than the file, and who saves under the lock holds
  the one in memory (`Lineage`). Two workers share the file but not the lock, and there the
  property is not claimed, nor does it hold.
* The switch: `EngineFewRoundsMore` (`FewRoundsMore`). The number of rounds begun is bounded
  together with those that what a loop has cached, or read before it slept, still lets it begin
  (`Spare`, `FewLeft`). An edit by another handler that is under way holds a document as well,
  so `EditRead` has to say what is in it.
* The weights, under `WeightConstants`: `EngineDownAtOnce` (`DownAtOnce`) and `EngineSharedOut`
  (`SharedOut`), for any interfaces, workers and reports. Shares are numerators over a common
  denominator, so the invariant (`WeightsInv`) is that each worker's average and each answer is a whole: the numerators add up to the
  denominator (`Whole`). Costs (`CostsApplied`), the average (`AverageIsWhole`) and the exploration
  (`ExploredIsWhole`) each make a whole of a whole, and `RoundedWeight` bounds what rounding to
  255ths takes or gives. The sums are folds over finite sets, and the common divisor that shares
  are divided by is Euclid's; both need inductions. They are stated for sets instead of
  predicates (`InAllNumbers`, `InAllSubsets`), proved from well-foundedness and from the finiteness
  of the set, and used with the set of those for which the claim holds.
* `EngineStaysTyped` (`EngineTypeOK`): types of the model's threads, of the weights, each of them
  in 1..255, and of the switch.

`TypeCorrect` and the like come first everywhere, since the others rest on them. The assumptions
are `ASSUME`s about the constants (`MptcpAssumption`, `FirewallAssumption`, `RequestsAssumption`,
`ProvisionConstants`, `VxlanConstants`, `ServiceConstants`, `ModelConstants`, `ToggleConstants`,
`WeightConstants`, `TornAssumption`, `FaultsAssumption`, `DocAssumption`), and TLC evaluates each in the run of its
module.

The attempts also corrected what was checked before: the cases of `XrayPorts!Left`
overlapped, so that their value was a choice; `ServiceConfig`'s history `shut` was
cleared by an opening while the file already named another port, which takes three handlers
to go wrong, and the run has two; the reading an edit of the switch holds was not accounted for; and
`DownAtOnce` does not hold when every interface that is up has no quality at all (quality 0): the
heuristic then has nothing to share out and gives equal shares, to those that are down as well
(1913-1915). No report of the run had that quality; one has now, and the property says it.

Only model-checked:

* Liveness (`UnsavedIsShut`, `AllowedIsRestored`, `ShownAtLast`): the prover
  handles neither fairness nor `ENABLED`. Every other property of the passing runs is a theorem,
  `BackOnlyLate` for one worker only.

## Findings

1. `add_user` does not look whether the username exists (6309): adding the primary
   username replaces its record and with it the protected userid 0, which
   `remove_user` refuses to remove (6374). Run `config_taken_name`.
2. An allow that is killed by the API's 10 s timeout between publishing and saving
   leaves the gate open without a saved permission until the timer's next run,
   while the comment says that a failed allow must not leave an open gate
   (`wg-remote-lan-route` 309). Run `wg_gate_killed`; `UnsavedIsShut` shows that it
   does not stay open.
3. Two overlapping requests can leave a port saved but in no chain (a rendering
   overtaken, or skipped because another handler had the file open), and a re-POST
   does not repair it because an entry that is present counts as nothing to do
   (1923). Run `fw_stale`.
4. A toggle of the background learning that cannot be saved is put into the serving
   worker's cache, which is read from the file again after 60 s (`omr_metrics.py` 2139): that
   worker trains on, while the docstring (2406-2411) says that "in that degraded case the toggle
   lasts until the next process restart". Run `learn_toggle_unsaved`.

Seen while modelling, and stated as exceptions of the properties they limit: the second reading
of `sync_mqvpn_routes` against "Publish the allowed LANs only after their routes are ready"
(`PublishedIsReady`); saved lines dropped for settings left out (`SavedIsLive`); certificates of
`bobby` that adding `bob` makes acceptable again, and a certificate lost to a second adding
(`NamesAgree`); ports and userids that requests take from other users (`KeysAgree`); MQVPN's old
port, closed before a restart that fails (`ListensOpen`); a refused SoftEther password that is
saved (`SavedIsRun`); retries of `/vpnips` and of VXLAN requests that repair nothing
(`DeviceShows`); a failing read of the metrics file that drops every other interface
(`LatestSpec`); predictions and scores that are no numbers, which lift the mask of an interface
that is down (`DownAtOnce`); "applied immediately" (`omr_metrics.py` 3115), which means within
one round, or two in the other worker (`FewRoundsMore`).

## What is not modelled, and why

* The text of rules, service files, tokens and certificates: no property depends on it.
* Installer, updater, packaging, tunnel and scheduler scripts: sequential shell
  around apt, systemd, `ip` and BPF maps, without state or concurrency of their own.
* Authentication and the watchdog: the first keeps no state after the first start, the
  second is a loop of independent checks.
* The learning itself in `omr_metrics.py` (features, losses, gradients) and InfluxDB's side:
  numerical, or outside this repository.
* Kernel patches, shorewall configurations, acme.sh: third-party or static.
* In the modelled parts: gre_snat, dscp_mark and OpenVPN's client-to-client line of
  the nftables engine; the GUI set and `--dry-run` of the gate; service restarts after
  `POST /mptcp`; GRE tunnels, services that are not installed, requests for the port or userid of
  the installation's own account, and the certificate that fetching the configuration
  (3282-3305) makes for a user without one in `Provision`;
  V2Ray and the OpenVPN bypass in `ServiceConfig`, where the checksum and the reading of a
  file are one step and SoftEther's request always changes the password too; the healing of Reality's
  key pair (`xray-vless-reality.json`, taken to be there) in `XrayPorts`;
  mode, MTU and the tunnels' own addresses in `Vxlan`; MQVPN's path policy.

## What could follow

1. `Provision` as an implementation of a directory of users when no request is cut off.
2. The workers' start with `secret_key`, and the remaining chains of the nftables engine.
3. `BackOnlyLate` for two workers, with what the second worker's file may hold as a further
   exception.
