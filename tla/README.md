# TLA+ models of qemu-tool

`src/qemu/qemu-tool` is a Python program that builds guest images, starts QEMU
guests by hand or as docker compose stacks ("fleets"), runs a one-command demo
(`quick-start`) and takes all of it down again. It has no daemon and no lock:
every command is a process that reads files, asks docker, `/proc`, `ip`,
`iptables` and `sysctl` for the state of the host, and changes it one external
command at a time. What one command decides reaches the next only through
files. Most of what is hard about it follows from that: two commands at once, a
command killed between two steps, a command that works from what an earlier one
left, and a host that changes in between.

Module names below are files of this directory; source files without a path are
in `src/qemu/qemu-tool/`.

## 1. Inventory

### Management network: `run_vm.py`, `gen_vm.py` (`--mgmt-tap`)
* State: one bridge `qemu-br<port>`, TAP `mt<port>`, dnsmasq with a pid file, a
  MASQUERADE rule per subnet and FORWARD rules per SSH port; shared by all,
  `net.ipv4.ip_forward`; per process the flag `_ip_forward_was_ours` and the
  atexit handler.
* Operations: `_ensure_mgmt_bridge`, `_teardown_mgmt_bridge`,
  `_restore_ip_forward`, each a sequence of host commands of which some are
  checked and some are not.
* Interaction: processes meet in the host only. `run-vm` ends in `os.execvp`,
  which drops handlers and flag; `gen-vm` tears down in a `finally` and again at
  exit.
* Correct when: a host that was forwarding stays so; a running guest's network
  is not taken away by anybody, nor forwarding switched off under it; a teardown
  leaves nothing behind but what it failed to remove.

### quick-start, ports and `up`: `quick_start.py`
* State: the generated overlay `env.ports`, the ports baked into
  `docker-compose.yml`, the running stack and containers stuck in "created".
* Operations: `_resolve_ports`, `_persist_ports`, `generate_stack`,
  `_remap_guest_ports`, `up` with its one retry, the health check,
  `wait_for_guests`, `down`, `test`.
* Hard: another program (the WSL2 proxy, by the comments) takes a port between
  check and bind; the retry must move all of the guests and regenerate; verbs
  are separate processes.
* Correct when: whoever waits for a guest waits at the port its container
  publishes; a retry really moves; every verb ends.

### Images directory: `gen_vm.py`, `quick_start.py`, `qcow.py`
* State: per VM the backing image, the tag recorded beside it
  (`.image-ref`), the overlay.
* Operations: gen-vm with `--backing-image` (pull, unpack, record, overlay),
  `--backing-file`, `--restore-image`, `--ansible-only`, the cloud image bake,
  `--no-backing`, `--force`; quick-start's `make_overlays` and
  `--clean-overlays`; `qcow --clean`; guests that open and close overlays.
* Hard: nothing is locked, anything can be killed at any step, one backing file
  serves a fleet, the tag file and the image are two files.
* Correct when: a fragment or an older image is never taken for the one asked
  for; an overlay's backing file is the one it was made over; `up` leaves disks
  alone.

### quick-start, image pin, keypair, account: `quick_start.py`
* State: `env.images`, `env.image-login`, the key directory (`id_rsa`,
  `vm-info.json`, `image-ref`), the published pair in `<images>/keys`.
* Operations: `_resolve_images_dir`, the pinning in `run`, `fetch_key`,
  `_adopt_image_login`, `_publish_keypair`, from verb to verb.
* Correct when: the private key used is the pinned image's, the login is the
  one that image names, both halves of the pair are there, compose sees the pins.

### Taking things down: `shutdown.py`, `down_all.py`, `cli.py`, `quick_start.py`, `list_vms.py`
* State: guests and containers on the host; per command what it has seen, asked
  and said.
* Operations: `down <vm>`, `down <stack>`, `down`, `down --all`, `--dry-run`,
  `quick-start down`: list the VMs, ask guest agents, wait until they are gone
  or the deadline passes, find the caller's stacks, prompt, `docker compose
  down`.
* Hard: `docker compose down` is a power cut for a guest that is still on;
  docker, `/proc` and agents each may not answer; some guests accept and others
  refuse; other users' guests run on the same node.
* Correct when: no guest is cut that the operator was not told of; "powered
  off" is true; only what the command is about is touched; a refused prompt
  stops nothing; every command ends.

### Stack rendering: `gen_compose.py`, `run_vm.py` (PCIe switches)
* `plan()` computes ports, addresses, MACs, node ids, device and switch groups
  for a fleet; the renderers write `docker-compose.yml`, `prometheus.yml` and
  `fleet-inventory.yml` from it. `_copy_stack_assets` mirrors the repository's
  stack directory into the output directory, sparing the operator's paths;
  `--check` says whether a regeneration would change anything.
* Interaction: the rendered `depends_on`, health checks and restart policies are
  what docker compose acts on; mesh node ids exist only by the order in which
  workers connect to the manager. The output directory is shared with its
  operator, with Docker and with the containers.
* Hard: collisions and ranges at the largest fleet; an order of starts, failures
  and restarts nobody tried; a removal that deletes data; a run killed half way.
* Correct when: nothing two guests get collides or leaves its range; the three
  files agree; the fleet comes up in any order; a NIC's node id is what the
  resolver computes; a run that says it succeeded left the repository's files
  and the operator's data, however earlier ones ended, and nothing behind a link
  was touched.

### Compose wrapper: `compose.py`, `envfile.py`
* Which stack directory, project and settings a call resolves to, from flags, an
  environment variable, the working directory and what the rendered stack
  remembers; a digest against drift; the user containers run as; data directories
  made before Docker makes them as root; then `docker compose`; after `down`, a
  look for survivors.
* Hard: files change between rendering and use and during a command; docker
  compose interpolates from other places than the wrapper checks.
* Correct when: drift is warned of, the user checked is the user used, declared
  directories are the caller's, and a teardown names what it leaves.

### Settings: `fleet_xml.py`, `config.py`, `envfile.py`, `libvirt_xml.py`, `cli.py`
* Layers of XML, env files, environment and flags; a libvirt domain XML that one
  command writes and a later one starts from.
* Correct when: the highest layer that says something wins, also when it says
  the default; a domain XML gives back the guest it was written from.

### Guest agent and inspect: `inspect.py`, `summary.py` (`_vm_sessions`)
* A script run against the guest's agent socket: sync, then one request after
  the other, each with a timeout, within one budget; afterwards conclusions with
  three values: some, none, unknown.
* Hard: answers carry no id, so a late one meets the next request; a file may be
  absent, unreadable, too long for a read, or not asked for any more; caps.
* Correct when: "none" is concluded from positive evidence only, and what is
  named is there.

### Summary and statistics: `summary.py`, `ernic_stats.py`, `lmcache_stats.py`
* Differences of counters sampled twice while containers and guests come and go.

### The rest
`list_vms.py` (docker ps and `/proc`), the QEMU command line (`run_vm.py`,
`caps.py`, `identity.py`), `cli.py`, host checks (`check_system.py`,
`resources.py`), Ansible playbooks, shell scripts, Dockerfiles, committed
stacks, packaging, CI. `PROJECT.json` lists each with its status and reason.

## 2. What is modelled

| module | models | composed with |
|---|---|---|
| `MgmtBridge` | management network, every host command a step, any number of run-vm and gen-vm processes | |
| `QuickStartPorts` | ports from verb to verb, the tries of `up` | |
| `GuestDisks` | images directory | takes the pin `QuickStartImages` decides as its `newest` |
| `QuickStartImages` | pin, keys, account from verb to verb | |
| `GuestShutdown` | all ways down | implements `CleanStop` |
| `CleanStop` | abstract: a guest that is cut has been named | |
| `FleetPlan` | `plan()`, switch grouping, the three rendered files, as operators | |
| `FleetStart` | gen-compose's refusal or plan, and the start, crashes and restarts of the rendered stack | extends `FleetPlan` |
| `StackMirror` | writing a stack directory, `--check`, everybody else who writes there | |
| `FleetSettings` | layers of settings, as operators | |
| `ComposeStack` | gen-compose and compose from call to call | extends `FleetSettings` |
| `VmConfig` | settings of one guest; domain XML from command to command | extends `FleetSettings` |
| `GuestAgent` | one query of a guest agent and what is concluded from it | |
| `MC<module>` | the values TLC needs | extends `<module>` |
| `MCSettings` | `ComposeStack` and `VmConfig` side by side: they read settings alike and share no variable, so a behaviour is one of either | extends both |
| `<module>_proofs` | theorems | extends `<module>`, TLAPS |
| `Settings_proofs` | theorems | extends `ComposeStack`, `VmConfig`, TLAPS |
| `GuestAccess_proofs` | theorems | extends `QuickStartImages`, `GuestAgent`, TLAPS |

`VmConfig` and `GuestAgent` name their specifications `VmSpec` and `AgentSpec`,
because the proof modules extend each beside another component's `Spec`.

### State and actions against the code

**MgmtBridge.** A bridge exists (`bridges`), carries its address (`addressed`)
and is up, in three steps of `_ensure_mgmt_bridge`; a TAP exists and is
`joined`; `dnsmasq` runs and has its pid file (`pids`). `rules` counts each
iptables rule (MASQUERADE per subnet, FORWARD from and to each bridge), since
two processes can both find one missing and add it. `ipForward` is the sysctl.
`pc[p]` names the next host command of process p; a look (`linkShow`, `natShow`,
...) and the command it decides on are two steps, and so is each command of the
teardown. `ours` is `_ip_forward_was_ours`, `handler` the atexit registration. A
command with `check=True` raises when it fails (`CommandFails`); one of the
teardown fails and nobody looks (`TdFails`, `TdDnsFails`, `TdScanFails`,
`TdOffFails`); any process may be killed (`Kill`). `faults` bounds all of these
together. The subnet is the code's `(port - 2000) % 254 + 1`. History: `wasOn`,
the switch before the first process; `failed`, the teardown commands of each
process that failed; `exposed`, the processes that came to the switch when a
restore was already past its look for bridges, that could not read it, or behind
whose back a look failed.

**QuickStartPorts.** `layer` is env.ports, `yaml` the compose file, `stack` what
the containers publish, `stuck` containers a failed `up` left. Docker may not
list or not remove these (`RemoveStuck`; `kept` is the history of it), and
`docker compose down` between the tries may fail. `pc` follows `run()`;
`attempt` is the loop of `up`. `taken` is changed by the environment at any
time. Ports are small numbers; `_next_free_port` keeps its limit (`Scan`, 200 in
the code) and its fall-back to a port it knows is in use.

**GuestDisks.** The content of a qcow2 is a published tag, "the result of bake
n" or Unfinished. `backing`, `ref` and `overlay` are the files; `base` records
the content an overlay was made over, so a mismatch can be seen. One gen-vm may
work on each VM name, for a user or for quick-start; `GenDies` ends it at any
step. The settings file may change to any tag (`Upgrade`), not during a
quick-start run, and a user's gen-vm names any tag. `cut` is history: the VMs a
pull of which was begun over a recorded tag, none having ended since.

**QuickStartImages.** `layer` is env.images, `login` env.image-login, `keyDir`
the key directory, `keys` the published pairs per images directory. Variants
have a stack each and share the key directory, as `_DEFAULT_KEY_DIRS`' fallback
makes them; each fleet file may move to any image. `Carries` says what an
image's referrer holds: a key, an account file, both or one; `Pull` may be cut
after any of it. `over` is history: a pull over a recorded image's files began
and none has ended since. `writable` can change, which makes
`_resolve_images_dir` change its mind between verbs.

**GuestShutdown.** A guest is on, stopping (its agent took the request), off or
cut. `List` is `collect()` with either source failing; `Ask` one agent request
with all four outcomes (taken or not, answer seen or not); `Poll` and `TimeOut`
the wait; `Discover`, `Confirm`, `Teardown` the stacks' part. A scan may miss
single guests too, whose `/proc` entry or container it cannot read (`Listed`).
`named` are guests the command printed as not stopping, `unseen` those a scan
did not show and the code went on as if they were not running. `quick-start
down` goes guest by guest (`index`).

**FleetPlan, FleetStart.** A fleet is one record of settings. A service is
`<<kind, suffix>>` as in its name, an address `<<third octet, fourth octet>>`, a
MAC the two bytes it carries its ordinal in; `Compose(s, profiles)` is the set
of services with what each `depends_on`. `VfioUserdev` is the order gen-compose
writes into a guest's command line, `Switches` what run-vm makes of it. In
`FleetStart`, `Plan` is the refusals of `plan()`, `Up` is docker compose, and a
container goes from absent over starting and bound (its socket exists) to ready;
`Register` gives out node ids in the order of connection; `CheckFails` is a
health check that ran out of retries, `Crash` and `Restart` follow the rendered
restart policy, `GiveUpOnTap` the wait for a TAP that has an end. Services that
install qemu-tool first do so in the rounds their entrypoint has: several from
PyPI, one from a source checkout (`PipxInstall`); `InstallFails` is a round that
fails, and a guest whose last round failed is dead. `crashed` and `failed` are
history. docker compose, the mesh and the device servers are external: they are
modelled from what gen_compose.py renders and its comments say of them.

**StackMirror.** `tree[p]` is what a path is: absent, directory, link, a file of
the repository or one of the operator's; `outside` what lies behind links;
`aliased` assets that are links to the repository's own, which `_owned_assets`
skips. `place` is what each generated file is found as: a file, a link that
`write_text` follows, or a directory it cannot write. `pc` follows `run()`:
`Write` the generated files, then per asset `Compare` (`_asset_diff`), `Retype`
(a mistyped entry goes first), `Copy` (`shutil.copytree` with its write-through
of links and its errors at the end; `copy2` onto a directory that has appeared
puts the file inside) and `Prune`, deepest first, where one failure does not
stop the rest. `stuck` are paths that cannot be removed; rmtree may then leave
any part. A write, a read of the comparison and a copy may fail for want of a
permission or of room (`WriteFails`, `CompareFails`, `Copy`), which ends the run
and sets `failed`. `Edit`, `EditFile`, `Alias`, `Resettle` and `Kill` are
everybody else. `quiet` says nobody else changed the stack during this run,
`problems` that the run has something to report.

**FleetSettings, ComposeStack.** A layer is a function from the settings it
names to numbers, 0 standing for what the code tests as empty. `file` holds
contents by place and name; a stack directory remembers the `names` and the
`digest` of its layers and the values `env` baked in. `GenParse` and `GenWrite`
are two steps, as the files are read twice. `Choose` resolves target, layers and
values; `Check` is the warning, the identity and the data directories; `Exec`,
`Fails` docker compose; `WarnAboutSurvivors` the `ps` after a teardown. In
`running` each container records whether its stack's baked values differ from
what the command used (`drifted`), whether that was said (`warned`) and whether
anybody changed a file meanwhile (`alone`).

**VmConfig.** A field stands for all fields the code treats alike (listed at the
top of the module). `Emit` and `Parse` are `libvirt_xml.py`: an element, a hint,
or nothing; hints are written only beside QEMU arguments, joined with `;`, and a
text that holds one comes back as its `First` part (`Split`). `BuildConfig` is
`cli._build_config`; `FlagField` is where a flag's value goes, for `--ca-cert`
to no field. `done` is the last command with what it was told, what it built and
whether gen-vm's `_validate` refused it.

**GuestAgent.** `todo` is the script's list of questions - sync, four facts,
`guest-get-users`, then files - grown as answers come (a next GPU node, the
users of passwd, the sessions of a user). A question about a file is open, read,
close (`step`); an open fails where the file is missing, and where the agent
refuses it (a file that reads "denied"; all of them where `guest-file-open` is
blocked), which the script takes for the same. A user's sessions are those whose
id is of digits (`Digits`), and the first `MaxToks` of the words of the line;
passwd counts as all accounts where nsswitch names no sources but `files`,
`compat` and `systemd`. `owed` are requests the agent has not answered, `line`
answers the script has not read; `Receive` takes the first line for the answer
to the request it waits for, as `send_recv` does, and drops what came with it;
`GiveUp` is a timeout, `Slow` the budget spent by slow answers, `Lose` a query
that ends without a report. `crossed` is history: some answer was taken for
another request's.

### Left out of these modules
* Wording and layout of everything printed or rendered.
* `GuestDisks`, `QuickStart*`: the Ansible run; NVMe scratch disks, the VM
  sidecar file, seed ISO and cloud image download; `--images-dir` inside gen-vm;
  gen-vm's own copy of the key directory. `oras` and `docker` are black boxes
  with the outcomes the code distinguishes.
* `FleetStart`: the profile of a service beyond metrics and lmcache; a NIC's
  traffic; node ids above the ceiling (a worker cannot register).
* `StackMirror`: mode bits, contents beyond "the repository's or not".
* `ComposeStack`: the parsing of an env file's lines; `ps` and `logs`;
  `--project-name`.
* `VmConfig`: how a value is spelled, quoted or checked, but for the `;` of hints;
  what follows a `;` is taken to be no hint of its own.
* `GuestAgent`: device probes other than the block statistics, docker and GPU
  nodes; what the host knows of the GPUs from the command line. A file is its
  meaning, and read under another's name means nothing unless it is of the same
  kind; a chunk that ends in the middle of a line is not distinguished from one
  that ends between two. The sync loop's limit of 20 lines is not counted (fewer
  are left over in the instance); the deadline checks of a walk and of the read
  in it are one step. The guest does not change during a query.

## 3. Runs

| run | instance | states | shows |
|---|---|---|---|
| `MgmtBridge_faults` | a gen-vm and a run-vm on neighbouring ports; three commands that fail, or kills, anywhere | 370,000 | host forwarding kept, forwarding left to guests, networks intact, nothing left but what failed to go |
| `QuickStartPorts_up` | two guests, two verbs of any kind and flags, four foreign ports; Docker may not remove stuck containers | 283,000 | up agrees with itself, the retry moves, verbs end |
| `GuestDisks_all` | two guests, two tags asked for in any order, all modes, two gen-vm by hand, one `up` | 2,295,000 | image as asked, owner's overlay fits, up keeps disks |
| `GuestDisks_back` | the same, plain pulls | violation | a fragment passes for the image it was recorded as |
| `QuickStartImages_keys` | three images (key and account, key, account), two variants, two directories, three verbs | 3,280,000 | key, account and pair |
| `GuestShutdown_down` | two quick-start guests, one of another's fleet, one bare; any one command, from any state of the guests | 519,000 | implements CleanStop; truthful, targeted, ends |
| `FleetStart_up` | 360 shapes up to the ceiling of 64 NICs, every mixture of image tags planned; seven fleets started, one crash, any round of an installation failing | 235,000 | addresses, switches, files; node ids, guests lost only to failures, comes up |
| `StackMirror_all` | three depths of paths, five kinds of entry, trees up to one entry off, two changes, kills or failures | 592,000 | mirrored on success, `--check` exact, data and outside kept |
| `Settings_all` | compose: two renders, two commands, one edit; four directories, five layers. One guest: 18 command lines, five env files, three fleets, two commands | 813,000 | drift warned, last layer wins, user checked, directories ours, survivors named; highest layer wins, typed backing stands, domain keeps the guest |
| `Settings_fleet` | the same | violation | the fleet file does not reach gen-vm |
| `GuestAgent_all` | some thirty guests, two timeouts, a line left by an earlier client | 3,739,000 | "none" only where nobody, nothing is or it was overlooked for a reason the code leaves; the named are on |
| `GuestAgent_late` | the same, no line left | violation | after a timeout "nobody" is concluded of a guest somebody is on |

Type invariants are not checked by runs of their own: the proof modules prove
them (`TypeCorrect`).

**Why the bounds are enough.**
* Two processes, one of each kind, race at every command, and the invariants
  speak of pairs; three faults let one fail in its setup, one in its teardown and
  one be killed. The theorems cover any number of processes and faults.
* Two guests are the least with a range of ports, a shared backing image (owner
  and sharer) and a partial success; two tags the least for "that and another";
  two gen-vm runs and an `up` let a killed run be followed by one that must
  repair it and a third party interfere. `Scan = 2` with four foreign ports lets
  both the scan and its giving up happen for a range of two ports.
* Two verbs are what it takes for one to read what another wrote; three in
  `QuickStartImages` let one variant record its image, another be cut short over
  it and a third verb find what is left. Three images are one of each kind that
  goes with it: with key and account, without the one, without the other.
* One `down` command from each of the 81 initial states (each guest off, on or
  already stopping) covers any history, since a command starts afresh.
* `FleetStart`: the planned shapes contain the largest fleets plan() accepts, so
  the ranges are checked where they end. The started ones have two guests (a
  worker of another guest), a guest with two and three NICs (a chain), sidecars,
  a second device kind and the services that wait for each other; one crash
  lets each container die at any moment, and two would only repeat it. One of
  them installs from PyPI, in rounds; the others from a source checkout.
* `StackMirror`: depth three is the least with a path below a mistyped entry and
  an operator's path below an asset; each kind of difference is met at each place,
  and two changes make a second one, let a failure follow an edit, or a kill be
  repaired by a run that meets another.
* `ComposeStack`: two commands for "up, then down"; two renders for "rendered
  again meanwhile"; one edit falls at any step of either.
* `VmConfig`: two commands let the second start from the domain XML of the first;
  each layer has a value of its own, so that it can be told which one won.
* `GuestAgent`: one source of doubt at a time per guest (one file that reads
  badly or does not open, all files closed, other sources of accounts, an account
  that passwd lacks, a session id not of digits, more accounts or ids than a cap),
  and any time out besides. Two timeouts: one to shift the answers, one to spend the
  budget.
* TLC does not look for deadlocks where all commands may be spent and the host
  quiet: every module but `QuickStartPorts` and `QuickStartImages`, in which
  ports and directories go on changing.

**Fairness.** `QuickStartPorts!VerbEnds` and `GuestShutdown!VerbEnds` assume
weak fairness of the steps of the running command and of nothing else: it is one
sequential process that the operating system schedules, each of its waits has a
timeout in the code (docker exec 30 s, agent 5 s a line, guests 120 s, health
and SSH waits), and each outcome of a command, the failure included, is a step.
Nothing is assumed of the environment: guests need never power off, ports need
never be released, nobody has to start a command, and neither kills nor failures
of `/proc` are fair. `FleetStart!FleetComesUp` assumes weak fairness of
gen-compose and compose, and that as long as some container can go on, one of
them does (Docker starts, restarts and polls); it speaks only of behaviours in
which nothing crashes and no health check runs out of retries, and neither is
assumed to happen or not.

**Mutants.** Operators named `<Definition>_<what>` beside a definition are the
definition with a plausible mistake, one for each property; the property fails
with it. They are not part of the specifications.

## 4. Proofs

All for every value of the constants that satisfies the modules' assumptions.

| theorem | states | argument |
|---|---|---|
| `MgmtBridge_proofs!TypeCorrect` | `TypeOK` | by action |
| `!HostForwarding` | `HostForwardingKept` | inductive `NobodyClaims`: on a host that forwards nobody is about to set or clear the switch, and nobody claims it |
| `!GuestsKeepForwarding` | `ForwardingForGuests` | inductive `NobodyAboutToClear`, on `EveryStageIntact`: where a guest not exposed runs, its bridge stands for every look of a restore, so none is on its way to the switch |
| `!NetworkIntact` | `GuestNetworkIntact` | inductive `EveryStageIntact`: each stage stands on what the stages before it made sure of; needs distinct ports and subnets |
| `!NothingLeft` | `NothingLeftBehind` | inductive `LetGoInOrder`: a teardown goes through its stages in order, and at each what it is past is gone or its command is recorded as failed; a rule is added only where none was found, so that one -D removes it; needs distinct ports and subnets |
| `QuickStartPorts_proofs!TypeCorrect` | `TypeOK` | by action |
| `!UpAgrees`, `!RetryMoves` | `UpAgreesWithItself`, `RetryMovesOn` | `InStep`: what each step of `up` leaves for the next, where no stuck container was `kept`; the scan only moves upward |
| `GuestDisks_proofs!TypeCorrect` | `TypeOK` | `IndInv`, below |
| `!ImageAsAsked` | `AskedImage` | `RefTrue`: the recorded tag is true of the file unless a pull over it is under way or was cut |
| `!OwnerSound` | `OwnOverlaySound` | `OverlayFits`: during a pull the owner has no overlay |
| `!OverlaysKept` | `UpKeepsOverlays` | `UpsOwn`: quick-start's one gen-vm works on a guest without overlay |
| `GuestAccess_proofs!TypeCorrect` | `TypeOK` | by action |
| `!KeyPinned`, `!AccountAgreed`, `!HalvesPublished` | `KeyIsPinned`, `AccountAgrees`, `BothHalves` | `RefHonest` and `Recorded`: image-ref names the image whose files are there, unless a pull over them is under way or was cut |
| `!NobodySaid` | `NobodyIsOn` | inductive `AgentInv`, below: as long as no answer was taken for another's and the walk counts as complete, each session of a local account that opens and has an id of digits was read or is still to be read |
| `!NothingSaid` | `NothingIsThere` | the same: a node is only asked for after the one before it was found, and "no more nodes" is only said when one did not open |
| `!NamedSaid` | `NamedAreOn` | holds with answers taken for others too: every text the script keeps is one of the guest's |
| `GuestShutdown_proofs!TypeCorrect` | `TypeOK` | by action |
| `!StopsCleanly` | `StopsClean` | refinement of `CleanStop`; inductive `Accounted`: at each step of a command each guest it is about is gone, named, still to be asked, or awaited |
| `!Targeted`, `!PoweredOff` | `OnlyTargets`, `PoweredOffIsTrue` | assuming `OwnNames`: quick-start's guest names are its own. `Aimed`: whom a command has asked, and what it will tear down, is what it is about, and a dry run never gets that far |
| `StackMirror_proofs!TypeCorrect` | `TypeOK`, `Sound` | by action: the output directory stays a tree, and what a run is about to remove is neither the repository's nor shielded |
| `!DataKept`, `!NothingOutside` | `ReferencedDataKept`, `MirrorStaysInside` | `Alone`: while nobody else is at work, what the comparison found is what is there; a path the data lives in and one to be pruned that lie on one path shield each other |
| `!CheckExact` | `CheckIsExact` | a fact of every tree: a difference without links is empty exactly where the asset is mirrored |
| `!SuccessMirrors`, `!FailuresAreContained` | `SuccessIsMirrored`, `FailuresCostNoAsset` | `Progress` and `NoLoss`: what a run is past stays mirrored, resp. complete, as two assets share no path, and what ends it early is a failure of its own or an entry that cannot be cleared |
| `FleetStart_proofs!NodeIds` | `NodeIdIsMacByte` | inductive `Mesh`: while nothing has died, the workers that are registered are the first ones, and a worker is only started behind a healthy one |
| `!GuestsStart` | `GuestsLostOnlyToFailures` | inductive `Alive`, `Lost` and `Missing`: what is healthy has its socket, what a guest was started on is there or has crashed, and its installation ends it only when every round failed |
| `!Addressing` | `AddressesFit` | the addresses are one per service, as ordinals and names determine guest and device and back; ranges from the ceiling `plan()` enforces |
| `!SwitchFits` | `SwitchHoldsAGpuAndItsNics` | the place of each device in the interleaved sockets, then of each socket under its switch |
| `!Artifacts` | `ArtifactsAgree` | the three files read the same numbering of devices, guest by guest |
| `Settings_proofs!DriftWarned` | `DriftIsWarned` | for a command nothing was edited or rendered under: a digest that matches means that the files say what the stack was rendered from |
| `!UserRight` | `UserIsChecked` | the same: what `Check` read of the layers is what docker compose interpolates |
| `!DirsOurs` | `DeclaredDirsAreOurs` | every directory a layer declares is, from `Check` on, the caller's, Docker's already, or denied |
| `!LastLayer` | `LastLayerWins` | the fold over the layers is an explicit function, below |
| `!TeardownSays` | `TeardownStopsOrSays` | what runs after `down` was asked for and is named, under whatever profiles |
| `!HighestWins` | `HighestLayerWins` | the merge of the env files is an explicit function (the last file naming a key), and each layer laid over the others keeps what it does not name |
| `!BackingStands` | `TypedBackingStands` | what the one typed backing clears is cleared above every layer that could name it, so that the pair gen-vm refuses never arises |
| `!GuestKept` | `DomainKeepsGuest` | a domain XML is always some guest's, written by `Emit`; `Parse` of `Emit` is computed element by element and hint by hint, the hints where no text holds a `;` |

Except for those on what a plan lays out and on what a stack was rendered with,
none of the safety properties is inductive alone: each speaks of one moment (the
guest runs, the overlay is made, the container stops), and what makes it true
was established steps before. In `GuestDisks`, `AskedImage` only looks at the
step before the overlay; that the file can be trusted there depends on what
every earlier run, killed or not, left in two files, and that is `RefTrue`.
Nothing orders the tags: a fleet file may go back, and then a record that
survived a killed pull of another tag vouches for the fragment. `cut` marks
exactly these files, and `AskedImage` holds everywhere else (`GuestDisks_back`
shows them). `QuickStartImages` has the same shape for the key directory
(`over`).

`MgmtBridge` excuses as little. What is left of a network past its teardown has
the command that was to remove it in `failed`; a resource of another process, or
one whose command succeeded, is never among it. `ForwardingForGuests` excuses a
guest whose process came to the switch when a restore was already past its look:
the window is there in the code, and every other order is covered.

The ports are an example of the same on a smaller scale: that `up` looks where
the containers publish is a fact about its last step, but it rests on the YAML
having been regenerated after every remap and on the containers a failed try
left having been removed before the next (`InStep`). `RetryMoves` needs no
assumption on how many ports are free: where the scan finds none,
`_next_free_port` answers with its start, and that is past the first try's
range.

`FleetStart` has no fleet size in its argument. That a worker is numbered as its
MAC says is a fact about one registration, but it needs that all NICs before it
have registered and none after it, which is what the chain of `depends_on` buys
(`Mesh`); it holds while nothing has died, and not longer, since a server that
comes back takes a new number. `GuestsLostOnlyToFailures` holds with any number
of crashes and of failed installations: `Alive` ties a health check's verdict to
the socket, and a socket goes only with a server that dies. The rest is
arithmetic of rows: device o of a kind is the d-th of guest n exactly if o = (n
- 1) * per + d, a name or an address gives back its device, and so nothing
collides for any fleet `plan()` accepts. The instances reach the ceiling too, at
360 shapes; the theorems cover every one.

`GuestAgent` needs the longest invariant here. `AgentInv` has four parts.
`Shape`: the script has two halves; up to nsswitch it asks a list that is fixed
but for the device nodes, and from there on walks accounts and then sessions, so
that no account's file is read before it is known which accounts there are.
`LineTrue`: an answer that waits in the line is a true one of the request it is
to, whichever request it will be taken for; an agent answers in order and the
guest does not change during a query. `OnlyTexts`: whatever was taken for what,
the script only holds texts of this guest. And, while no answer was taken for
another's (`crossed`), `Known`: what it holds under a path is that path's text,
a short read is marked partial, and (`Followed`) a walk that still counts as
complete has forgotten no session. `Followed` is what makes `NobodyIsOn` true:
each way to drop a question - the caps on accounts, sessions and words, the
budget, a timeout, a short read - has to take `complete` away, or add to
`partial` after `before` was taken, and each is one case of the proof. What
drops one without doing so - an id not of digits, an open that is refused, an
account that passwd lacks beside an accepted source - is `Overlooked`, and
`NobodyIsOn` says that nothing else is. `NamedAreOn` needs only `OnlyTexts`,
hence no `crossed`.

`ParseLayers` and the flattening of switch groups are folds. What a fold
computes is proved here by an explicit witness: a function on all sets of
positions (or on all prefixes) that satisfies the fold's recursion, and the
least position at which another such function would differ. It is how
`LastLayerWins` and `HighestLayerWins` hold for every number of layers, and the
order of sockets for every number of groups. `GuestAgent!Those`, which keeps
some elements of a sequence, is a recursive function for the same reason.

The assumption `ComposeAssumption` names what the theorems rest on: layers are
read by the suffix of their name; gen-compose is not pointed at the hand-written
default stack (nothing but its caller prevents that, and then the stack's
remembered layers would be another's); the settings of the model are not scaled.
`FleetAssumption` only says that the numbers of a fleet are ints, `VmAssumption`
only that flags are named for fields. `StackAssumption` says that the repository
is a tree and that no fleet keeps its data below a name that is a file there.
`GuestAssumption` says what a guest is: device nodes numbered from one, a file's
kind fixed by its path where the code relies on it, utmp and the agent's list of
users agreeing where there is utmp, passwd holding all accounts where it is the
only source, a logged-in local account having a state file that lists a session
of its own.

**Checked by TLC only.** Liveness (the two `VerbEnds`, `FleetComesUp`), which
with its fairness is out of the prover's reach. Every invariant and every action
property of a passing run is a theorem.

## 5. Assumptions

* One command at a time works on a VM name, and one quick-start verb on a stack
  (nothing enforces it). Commands on different names interleave freely.
* Settings do not move while a quick-start verb runs. Between verbs, tags and pins
  move either way.
* Distinct SSH ports in distinct subnets, where `DistinctNetworks` says so.
  Ports 254 apart share a subnet, and then a guest's rule can be removed.
* A backing file only plain pulls wrote, where `Pulled` says so: `--force`, bakes
  and playbooks leave image-ref as it was.
* The settings `quick-start down` reads are those the stack was rendered from.
  VM names are distinct; two stacks with one prefix would have `quick-start
  down` power off each other's guests.
* Nobody starts, during a `down`, a guest that this `down` is about.
* Guests are asked to power off by whatever agent answers on their socket.

## 6. Where code and documents disagree

Three runs end in a violation; `PROJECT.json` quotes the lines.

1. `Settings_fleet` (`FleetReachesGenVm`): `gen-vm --fleet-file` never reaches the settings of the
   guest.
2. `GuestDisks_back` (`WholeImage`): a pull killed while it unpacks leaves the tag of the image
   before it beside a truncated file; asked for that tag again, gen-vm says
   "Backing image up to date" and makes its overlay on the fragment
   (`gen_vm.py:190-192`, `222-235`, against `CHANGELOG.md:69-71`).
3. `GuestAgent_late` (`NoneMeansNobody`): after one request timed out, an answer is taken for that of
   a later request. On a guest without utmp, the handle of an earlier open then
   answers the probe of `/var/run/utmp`, and "nobody is logged in" is concluded of
   a guest somebody is logged in on (`inspect.py:665`; the script's own comment at
   1049).

What else the modules show of this kind, excused by name in the property it
would break, so that the property says exactly where the code keeps it:

* `ForwardingForGuests` (`exposed`): `_restore_ip_forward` looks for other
  bridges and then switches off; a process that sets up in between loses
  forwarding (`run_vm.py:770-783`, against the docstring at 757).
* `UpAgreesWithItself` (`kept`): stuck containers that Docker does not list or
  remove keep the ports they were made with (`quick_start.py:1005-1016`).
* `KeyIsPinned` (`over`): a pull of the key that dies leaves the record of the
  image before it, and the next verb that pins that one publishes the other's key
  (`quick_start.py:785-791`, `808-814`, against `CHANGELOG.md:69-73`). It speaks of
  images that ship a key: for one that does not, an `id_rsa` of an earlier image
  passes for it (`811`, against the comment at 809).
* `StopsClean`, `PoweredOffIsTrue` (`unseen`): a guest a scan does not show is cut
  without a word; a `docker ps` that times out hides all of a stack's.
* `GuestsLostOnlyToFailures` (`failed`): from a source checkout, the default of a
  stack, the installation has one round, and a single failure loses the guest
  (`gen_compose.py:1079-1084`, against "Retry rather than lose the guest" at 1434).
* `FailuresCostNoAsset`: an entry of the wrong type that cannot be removed ends
  the run before the later assets (`gen_compose.py:2350-2354`, against 2327-2330
  and `README.md:449-450`).
* `MirrorStaysInside`: a generated file that is a link is written through
  (`gen_compose.py:2491-2493`), though the mirror refuses links.
* `HighestLayerWins`: `--ca-cert` is lost (`cli.py:1288`, help at 925); a fleet file
  reaches nothing (item 1). `TypedBackingStands`: of two backings typed together
  the image is dropped, past the refusal at `gen_vm.py:1027` and against the
  comment at `cli.py:1278`. `DomainKeepsGuest` (`Whole`): a hint with a `;` comes
  back cut (`libvirt_xml.py:585`, `687`, against 6-8).
* `NobodyIsOn` (`Overlooked`): a session whose id is not of digits is passed over
  and the walk still counts as complete (`inspect.py:1142`); an open that is
  refused reads as a missing file (`756-758`); accounts of systemd-homed, which
  the comment at 1073-1074 concedes, are in no passwd. `NothingIsThere`: "no GPU"
  of a guest whose first node does not open (`872-875`, against 858-860).

Seen while modelling, and not checked as properties:

*Network.* `run-vm` never restores `ip_forward`: `run()` ends in `os.execvp`,
which drops the handler and `_ip_forward_was_ours`, so a single undisturbed run
leaves a host forwarding that did not (`run_vm.py:213`, against
`CHANGELOG.md:294` and the docstring at 742). In `MgmtBridge`, `Exec` ends the
process image; nothing is stated of the switch once all processes are gone, as
nothing holds.

*quick-start.* With `--no-metrics` env.ports is rewritten without keys an
earlier run moved (`quick_start.py:702`, `736`). A declined `up` has already
moved the ports, and `test` waits at them (`1484`, `355`). A tag bump changes
nothing for guests that have overlays (`885`, `CHANGELOG.md:68`).
`_resolve_images_dir` rewrites env.images without the image refs (`683`,
`1419`). env.images beats the fleet XML, so that the pins of a new release take
effect only once it is gone; a published key is never refreshed.

*Down.* `down` powers guests off before it asks, and says "Nothing was stopped"
when refused (`down_all.py:23`, `183`). `qcow --clean` on a guest that shares
its backing image deletes the overlay and cannot recreate it.

*Settings.* `run-vm`, `compose` and `inspect` have no `--fleet-file`, though the
changelog for 1.6.0 and the stacks' READMEs use it. An empty value in an env
overlay unsets that of the layer before. A domain XML loses: the images
directory of a guest with a shared backing; the agent switched off, and port
forwards that are no plain rule, where there are no QEMU arguments; MAC, root
port, CPU sockets and the like always. It carries `nvme_recreate`, though
`envfile.py:43-47` says such one-time actions do not come from a file.

*Rendering.* GPU and SDXI ordinals have no ceiling, so that an address's last
octet can pass 254. After a mistyped directory with entries was replaced, its
entries give "not fully mirrored" although it is. What turns into a data
directory between comparison and replacement is removed. A relative data
directory inside an asset the source stack also has, or one that is itself an
asset's name, is not protected. `VM_NAMES`, `ERNIC_MACS`, `ERNIC_GUEST_IPS` and
`CONTAINER_USER` cannot be set by a fleet XML. The wait for a TAP (120 s) is
longer than the manager's health budget (65 s). A worker that reconnects gets a
new node id, and the resolver sends to the old one (`NodeIdIsMacByte` excludes
crashes).

*Compose.* The hints of `_warn_if_stale` and `_remembered_layers` name
`gen-compose --env-file`, which gen-compose refuses; a layer whose name does not
end in `.xml` can be rendered and not driven. Layers are read before they are
digested. Directories the generator chose because no layer names one are made by
Docker as root, although `compose.py:221-224` says creating them first is what
makes that moot. A `down` that resolves to another directory than its `up` tears
down another project and asks that project for survivors; nothing is said if
that `ps` fails.

*Guest agent.* An `nsswitch.conf` whose absence is answered late makes the next
file read as absent. A timeout can leave several handles open in the guest, and
a docker exec that times out leaves the script holding a socket that serves one
client.

## 7. Not modelled, and the plan

Not modelled, with the reason in `PROJECT.json`: host checks and packaged
resources (one look, no state), guest provisioning (Ansible tasks in the guest),
host setup scripts, container images, committed stacks, packaging and CI (data,
or short sequential scripts). Partly: the listing of VMs, the QEMU command line,
the command line and the statistics, whose remainder is parsing, formatting and
arithmetic on two readings.

Hazards without a property, beyond those `PROJECT.json` notes: the prompt
between the scan and the unlink in `qcow --clean` (`qcow.py:253`), samples of a
container that was restarted in between (`summary.py:694`), gen-vm's own
directory of shared keys (`gen_vm.py:309`) and `--force` over a backing image in
use (`gen_vm.py:188`).

Left to do:

1. Composition of `QuickStartImages` and `GuestDisks` (the pin as one variable),
   and of `ComposeStack` and `GuestShutdown` (which stack a `down` is about).
2. Two samples of counters with restarts in between (`summary.py`).

## 8. How to run

    tlc -config <run>.cfg MC<module>.tla
    tlapm <module>_proofs.tla      (or Settings_proofs.tla, GuestAccess_proofs.tla)
