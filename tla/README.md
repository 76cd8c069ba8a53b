# Verification of freeipa-cloud-prov

The repository is a set of Ansible playbooks, roles and Python modules that
creates droplets at a cloud provider, installs FreeIPA on them, and lets
FreeIPA issue names, accounts and certificates for docker, etcd and
Kubernetes. Every part of it has the same shape: *look at some state, compute
what is missing, change it, and expect to be run again if anything fails*. The
state looked at is remote, other tasks change it too, and a play can end
between any two tasks. The models of this directory are about that: what may
have become stale, been half done, been lost or arrived late, and whether the
next run gets it right.

## Inventory

| part | state it keeps | operations | depends on |
|---|---|---|---|
| IPA client, `lib/python/ipa.py` | per process: find answer, differences, request queue, `changed` | login, find, queue, post, fail, exit | FreeIPA server (JSON API) |
| IPA classes, `lib/modules/ipa_*.py` | none of their own | parameters, item methods, refusals | IPA client |
| client certificates, `roles/ipa-certs/tasks/op-client-certs.yaml` | key, CSR, certificate, chain on the control host; registered results | check, key, CSR, revoke, request, dump, verify | `ipa_cert`, `openssl_*`, CA |
| service certificates and sub-CAs, `op-service-certs.yaml`, `op-ca.yaml` | certmonger requests, certificates on hosts, running services | create principal, track, restart | `ipa_service`, `ipa_ca`, `ipa_caacl` |
| docker networks, `docker_network.py`, `docker-tls` | network and connected containers in the daemon | create, remove, connect, disconnect | docker daemon, calico |
| disks, `parted.py`, `disk-label`, `mkfs-ext4`, `swap`, block storage | volume, label, partitions, file system, mount | label, partition, format, mount | cloud API |
| FreeIPA installation and configuration | data volume with completion marker, container, unit | clean, start master, start replicas, DNS records | IPA client |
| droplets and volumes, `digitalocean-*`, `destroy-all`, `local-etc-hosts` | droplets, volumes, facts of the play, `/etc/hosts` | create, look up, attach, destroy | cloud API |
| etcd bootstrap | bootstrap certificates and DNS, etcd cluster | check, deploy, switch to IPA certificates | service certificates |
| calico, Kubernetes, iptables | templates and units on hosts | template, apply, restart | etcd, certificates |
| legacy roles, filters, inventory | none | formatting | – |

**How they interact.** Playbooks call roles, roles run tasks on hosts or on the
control host, tasks run modules. A module is one process that talks to the
server and ends. What one task knows of another is what it registered
(`x.changed`), the files on the control host, cached facts and the state of the
servers. Ansible runs a task for several hosts at once, so several modules work
on the server at the same time (`playbooks/freeipa.yaml:63` is serial because
"Parallel IPA requests break"; other plays are not).

**What is hard.** Requests computed from a find that is stale when they are
posted; requests that time out at the client and are executed anyway; a run
that ends between two of its requests; a rerun of what was half done; results
registered in a play that failed, and are lost to the next one; a decision about
one file made on another; completion markers; check mode used for reading.
`PROJECT.json` lists each at its line.

**What makes each part correct.**

* IPA client: a success means what was asked; a second run is quiet; runs that
  interleave lose nothing; nothing changes that no task asked for; reruns
  converge.
* Client certificates: key, request and certificate belong together; reruns
  repair any interruption; a working pair is left alone; valid certificates do
  not pile up.
* Service certificates: a service runs with the certificate on its disk.
* Docker networks: the containers asked for are connected in the end, whatever
  is interrupted. Disks: no data is ever formatted; reruns complete the setup.
* FreeIPA installation: a complete install is never wiped, replicas never
  precede the master, and every host gets installed. Life cycle:
  destroyed means destroyed; nobody connects to a droplet that has got another's
  address. etcd: no member is left on bootstrap certificates.

## Modules

| module | what it is |
|---|---|
| `IPAClient` | clients, one object of the server, requests in flight |
| `IPAClasses` | group, caacl, user, service, ca, dnsrecord, dnszone as values for the class constants |
| `AskedChanges` | abstract: an object that changes only as tasks have asked |
| `MCIPAClient` | instances for TLC, and a documented claim that fails |
| `IPAClientProofs` | theorems about `IPAClient`: types, and additions that stay |
| `IPAClientRunProofs` | theorems about `IPAClient`: where requests come from, what a run has done |
| `ClientCerts` | the client-certs operation, its modules and the CA |
| `MCClientCerts` | instances for TLC |
| `ClientCertsProofs` | theorems about `ClientCerts` |
| `DockerNetwork` | the module `docker_network`, a Docker network and the containers of a host |
| `Parted` | one call of the module `parted`, as operators on disks |
| `DiskSetup` | a volume and its host under the roles disk-label, swap and mkfs-ext4; extends `Parted` |
| `ServiceCerts` | the service-certs operation, certmonger and the services of a host |
| `FreeIPAInstall` | the role freeipa-install on a master, replicas and clients |
| `CloudLifecycle` | droplets, volumes and `/etc/hosts` under provision, freeipa and destroy |
| `MCDockerNetwork`, `MCDiskSetup`, `MCServiceCerts`, `MCFreeIPAInstall`, `MCCloudLifecycle` | instances for TLC; in the first, documented claims that fail |
| `DockerNetworkProofs`, `DiskSetupProofs`, `ServiceCertsProofs`, `FreeIPAInstallProofs`, `CloudLifecycleProofs` | theorems about them |

### IPAClient

A *client* is one task with fixed parameters (`task`), *run* is the module
process: `pc` is where `ensure()` has come to, `seen` the answer of find, `todo`
the part of `self.requests` not yet posted, `changed` the flag reported. `obj`
is the object at the server; all clients work on the same one, since requests
on different objects do not interact. `late` holds requests whose client timed
out: they are executed later (`LateApply`) or never (`LateDrop`).

| code | model |
|---|---|
| a module starts, again or for the first time | `Start` |
| `login` | `Login` |
| `find`, `compute_changes`, `queue_requests` | `Find`: the queue is a function of task and answer (`Queue`, `RequestOf`) |
| `process_queue`, one request | `Post`, in check mode `Simulate`, refused by the server `Reject` |
| `fetch_url` times out | `Timeout` |
| any other way to `fail_json`, or an interruption | `Fail` |
| `exit_json` | `Exit` |

Find and the computation that follows it are one step: the process shares
nothing but the server. Values are abstract; parameters are those that
`AnsibleModule` accepts; `clean()` is modelled by what it does to an empty list
(dropped) and to a missing scalar (default, else dropped). The queue is
ordered by `change_functions`; the class's own methods (for example
`caacl_add_user`) follow in the order of the class constant `ItemSteps`.

The server is external. `Accepts` and `Apply` say what the code relies on:
`_add` needs a new object, everything else an old one; `addattr` and member
methods add, `delattr` and their counterparts remove.

### ClientCerts

One task is one action: `Check` (the first block, with what it registers in
`facts`), `GenerateKey`, `GenerateCSR`, `Revoke`, `Request`, `Dump`,
`DumpChain`, `Verify`. A key is a number, and a CSR or certificate is
identified with the key it was made for; `issued` is the list of certificates
by serial number. `Crash` ends a play between any two tasks, `Timeout` leaves a
request in flight, `Delete` is an operator who removes a client's directory,
`Expire` is time, and `CutShort` a process that ends while it writes a key or a
request: the modules write in place, and take part of a file for the whole
(`cut`, `LoadFails`). `ipa_cert` finds and posts in one action: nobody else works
for the principal but late requests of earlier plays, which commute with the
post or make it fail (`Crash`).

`var/k8s/{cert,key}.pem` is written out in the two tasks that compare a pair
(lines 31-32, 188-189), whichever client is served. `Checked` is the client
whose directory that path names. The playbooks mix `var/...` and `../var/...`,
so it may also name nothing (`None`): then the comparison is always content,
because the digests of two missing files are equal. The runs take `"k8s"`.

### DockerNetwork

A run is one process of the module; `existing`, `wanted` and `todo` are
`existing_network`, `parameters.connected` after `__init__` and what is left of
the loop the run is in. Every call of the Docker API is a step, so that
containers start, stop, join and leave (`Move`) between any two; a run ends
early in `Crash`. A container may be listed by name or by ID (`Ref`).

| code | model |
|---|---|
| `__init__`, `get_existing_network`, `has_different_config` | `Find` with `Wants`, `Different`, `MustRemove` |
| `disconnect_all_containers`, `disconnect_container`, `remove_network` | `List`, `Disconnect`, `Remove` |
| `create_network` | `Create`, and `Inspect` for what it reads back |
| `connect_containers`, `disconnect_missing` | `Connect`; `Connected` (the list is computed), `Disconnect` |
| the rest of `present` and `absent` | `Finish` |

Options are abstract, and one given as false or empty counts as not given, as
in `has_different_config`; `Unmatched` are those that Docker reports under a name
that lower-casing does not turn into the one given (`aux_addresses`), so that
they always differ. `client.networks(names=...)` is taken to match exactly.

### Parted and DiskSetup

`Parted` says what a call does: `Steps` are the disks it goes through, since
every command takes effect at once, `Result` is the last one, `Refused` is when
the program gives up. `DiskSetup` calls it from the tasks of disk-label
(`Label`, `MakePartition`), which swap (`SwapCheck`, `MkSwap`, `SwapOn`) and
mkfs-ext4 (`MkFs`, `InstallUnit`, `Mount`) follow, as in
`provision.yaml:42-64`; with `Swap = None` it is the volume of
`freeipa.yaml:15-36`. `Crash` ends a play between tasks or within a call,
`Reboot` and `Replace` restart the host or attach the volume to a new one,
`Write` is an application, `ByHand` an operator who calls parted. The program is
external: it refuses disks and partitions in use and gives a new partition the
lowest free number.

### ServiceCerts

One task is one action. A sub-CA is a key, a certificate a number with its
`signer`; `runs` is what each service has loaded. certmonger is external: it
asks for a certificate (`Request`), gets it late (`Issue`) and renews it
(`Renew`, `RenewOld`), always from the ipa container of the host, which ends
with docker. `why` is a history variable: each event that may leave a service
with something else than is on disk notes its reason until the service starts
again. `blind` notes that the container was not there to say whether a
certificate is tracked.

### FreeIPAInstall

Hosts go through the tasks in step but for what Ansible enforces (`Dig` comes
after the master's last task); `alive` are those that have not failed. The
container is external and described from `ipa.service.j2` and the comments of
the role: it installs onto a clean volume in the background, leaves
`volume-version` at the end, and is of no use (`stuck`) when it is started on
anything else; an install that is wiped while it runs is `undercut`.

* The `include` of the wait is static, as it is for Ansible 2.1 and later when
  nothing loops: its tasks are skipped one by one on other hosts, and the
  skipped `stat` registers `install_path_stat` as not changed (`Dig`).
* `docker rm ipa` (line 68) removes nothing, the container being
  `ipa-<hostname>` (`ipa.service.j2:53`); the unit kills and removes the right
  one, but only when it is restarted.
* The DNS of a master answers before its install is through (`Answers`).

### CloudLifecycle

A playbook is a path of tasks (`Path`), of which all its hosts do one before any
does the next (`step`, `todo`); a host that fails leaves it (`alive`), and
`--limit` may take any hosts (`only`). The provider is external: it finds
droplets by name, gives a new one any free address, and takes time to destroy
one (`Vanish`), which is listed until then and gives its address back after.

| code | model |
|---|---|
| `digitalocean-droplet-create`, `-destroy` | `Create`; `Destroy`, `Delete` |
| `digitalocean-block-storage` | `CreateVolume`, `Attach` |
| `digitalocean-ips` | `LookUp`: an error is ignored and leaves `ip_addr` unset |
| `local-etc-hosts` | `UpdateEntries`: one task, run once |
| the first and the last play of freeipa.yaml, the last of provision.yaml | `Gather`, `Connect` |

* `UpdateEntries` is decided by the first host of the play: if it has an address,
  the loop writes a line for every host of the inventory, and ends with an error
  at the first that has none (`ip_addr` is undefined); if not, it removes all.
* Facts that are set are not cached, so each play looks addresses up again, and
  one that is limited to some hosts knows those of no other.
* `retries` without `until` is one try (`Delete`).
* freeipa.yaml connects to its hosts before it looks them up (`Gather`), with
  entries of an earlier play: `ReachesOwn` speaks of `Connect` only. A play of a
  later tag alone skips the lookup in the same way.

## Runs

The passing runs of `IPAClient` switch deadlock detection off since the bound
on runs ends every behaviour; all others check it.

| run | instance | shows |
|---|---|---|
| `GroupRerun` | 1 group task, present, absent or exact, real or in check mode, 2 runs and 2 failures, fairness | converges, stays converged, quiet second run, check mode is truthful |
| `Caacl` | 2 tasks with five states (exact in check mode too), enable flag, item methods on two lists; 1 failure | success is what was asked, quiet second run, additions stay (`PresentInv`), refinement of `AskedChanges` |
| `CA` | 2 sub-CA tasks, attributes that may not be modified; 1 failure | the subject never changes |
| `Certs` | docker and k8s, played together or alone; 2 failures, 1 deletion, 1 expiry | `RequestIsOfKey`, `OneValid` |
| `CertsHealed` | k8s, 5 failures, 1 deletion, fairness | a working pair is kept; reruns arrive at a pair that matches |
| `Network` | 2 containers, 2 options, 16 sets of parameters, 2 moves, 1 crash, fairness | success is as asked where text and code agree, unchanged is true, nobody is disconnected whom a list does not leave out, runs settle |
| `Disk` | 3 partition numbers, 2 swap sizes, 3 faults, 2 calls by hand, fairness | data is kept, partitions lie where asked, a repeated play is quiet, plays complete the setup |
| `ServiceCerts` | 3 services with docker in the middle, 3 keys of the sub-CA, 3 faults, fairness | a success verifies; a stale service has a reason; the certificate is deployed; restarts come to an end |
| `Install` | master, replica, client; 2 faults, fairness | complete installs are kept, others start when the master is ready, all get installed |
| `Cloud` | 2 hosts, 3 addresses, any limit, 1 fault, fairness | connections reach the right droplet, success leaves entry and volume, hosts come down and up |

**Bounds.** Two clients are enough for every stale find, since a third acts on
the object only as the second does; one value of a list attribute stands for
each value, because the code treats the values of a list independently
(`GroupRerun` has two values of either kind). One failure per behaviour with
two clients, and two with one client, let a late request meet a rerun and
another task. `MaxKeys` and `MaxCerts` bound what can be made: in `CertsHealed`
they exceed what five failures and a deletion can use up, in `Certs` the CA
refuses when its limit is reached (`Refuse`), which is one more failure.
`MaxExpiries = 0` in `CertsHealed`: an expired certificate is never renewed by
the operation (only its chain is dumped again and the final check fails), so
healing cannot be asked for. `NewestLast` is TRUE in one run and FALSE in the
other: the order in which the server lists certificates is not in the code.

Two containers are enough for one that is listed and one that is not, and two
moves for one that leaves and comes back. Three places and three numbers leave
a partition too many and a gap. Docker in the middle of three services gives one
that restarts before and one after the container ends; three keys of the CA let
it change twice under one play. A replica and a client differ in the code, and
each meets the master alone, so that a second of either adds nothing but
interleavings. Two faults let an install fail and the play that repairs it be
interrupted. Two hosts are the first of a play and one that is not; of three
addresses one is free when both have theirs, so that a new droplet may get an
old address or a fresh one. One fault is enough for each single failure
between two tasks, and in the middle of the loop over the entries, that later
plays then meet.

**Symmetry.** `Caacl` and `CA` identify states that differ only in the
names of the clients: all clients of an instance are alike, no property names
one, and these runs check no liveness.

**Fairness.** A started module is one process and runs to its end
(`WF(Module)`); the operator reruns a failed play (`WF(Rerun)`, `WF(Play)`); a
request in flight is executed or lost (`WF(LateResolved)`, `WF(LateStep)`).
Nothing is assumed about failures but that they are finitely many. No fairness
is assumed of a client that has succeeded: nobody has to run it again. In the
modules of this table's lower half the operator plays for ever (`WF(Play)`,
`WF(Begin)`), which is how the playbooks are used; certmonger asks until it is
answered and renews in time, systemd starts the ipa container again
(`WF(Issue)`, `WF(RenewOld)`, `WF(StartIPA)`), an install comes to its end
(`WF(Install)`), and a droplet that is destroyed is gone some day (`WF(Vanish)`).
`ComesDown` and `ComesUp` ask for the end of a behaviour in which the operator
plays one playbook, for all hosts, from some time on. Moves, reboots, wipes and calls by hand have no fairness.

**Preconditions that restrict a property** name what the code does not handle:
`HandledCase` (an existing object without attributes is taken for an absent
one; an object created with state=disabled stays enabled), `RepeatsNothing` (a
default "removed" by setting it to itself is sent every time), `Announcing` (in
check mode, removals, enabling and the item methods of `ipa_service` and
`handle_principal` of `ipa_user` report nothing), and, in
`EventuallyConverged`, a task that is not in check mode and an object that does
not look absent. In `OneValid` and
`Healed`, `strays` counts requests that were executed after their play had
ended: each may leave one more valid certificate, or revoke one unnoticed.
`Healed` leaves out a client whose key or request is half written: no play makes
the file anew or arrives at a matching pair until it is deleted (a failed write removes the
key only if it raises `IOError`; `os.write` raises `OSError`, which is another
class in Python 2).

`Repeatable` names what a rerun of `docker_network` cannot settle: containers
listed by ID, options in `Unmatched`, force. `GetsSetUp` leaves out a volume
with a file system and no table, a swap size that changed, and `Blind` (an old
parted asked for a link). `Sound` leaves out a sub-CA that is replaced under the
play and a container that was down when it was asked. `GetsInstalled` names the
two ways in which the role never gets a host installed: `Overtaken` (an install
that ends between stat and wipe leaves its marker on an empty volume, since
`volume-version` is not among the files removed) and `Stranded` (a replica whose
volume is wiped under a container that is of no use and not restarted).

### Disagreements found

Three are shown by runs that are expected to find a violation.

| run | the text | the code |
|---|---|---|
| `ServiceAbsent` | `ipa_service.py:27`: without managed_by, absent removes the service | the defaults of three parameters make every absent task one that removes parameters |
| `NetworkDocs` | `docker_network.py:87-88`: an empty list leaves no containers connected | it is replaced by the containers found (`Wants`) |
| `NetworkDocs` | `docker_network.py:51-53`, `82-83`: a network with containers is removed or updated only with force | a configuration that differs is enough, and absent does not look at force (`MustRemove`) |

`NetworkDocs` checks `OneIsKept`, that each run keeps `EmptyLeavesNone` or
`RemovalNeedsForce`. A state that breaks it breaks both, so one counterexample
shows both: a network with another driver is replaced without force, and its
container is connected to the new one over an empty list. Each of the two fails
alone as well. The properties of `Network` claim nothing about these two cases:
under an empty canonical list `DoneMeansAsked` leaves open whether those found
stay, and `DisconnectsOnlyAsked` speaks of runs that have no reason (`MustRemove`)
to remove the network.

The others follow from the definitions.

| the text | the code |
|---|---|
| `ipa_group.py:127`: "Ensure group is absent" | a group without attributes counts as absent already (`IsAbsent`) |
| `ipa_caacl.py:43`: disabled is a "State to ensure" | an object created by the task is left enabled (`EnableQueued`) |
| `ipa_group.py:58,60`: members not passed are removed | only with state=exact (`ListDel`) |
| `op-client-certs.yaml:3-5`: a valid certificate saves the work | docker's valid certificate is revoked over the state of the k8s pair (`Checked`) |
| `freeipa-install/tasks/main.yaml:52-53`: an incomplete install is restarted "from scratch" | the container of an earlier play goes on over the wipe, and a replica's is not restarted (`WipeVolume`, `Dig`) |
| `op-client-certs.yaml:186`: "Verify cert matches key" | skipped just when a certificate was fetched (line 191); the next play repairs it |
| `README.md:112-113`: `-l host1` destroys host1 | the entries of all other hosts go too, or, while its droplet is still listed, the play ends at the next host's (`UpdateEntries`) |
| `digitalocean-droplet-destroy:36-37`: "Droplet can take time", three retries | one try: there is no `until` (`Delete`) |
| `digitalocean-droplet-destroy:40`: "Destroy freeipa volume" | never runs: no host is in the group `freeipa` |

Further facts met while modelling. The docker client is served before the k8s
client: if the k8s pair does not match, the docker operation replaces its valid
certificate, then fails its final check, so the whole playbook does not get past
it until the k8s tag is played alone. The stat of the client key looks at the
certificate's path (lines 17-18). A revoked certificate on file is not noticed,
since no CRL is consulted. If the key is deleted and the request kept, no
number of plays repairs the pair: hence `KeepsTogether` below.
state=absent with parameters creates an object that is missing.

`docker_network` compares names only, so that a container listed by ID is
connected twice (Docker refuses) or disconnected as one not listed; in check
mode with a network to create, `container_names_in_network(None)` raises.
`format_disk_size` lower-cases the unit and then looks for it in lists that are
not, so that every explicit unit is taken for bytes; nobody reads the result.
`mkswap` formats whatever partition 1 holds once nobody swaps to it, and the
check after it looks at stderr for what is printed on stdout (swap:80). A
renewal by certmonger restarts no service, since the request names no command
to run after it; the branch `started` of `op-service-certs.yaml:108` is dead,
the task running only if the fact is true. `host-del` (freeipa-install:190) runs
in every play and unenrols clients that are complete.

Provisioning with `-l` fails at the entries of the hosts left out. A host that is
provisioned while its old droplet is still listed is taken to be there, and is
lost when that goes; the next play makes it.

## Proofs

The theorems hold for every value of the constants that satisfies the
assumptions of the modules: any number of clients, tasks, attributes, values,
item methods, failures and runs.

* `TypeCorrect`: `Spec => []TypeOK`. `TypeOK` is inductive as it stands. The
  work is in what find queues: requests well typed, never an `enable` on a
  class that cannot be enabled, and an object that stays a server object under
  every request the server accepts.
* `PresentInvariant`, `PresentStays`: `Spec => []PresentInv` and
  `Spec => []PresentSticks`. `PresentSticks` is not inductive: it says nothing
  of a client that has still to post, nor of requests in flight. `PresentInv`
  adds both: while no removing task was started, a value that a task asks for
  is on the object *or* in a request that its client has still to post
  (`Pending`), and no request in flight removes anything (`Additive`). It needs
  that a client with a `REM` request has state=absent, and that every list
  attribute is carried by some request (`ClassAssumption`). It is model-checked
  in `Caacl` before it is proved.
* `IPAClientRunProofs`, first part: `AskedOnly`, `FrozenStays`, `ConvergedStays`.
  All three are about single requests, and none can be told from a state alone:
  the find a request came from is past. `OriginInv` remembers enough of it: each
  entry of a queue, and each request in flight, is what *some* find of a task
  that was started, for real and without being refused, calls for (`From`). For
  the refinement, a `Start` is the abstract `Ask`, an executed request, early or
  late, the abstract `Change`, and all else a stutter; what remains to show is
  that `Apply` of a request that is `From` a task moves lists, scalars and flag only
  towards that task (`AskedChanges` does not know of finds, queues or requests).
  `FrozenScalars` needs that the find that queued a modification of a frozen
  scalar would have refused. `StaysConverged` has the hypothesis `SameTask`: the
  clients are runs of one task, as in `GroupRerun`; with two tasks that
  contradict each other it is false.
* `IPAClientRunProofs`, second part: `DoneIsDesired`, `SecondIsQuiet`. Both speak
  of the end of a run and rest on the sum of its steps. `OwnInv` says that, for a
  run nobody has disturbed, the object is `Reached`: what find answered, with
  the differences of the requests posted so far and of no others, in whatever
  subset. When nothing is left to post, the sum is the whole difference, which is
  what `Desired` asks and what a second find computes none of. That every
  difference is carried by some request is `ClassAssumption`.
* `IPAClientRunProofs`, third part: `CheckPredicts`. In check mode `CheckInv` counts
  what has been announced and what is still in the queue as one.
* `RequestOfKey`: `KeepsTogether /\ Spec => []RequestIsOfKey`.
  `KeepsTogether` says that the operator never deletes a key and keeps its
  request. The invariant is inductive with the part of `TypeOK` that says which
  client is served.
* `OneIsValid`: `Spec => []OneValid`, inductive with the types: a step issues at
  most one certificate (`OneIssued`), and either finds none valid or is counted.
* `UsableStays`: `Alone /\ Spec => UsableKept`, where `Alone` says that the pair
  compared is that of the only client. A play that replaces a pair has found one
  that does not work (`BrokenInv`), and it cannot begin to: a new key is one that
  nobody has a certificate for (`MadeInv`).

* `DockerNetworkProofs`: `TypeCorrect`, `SuccessIsAsAsked`, `NoChangeIsTrue`,
  `OnlyAskedDisconnect`. A promise about a run that is done rests on what the run
  knew on the way: `RunInv` says what it saw (`Seen`), that what it wants comes
  from its parameters or from what it found (`Intent`), that each container of the
  list is connected, moved, or still to be dealt with (`Pending`), and that a
  run that has changed nothing met nothing to change (`Quiet`). It says for an
  empty list what the code does, those found (`Target`), which is more than the
  theorems claim.
* `DiskSetupProofs`: `TypeCorrect`, `DataIsKept`. `DataKept` needs what a
  table tells of the partitions (`TableInv`: a disk without one that parted knows
  has none, so that disk-label destroys no data when it labels it); that the swap
  partition of a disk with a table never holds data (`SwapInv`), so that `mkswap`
  destroys none; and where a play has come to (`PlayInv`).
  `SetUpIsQuiet` follows from the same invariant: a volume that has its
  partitions has a table, so that nothing is labelled.
  `NumbersAreKept`: `InOrder /\ NoneByHand /\ Spec => []NumbersMatch`. mkpart takes
  the lowest free number; that it is the one asked for is no fact about a call but
  about the play: the partitions before it are there (`MadeInv`), because each
  task makes its own or ends the play (`PartMade`). The hypotheses are what the
  playbooks do: partitions are listed by number from 1 on
  (`provision.yaml:52-56`, `freeipa.yaml:26`), and by hand none is made.
* `ServiceCertsProofs`: `TypeCorrect`, `DeploysSound`, `StaleExplained`. The
  invariant adds what a play has checked at each task (`PlayInv`), and that a
  service that is stale with no reason will be restarted by the play under way
  (`StaleInv`).
* `FreeIPAInstallProofs`: `TypeCorrect`, `WholeStays`, `BeginsReady`. What must
  not be wiped is not mentioned by the containers that write: `BoxInv` says that
  one that is to install, or was undercut, has a clean volume, and no marker if it
  is to install. `MasterInv` and `ReadyInv` carry the check of `Dig` over to the
  start of a replica, `KnownInv` the deletion of its entry.
* `CloudLifecycleProofs`: `TypeCorrect`, `ReachesItsOwn`, `DoneIsUp`. An address
  that a play has found is the droplet's or nobody's until the play ends
  (`OwnInv`), since no playbook creates a droplet after its lookup (`FactInv`);
  entries that it has updated are what was found (`EntryInv`). `VolumeInv` and
  `ConnectInv` carry what a host has passed to the end of the play.

Not proved: liveness (`EventuallyConverged`, `Healed`, `Converges`, `GetsSetUp`,
`GetsDeployed`, `Settles`, `GetsInstalled`, `ComesDown`, `ComesUp`) is
beyond the prover and stays with TLC. Every other property of a passing run is
stated by a theorem. The instances of the classes in `IPAClasses` are values of
the constants; that they satisfy the assumptions is evaluated by TLC for the
instances in the runs.

Assumptions of `IPAClient` that the theorems use, and why the code justifies them:
a task has state enabled or disabled only in a class that can be enabled
(`TaskAssumption`: only `EnablableIPAClient.state_choices` lists them, and
`AnsibleModule` refuses any other); each list attribute outside the base keys has
a method that adds and one that removes (`ClassAssumption`; so it is with all
classes whose `change_functions` name item methods). Before they were proved,
TLC checked `OriginInv`, `OwnInv` and `CheckInv` on instances of the group class
and on that of `CA`, and `MadeInv` on that of `Disk`.

## Not modelled

The conversions of values (`clean()` types, PEM, DN), HTTP and login details,
and what the server does beyond `Accepts` and `Apply`. Of `parted`: sizes in
other units (nobody reads them), names of partitions, CHS output. Of freeipa-install: the certificate for the control host, resolver,
named and httpd configuration (232-303), which are single edits of files.
Of droplets: ignition data, the SSH key, the cache of facts in `var/`. The roles
`docker-tls` and `calico-deploy` restart on what they registered, as
`ServiceCerts` does. Pure templating, filters and the legacy roles are left out
for good.

## Plan

Done: `IPAClient` with `AskedChanges`, `ClientCerts`, `DockerNetwork`, `Parted`
with `DiskSetup`, `ServiceCerts`, `FreeIPAInstall`, `CloudLifecycle`. Next is
`EtcdBootstrap`: bootstrap certificates, the check, and the switch to IPA
certificates, composed with `ServiceCerts`.

Theorems to prove next: that two tasks on one object that do not contradict
each other, run in any interleaving, leave what both ask for; and that a play
of destroy limited to some hosts leaves the droplets of all others alone.

## Running

    tlc -config Caacl.cfg MCIPAClient.tla          # any run: see PROJECT.json
    tlc -config Certs.cfg MCClientCerts.tla
    tlc -config Disk.cfg MCDiskSetup.tla
    tlapm IPAClientProofs.tla                      # any module ...Proofs
