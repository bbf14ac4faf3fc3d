# Verification of the NTTC-CIS load-balancer driver

This directory holds a TLA+ model of `NttCisLBDriver`, the driver in
`src/libcloud/loadbalancer/drivers/nttcis.py`. It contains the modules, the
TLC configurations that check them, and the TLAPS proofs about them.
`PROJECT.json` lists the components, runs, mutants, the map from definitions
to source lines, the findings, the hazards and the theorems.

## 1. The system

The driver is a client of a remote REST/XML API. Each public method builds
one or more requests, sends them through
`connection.request_with_orgId_api_2`, and parses the answer into a handle
object:

| Handle | Made by | Fields the driver relies on |
|---|---|---|
| `LoadBalancer` | `create_balancer`, `_to_balancer` | `id` (listener), `extra["pool_id"]`, `extra["network_domain_id"]` |
| `Member` | `balancer_attach_member`, `balancer_list_members` | `id`, `ip` |
| `NttCisPoolMember` | `ex_create_pool_member`, `_to_member` | `id`, `node_id` |

The only driver-side state is `self.network_domain_id`. It is set by
`__init__` and by `ex_set_current_network_domain`, and it is read once at the
start of `create_balancer`. Everything else lives on the server: pools,
nodes, pool members and virtual listeners, each in a network domain.

Several methods send more than one request:

* `create_balancer` sends `createPool`. Then, for each element of `members`,
  it sends `createNode` (only for a compute node) and `addPoolMember`.
  Last it sends `createVirtualListener`.
* `balancer_attach_member` sends `createNode`, then GETs the pool, then sends
  `addPoolMember`.
* `ex_destroy_pool_member` sends `removePoolMember`, then optionally
  `deleteNode`.

No method catches an exception. What a call has created before a later
request fails stays on the server.

A program may share one driver between threads, or call it from callbacks.
Calls can therefore interleave between their requests, and
`ex_set_current_network_domain` can run in the middle of a `create_balancer`.
Requests and answers travel over HTTP: a request can be lost, or be applied
by the server while its answer is lost, and then the call raises.

## 2. The model

### Modules

* `NttCisLB.tla` is the driver together with an abstract server.
* `MC_NttCisLB.tla` instantiates it for TLC.
* `NttCisLB_proofs.tla` holds the type-correctness proof.
* `NttCisLB_InvProofs.tla` proves the inductive invariant `IInv` and the
  three invariants that follow from it.
* `NttCisLB_PoolProofs.tla` proves that every pool on the server stays
  reachable by the program.

### State

| Variable | Stands for |
|---|---|
| `srv` | server objects by id: kind, domain, pool, node, ip. Deleted objects have kind `"none"`. |
| `nextId` | the next id the server hands out. Ids are never reused. |
| `faults` | lost requests or answers so far, at most `MaxFaults` |
| `domain` | `self.network_domain_id` |
| `pc`, `loc` | for each caller: where it is inside a multi-request method, and that method's locals (`network_domain_id`, `pool`, the current `node`, the members still to add, the listener port and optimization profile, the member's ip) |
| `lbs`, `mems`, `pms` | the `LoadBalancer`, `Member` and `NttCisPoolMember` handles the program holds |
| `created`, `orphans` | history variables: the ids the running call created, and the ids created by calls that then raised |

### Actions

Each request of a multi-request method is one action. Its outcome is chosen
with `\E out \in Answers(accept)`:

* `"ok"`
* `"rejected"`, when the server refuses
* `"lostRequest"`, within the fault bound
* `"lostResponse"`, within the fault bound; the server applied the request
  but the client raises

`Raise` ends the call. It adds what the call created to `orphans`.

| Action | Code |
|---|---|
| `ExSetCurrentNetworkDomain` | `ex_set_current_network_domain` |
| `CreateBalancerPool` | `create_balancer` lines 162-175 and `ex_create_pool` |
| `CreateBalancerNode` | the `ex_create_node` branch of the members loop |
| `CreateBalancerMember` / `AddPoolMember` | `ex_create_pool_member` in the loop. A libcloud `Member` is passed as the node, so its id is sent as `nodeId`. |
| `CreateBalancerListener` | `ex_create_virtual_listener` and the `LoadBalancer` that `create_balancer` returns. This includes the `ValueError` for a STANDARD listener without an optimization profile. |
| `AttachCreateNode`, `AttachGetPool`, `AttachAddMember` | the three requests of `balancer_attach_member` |
| `BalancerDetachMember`, `DestroyBalancer`, `ExDestroyPool`, `ExDestroyNode` | the single-request removals |
| `ExDestroyPoolMember`, `ExDestroyPoolMemberNode` | the two requests of `ex_destroy_pool_member` |
| `ExSetNodeState` | `ex_set_node_state` |
| `ListBalancers`, `BalancerListMembers`, `ExGetPoolMembers`, `ExGetPoolMember` | the reads that produce handles, through `_to_balancer` and `_to_member` |
| `ExUpdateListener` | `ex_update_listener` (lines 215-240). Of its keyword arguments the model keeps `poolId`: absent, a pool id, or None, which the code sends as `xsi:nil`. An applied edit sets the listener's pool to that id or to none; `_to_balancer` then gives `pool_id` None (lines 1505-1507). |
| `ExUpdatePool`, `ExUpdateNode`, `ExSetPoolMemberState` | the other edit requests. They change only fields no property reads (limits, status, load balancing method), so the model keeps their control: the request is accepted only when it names a live object of the right kind, and a loss or refusal raises. `EditReq` is their common outcome. |

### The server

The server is not in this repository, so it is modelled from the API's
documented behaviour. Those definitions are marked `spec_modelled` in the
map. The server refuses a request when any of these holds:

* it names an id of the wrong kind, or an unknown id;
* it deletes a pool or a node that a member or listener still uses;
* it has no free id (`MaxId`);
* it is an `editNode` without an id.

The last refusal is the model of a bug in the code: `ex_set_node_state`
builds its `editNode` element without the node's id (line 547, where
`ex_update_node` sets it at line 522), so `ExSetNodeState` is always
refused. No property is spent on it: it would only restate that guard.

The server does not check that a node and a pool are in the same domain.
That is the driver's job, and it is what `CallDomainConsistent` checks.

### Abstractions

* Names, descriptions, ports of members, protocols, algorithms, connection
  limits and the XML layout are left out. No property distinguishes them.
* The elements of `members` are a compute `Node`, passed by its private ip,
  or a libcloud `Member`, passed whole as the node. The program may have
  set a `Member`'s id to anything, so the model lets it be any id or None
  (`MemberInputs`), and the server then refuses the `addPoolMember` unless
  the id names a node.
* `ListenerType` maps port 80 and 443 to PERFORMANCE_LAYER_4 and any other
  port to STANDARD. The runs use port 8080 only (`MC_ListenerPorts`): with
  it the optimization profile alone decides between the `ValueError` and
  the request, and port 80 would only add the case a profile already
  covers.
* The optimization profile is `"TCP"` or `"NONE"`. `"NONE"` is Python's None.
* A `KeyError` for an unknown algorithm is raised before any request. It
  changes nothing, so it is no action.

## 3. Properties and runs

Every run has 2 symmetric callers, 2 domains and 1 ip. Two passing runs
split the work, because a `create_balancer` with members, lost messages and
four ids together is beyond five minutes of TLC.

### Run `core` (`MC_NttCisLB.cfg`, expected to pass)

`MaxId = 4` (enough for a pool, a node, a member and a listener),
`MaxFaults = 0`, `members` empty. About 174,000 distinct states, 35 s. It
checks:

* **TypeOK**.
* **BalancerHandlesAccurate**: while its listener exists, every
  `LoadBalancer` handle has the listener's network domain.
  `ex_set_current_network_domain` may run between any two requests of
  `create_balancer`; the handle is right because the method returns its
  local copy of the domain. Its `pool_id` is not claimed:
  `ex_update_listener` makes it stale and nothing updates it.
* **HandleIdsKindCorrect**: `Member` and `NttCisPoolMember` ids name pool
  members, never nodes or pools, and a pool member's `node_id` names a
  node; `balancer_detach_member` and `ex_destroy_pool_member` then remove
  what they mean to.
* **LeftPoolsReachable**: every pool on the server is the `pool_id` of a
  `LoadBalancer` handle the program holds, or one a running call, or a call
  that raised, created. `destroy_balancer` deletes only the listener
  (line 377), and `ex_update_listener` may move the listener off its pool,
  so the pool is left to `ex_destroy_pool` on the handle's `pool_id`.

### Run `members` (`MC_NttCisLB_Members.cfg`, expected to pass)

`MaxId = 3`, `MaxFaults = 1`, at most one element in `members`, of either
kind and with any id. About 68,000 distinct states, 11 s. It checks:

* **CallDomainConsistent**: while a `create_balancer` or
  `balancer_attach_member` call runs, every pool and node it has created
  lies in the domain it works in: the one `create_balancer` read at
  line 162, or the balancer's `network_domain_id` (line 332). Another
  thread may switch the driver's domain between any two requests.
* **LeftPoolsReachable** again, now with a lost request or answer: a pool
  whose `createPool` answer was lost is still recorded as created by the
  call that raised.

The mutants (`PROJECT.json`) are plausible bugs in the mapped code that TLC
shows break each property:

* `member.id` set to None, or to the node's id (`TypeOK`,
  `HandleIdsKindCorrect`);
* the returned `LoadBalancer` re-reading `self.network_domain_id`
  (`BalancerHandlesAccurate`);
* `pool_id` left out of that handle (`LeftPoolsReachable`, both runs);
* `create_balancer` creating a member's node in `self.network_domain_id`
  instead of its local copy (`CallDomainConsistent`).

### Run `node_leak` (`MC_NttCisLB_NodeLeak.cfg`, expected violation)

It checks **LeftNodesReachable**, the same question for nodes: every node
is used by a pool member, held through a `NttCisPoolMember` handle, or was
created by a failed or running call. With no fault at all, TLC violates it:
`balancer_attach_member` creates a node (line 331) and returns a `Member`
whose id is the pool member's; `balancer_detach_member` then removes only
the pool member (line 358), and nothing the program holds names the node.
This is the project's finding.

### Fairness

`Spec` has no fairness. Every call is made by the program, which may never
make it, and no property of the project is a liveness property. The reads
keep the system from deadlocking, so deadlock is checked in every run.

## 4. Proofs

Three modules hold proofs. Every theorem holds for all values of the
constants under `ConstantsAssumption`, which says the sets are non-empty
and the bounds are naturals.

### Type correctness (`NttCisLB_proofs.tla`)

**TypeCorrect**, `Spec => []TypeOK`, is proved by the usual induction:
`Init => TypeOK`, and `TypeOKStep`, which says each action preserves
`TypeOK`. Each action step has the same shape:

1. PICK the action's witnesses (the outcome, the balancer, the member).
2. Show the created object is in `Obj`, with `NewPoolTyped`,
   `NewNodeTyped`, `NewListenerTyped` and `NewMemberTyped`.
3. Apply `CreateTyped` or `DeleteTyped`. An object is only created when the
   server has room, so the new id is in `Ids`.
4. Bound the fault counter. A loss is only possible below `MaxFaults`.
5. Split on the outcome and apply `GotoTyped`, `ReturnTyped` or
   `RaiseTyped` to the per-caller variables.

### The consistency invariants (`NttCisLB_InvProofs.tla`)

This module proves **CallDomainConsistentInvariant**,
**BalancerHandlesAccurateInvariant** and
**HandleIdsKindCorrectInvariant**, each from the lemma `IInvInvariant`,
`Spec => []IInv`.

None of the three is inductive by itself. `CallDomainConsistent` says
nothing of the pool a call holds in its locals before it creates a node,
nor of an id the caller has not created yet: a step could add an id to
`created[c]` that another domain's object already holds.
`BalancerHandlesAccurate` says nothing of ids not yet issued, so a create
could land on an id a handle already names. The strengthening `IInv`
(`NttCisLB.tla`) was checked with TLC in both run configurations before it
was proved. Its predicates take the server state `s` and its next free id
`n` as parameters:

* `ObjOK(s, n, i)`: ids from `n` on name nothing; an object refers only to
  earlier ids; a pool member's node is a node (or deleted).
* `BalOK`: a `LoadBalancer` handle refers to issued ids, and carries its
  listener's domain while the listener exists.
* `MemOK`, `PmOK`: the ids of `Member` and `NttCisPoolMember` handles name
  members (or deleted objects); a `node_id` names a node.
* `LocOK(s, n, p, l, cr)`: inside `create_balancer` the locals' pool is an
  issued id; an idle caller has created nothing; every pool or node in
  `created[c]` is issued and in the call's domain `l.dom`.

The argument rests on one observation. The server only stores new objects
at `nextId`, only marks objects deleted, and changes no field of an issued
id but a listener's pool, which `ex_update_listener` sets to an issued pool
or to none. `Grow(s, n, s2, n2)` states this about a step, and the lemmas
`ObjStable`, `BalStable`, `MemStable`, `PmStable` and `LocStable` show
that every conjunct of `IInv` about an issued id survives it
(`RepointServer` is the listener edit).

`StepOK` reduces `IInv'` to three obligations for an action: the ids from
`nextId` on (`ServerStepOK`), the handles it adds (`HandlesStepOK`) and the
locals and created ids it changes (`LocalsStepOK`). There is one lemma per
action. The interesting cases:

* `CreateBalancerPool` and `AttachCreateNode`: the caller was idle, so
  `created[c]` was empty, and the new pool or node is in the domain the
  call keeps in its locals.
* `CreateBalancerNode`: the node is created in `loc[c].dom`, and
  `CreatedGrows` adds it to what the call created so far.
* `CreateBalancerListener`: the handle's domain is the listener's.
* the reads: `_to_balancer` and `_to_member` copy fields of live objects.

### Pools stay reachable (`NttCisLB_PoolProofs.tla`)

**LeftPoolsReachableInvariant**, `Spec => []LeftPoolsReachable`, says
every pool on the server is the `pool_id` of a `LoadBalancer` handle the
program holds, or is in `created[c]` of a running call, or in `orphans`.
It is not inductive by itself. The listener step of `create_balancer`
ends the call, and `created[c]` is emptied. The pool is then reachable
only if the handle it returns carries that pool. Nothing in
`LeftPoolsReachable` says the pool in `created[c]` is the one in the
call's locals.

`CreatedPoolsOwned` supplies this. For a call `c`, every id in
`created[c]` was issued. One that is still a pool belongs to a call in
`cb_loop` or `cb_add`, and it is `loc[c].pool`. The lemma
`PoolInvInvariant` proves `PoolInv == IInv /\ CreatedPoolsOwned /\
LeftPoolsReachable` inductive, with one lemma per action:

* `NewPoolCall`: the first request of `create_balancer` is the only one
  that stores a pool. The pool goes into `created[c]` and into the locals,
  or into `orphans` when the answer is lost. The caller was idle, so
  `created[c]` held no pool before (`NotCbNoPool`).
* `CreateGoPools` and `StayCall`: a later request of a running call
  creates no pool (`CreateNoPool`) and keeps the locals' pool.
* `CreateEndPools` and `EndCall`: a call that returns or raises does not
  lose its pool. On a raise, `created[c]` moves into `orphans`. On a
  return, the `LoadBalancer` handle added to `lbs` has the pool.
* Deletes, the listener edit and reads cannot turn an object into a pool
  (`DeleteNoPool`, `ExUpdateListenerPools`). They never shrink `lbs` or
  `orphans`, and handles keep their `pool_id` even when the listener moves.

### What is only model-checked

* `LeftNodesReachable` is violated by the code, so it has no theorem.

Out of the prover's reach in general:

* liveness and ENABLED;
* what a recursive definition computes for every input;
* any module that reaches a RECURSIVE operator. The model has none.

## 5. Not modelled, and why

* Direct program calls of `ex_create_pool`, `ex_create_node` and
  `ex_create_pool_member`. The model has them only inside
  `create_balancer` and `balancer_attach_member`.
* The SSL certificate, chain and offload-profile operations read local files
  and do not touch the tracked objects.
* `ex_wait_for_state` delegates to a loop outside this repository.
* The read-only getters other than the ones above (`ex_get_nodes`,
  `ex_get_node`, `ex_get_pools`, `ex_get_pool`, the listeners). They return
  fresh objects the model does not track.
* The vCloud test suite, which tests a driver that is not here, through mock
  HTTP.
* That a failed call leaves what it created on the server (line 187, 339,
  712) is the code's documented behaviour, not a property: no method catches
  an exception. The model records those ids in `orphans` so that the
  reachability properties can tell them apart.
* `ex_destroy_pool_member(..., destroy_node=True)` raises with the pool
  member removed when `deleteNode` fails (line 1162); the `NttCisPoolMember`
  the program holds still names the node, so nothing is lost.
