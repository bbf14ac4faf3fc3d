------------------------------- MODULE NttCisLB -------------------------------
(***************************************************************************)
(* The NTTC-CIS load-balancer driver (NttCisLBDriver, src/libcloud/        *)
(* loadbalancer/drivers/nttcis.py) together with the part of the remote    *)
(* "networkDomainVip" API it drives.                                       *)
(*                                                                         *)
(* The driver keeps almost no state of its own: the field                  *)
(* network_domain_id of the driver object, and the handles (LoadBalancer,  *)
(* Member, NttCisPoolMember) it hands back to the program that calls it.   *)
(* The state that matters lives on the server: VIP nodes, pools, pool      *)
(* members and virtual listeners, each under an id the server allocates.  *)
(* Several callers (threads of one program) share one driver object.      *)
(* A driver method that sends several requests is a sequence of actions,  *)
(* one per request, so other callers' requests interleave between them.   *)
(*                                                                         *)
(* Every request may be lost before the server sees it or its answer may  *)
(* be lost after the server applied it (at most MaxFaults times); both    *)
(* surface in the driver as an exception from the connection.  A request  *)
(* the server refuses (an unknown or wrong kind of id, a missing id, an   *)
(* object still in use) is an NttCisAPIException as well.                 *)
(***************************************************************************)
EXTENDS Naturals, FiniteSets

CONSTANTS
    Callers,     \* threads of the calling program sharing one driver
    Domains,     \* network domain ids
    Ips,         \* IPv4 addresses of backend servers
    MaxId,       \* the server allocates ids 1..MaxId (UUIDs, never reused)
    MaxFaults,   \* bound on lost requests and lost answers
    MaxMembers   \* bound on the members list given to create_balancer

ASSUME ConstantsAssumption ==
    /\ Callers # {} /\ Domains # {} /\ Ips # {}
    /\ MaxId \in Nat /\ MaxFaults \in Nat /\ MaxMembers \in Nat

VARIABLES
    srv,        \* server: id -> object record
    nextId,     \* next id the server allocates
    faults,     \* transport faults so far
    domain,     \* driver field self.network_domain_id
    pc,         \* caller -> where it is inside a driver call
    loc,        \* caller -> local variables of that call
    lbs,        \* LoadBalancer handles the program holds
    mems,       \* Member handles the program holds
    pms,        \* NttCisPoolMember handles the program holds
    created,    \* caller -> ids the running call has created (history)
    orphans    \* ids created by calls that then raised (history)

vars == <<srv, nextId, faults, domain, pc, loc, lbs, mems, pms,
          created, orphans>>

None == 0
Ids == 1..MaxId
Ids0 == 0..MaxId
Kinds == {"none", "node", "pool", "member", "listener"}
DefaultDom == CHOOSE d \in Domains : TRUE
DefaultIp == CHOOSE a \in Ips : TRUE

\* A server object; fields that do not apply to a kind keep their default.
Obj == [kind : Kinds, dom : Domains, pool : Ids0, node : Ids0, ip : Ips]
NoObj == [kind |-> "none", dom |-> DefaultDom, pool |-> None, node |-> None,
          ip |-> DefaultIp]

\* Handles: LoadBalancer(id, extra.pool_id, extra.network_domain_id),
\* Member(id, ip) and NttCisPoolMember(id, node_id).
Balancer == [id : Ids, pool : Ids0, dom : Domains]
MemberH == [id : Ids, ip : Ips]
PoolMemberH == [id : Ids, node : Ids0]

\* An element of create_balancer's members list: a compute Node (kind
\* "cnode", only its private ip is used) or a libcloud Member.
MemberInput == [kind : {"cnode", "member"}, id : Ids0, ip : Ips]

\* Listener ports: 80 stands for 80 and 443, 8080 for any other or None.
ListenerPorts == {80, 8080}
OptProfiles == {"TCP", "NONE"}

PCs == {"idle", "cb_loop", "cb_add", "at_pool", "at_add", "dp_node"}
Loc == [dom : Domains, pool : Ids0, node : Ids0, todo : SUBSET MemberInput,
        lport : ListenerPorts, opt : OptProfiles, ip : Ips]
IdleLoc == [dom |-> DefaultDom, pool |-> None, node |-> None, todo |-> {},
            lport |-> 8080, opt |-> "TCP", ip |-> DefaultIp]

Outcomes == {"ok", "rejected", "lostRequest", "lostResponse"}
Lost == {"lostRequest", "lostResponse"}

TypeOK ==
    /\ srv \in [Ids -> Obj]
    /\ nextId \in 1..(MaxId + 1)
    /\ faults \in 0..MaxFaults
    /\ domain \in Domains
    /\ pc \in [Callers -> PCs]
    /\ loc \in [Callers -> Loc]
    /\ lbs \subseteq Balancer
    /\ mems \subseteq MemberH
    /\ pms \subseteq PoolMemberH
    /\ created \in [Callers -> SUBSET Ids]
    /\ orphans \subseteq Ids

-----------------------------------------------------------------------------
(***************************************************************************)
(* The remote API (environment).  Which requests it accepts; what an      *)
(* accepted request does.                                                  *)
(***************************************************************************)
IsA(i, k) == i \in Ids /\ srv[i].kind = k

\* The server refuses to create once its MaxId ids are used up.
HasRoom == nextId <= MaxId

\* Some member or listener still refers to object i.
InUse(i) == \E j \in Ids : /\ srv[j].kind \in {"member", "listener"}
                           /\ i \in {srv[j].pool, srv[j].node}

\* How a request ends: the server accepts or refuses it, and (within the
\* fault bound) the request or its answer is lost.
Answers(accept) ==
    (IF accept THEN {"ok"} ELSE {"rejected"})
    \cup (IF faults < MaxFaults
          THEN IF accept THEN Lost ELSE {"lostRequest"}
          ELSE {})

Applied(out) == out \in {"ok", "lostResponse"}

CountFault(out) == faults' = IF out \in Lost THEN faults + 1 ELSE faults

\* The server stores a new object o under nextId if the request got through.
Create(out, o) ==
    /\ srv' = IF Applied(out) THEN [srv EXCEPT ![nextId] = o] ELSE srv
    /\ nextId' = IF Applied(out) THEN nextId + 1 ELSE nextId

Delete(out, i) ==
    srv' = IF Applied(out) THEN [srv EXCEPT ![i].kind = "none"] ELSE srv

NewIds(out) == IF Applied(out) THEN {nextId} ELSE {}

-----------------------------------------------------------------------------
(***************************************************************************)
(* How a driver call ends.  Return: the method returns.  Raise: an        *)
(* exception propagates to the program; what the call created so far     *)
(* stays on the server.                                                    *)
(***************************************************************************)
Return(c) ==
    /\ pc' = [pc EXCEPT ![c] = "idle"]
    /\ loc' = [loc EXCEPT ![c] = IdleLoc]
    /\ created' = [created EXCEPT ![c] = {}]
    /\ UNCHANGED orphans

Raise(c, new) ==
    /\ pc' = [pc EXCEPT ![c] = "idle"]
    /\ loc' = [loc EXCEPT ![c] = IdleLoc]
    /\ created' = [created EXCEPT ![c] = {}]
    /\ orphans' = orphans \cup created[c] \cup new

Goto(c, p, l, new) ==
    /\ pc' = [pc EXCEPT ![c] = p]
    /\ loc' = [loc EXCEPT ![c] = l]
    /\ created' = [created EXCEPT ![c] = created[c] \cup new]
    /\ UNCHANGED orphans

Idle(c) == pc[c] = "idle"

-----------------------------------------------------------------------------
(***************************************************************************)
(* ex_set_current_network_domain: the only write of the driver's field.   *)
(***************************************************************************)
ExSetCurrentNetworkDomain(c) ==
    /\ Idle(c)
    /\ \E d \in Domains : domain' = d
    /\ UNCHANGED <<srv, nextId, faults, pc, loc, lbs, mems, pms, created, orphans>>

(***************************************************************************)
(* create_balancer: reads self.network_domain_id once into a local, then  *)
(* ex_create_pool, then for each element of members ex_create_node (for a *)
(* compute node) and ex_create_pool_member, then                          *)
(* ex_create_virtual_listener.  Each request is one action.  An algorithm *)
(* missing from _ALGORITHM_TO_VALUE_MAP raises KeyError before any        *)
(* request: a step that changes nothing, so it is not an action here.     *)
(***************************************************************************)
\* A compute Node is passed by its private ip; a libcloud Member by the
\* whole object, whose id the program may have set to anything: a pool
\* member's id, a VIP node's id of any domain, or None.
MemberInputs ==
    [kind : {"cnode"}, id : {None}, ip : Ips]
    \cup [kind : {"member"}, id : Ids0, ip : Ips]

CreateBalancerPool(c) ==
    /\ Idle(c)
    /\ \E ms \in {S \in SUBSET MemberInputs : Cardinality(S) <= MaxMembers},
          lp \in ListenerPorts, op \in OptProfiles, out \in Answers(HasRoom) :
        /\ Create(out, [NoObj EXCEPT !.kind = "pool", !.dom = domain])
        /\ CountFault(out)
        /\ IF out = "ok"
           THEN Goto(c, "cb_loop",
                     [IdleLoc EXCEPT !.dom = domain, !.pool = nextId,
                                     !.todo = ms, !.lport = lp, !.opt = op],
                     {nextId})
           ELSE Raise(c, NewIds(out))
    /\ UNCHANGED <<domain, lbs, mems, pms>>

\* Bug variant: the node is created in self.network_domain_id as it is at
\* the time of the request, not in the local read at the start of the call.
CreateBalancerNodeCurrentDomain(c) ==
    /\ pc[c] = "cb_loop"
    /\ \E m \in loc[c].todo, out \in Answers(HasRoom) :
        /\ m.kind = "cnode"
        /\ Create(out, [NoObj EXCEPT !.kind = "node", !.dom = domain, !.ip = m.ip])
        /\ CountFault(out)
        /\ IF out = "ok"
           THEN Goto(c, "cb_add",
                     [loc[c] EXCEPT !.node = nextId, !.todo = @ \ {m}],
                     {nextId})
           ELSE Raise(c, NewIds(out))
    /\ UNCHANGED <<domain, lbs, mems, pms>>

\* A compute node of members: ex_create_node in the captured domain.
CreateBalancerNode(c) ==
    /\ pc[c] = "cb_loop"
    /\ \E m \in loc[c].todo, out \in Answers(HasRoom) :
        /\ m.kind = "cnode"
        /\ Create(out, [NoObj EXCEPT !.kind = "node", !.dom = loc[c].dom,
                                     !.ip = m.ip])
        /\ CountFault(out)
        /\ IF out = "ok"
           THEN Goto(c, "cb_add",
                     [loc[c] EXCEPT !.node = nextId, !.todo = @ \ {m}],
                     {nextId})
           ELSE Raise(c, NewIds(out))
    /\ UNCHANGED <<domain, lbs, mems, pms>>

\* ex_create_pool_member(pool, node) inside the members loop: the node
\* just created, or a Member of the list passed as the node itself, so that
\* the Member's id is sent as nodeId.  l: the locals after the iteration.
AddPoolMember(c, p, n, l) ==
    /\ \E out \in Answers(HasRoom /\ IsA(p, "pool") /\ IsA(n, "node")) :
        /\ Create(out, [NoObj EXCEPT !.kind = "member", !.dom = srv[p].dom,
                                     !.pool = p, !.node = n, !.ip = srv[n].ip])
        /\ CountFault(out)
        /\ IF out = "ok" THEN Goto(c, "cb_loop", l, {nextId})
                         ELSE Raise(c, NewIds(out))

CreateBalancerMember(c) ==
    /\ \/ /\ pc[c] = "cb_add"
          /\ AddPoolMember(c, loc[c].pool, loc[c].node,
                           [loc[c] EXCEPT !.node = None])
       \/ /\ pc[c] = "cb_loop"
          /\ \E m \in loc[c].todo :
              /\ m.kind = "member"
              /\ AddPoolMember(c, loc[c].pool, m.id,
                               [loc[c] EXCEPT !.todo = @ \ {m}])
    /\ UNCHANGED <<domain, lbs, mems, pms>>

ListenerType(port) ==
    IF port \in {80, 443} THEN "PERFORMANCE_LAYER_4" ELSE "STANDARD"

\* Bug variant: the returned LoadBalancer takes network_domain_id from
\* self.network_domain_id at return time instead of the local read first.
CreateBalancerListenerRereadDomain(c) ==
    /\ pc[c] = "cb_loop"
    /\ loc[c].todo = {}
    /\ ~(ListenerType(loc[c].lport) = "STANDARD" /\ loc[c].opt = "NONE")
    /\ \E out \in Answers(HasRoom /\ IsA(loc[c].pool, "pool")) :
        /\ Create(out, [NoObj EXCEPT !.kind = "listener", !.dom = loc[c].dom,
                                     !.pool = loc[c].pool])
        /\ CountFault(out)
        /\ IF out = "ok"
           THEN /\ lbs' = lbs \cup {[id |-> nextId, pool |-> loc[c].pool,
                                     dom |-> domain]}
                /\ Return(c)
           ELSE /\ Raise(c, NewIds(out))
                /\ UNCHANGED lbs
    /\ UNCHANGED <<domain, mems, pms>>

\* ex_create_virtual_listener(pool=pool, ...); create_balancer returns
\* LoadBalancer(listener.id, extra pool_id = pool.id, network_domain_id =
\* the local read at the start).
\* Bug variant: the returned LoadBalancer's extra lacks "pool_id".
CreateBalancerListenerNoPoolId(c) ==
    /\ pc[c] = "cb_loop"
    /\ loc[c].todo = {}
    /\ \/ /\ ListenerType(loc[c].lport) = "STANDARD"
          /\ loc[c].opt = "NONE"
          /\ Raise(c, {})
          /\ UNCHANGED <<srv, nextId, faults, lbs>>
       \/ /\ ~(ListenerType(loc[c].lport) = "STANDARD" /\ loc[c].opt = "NONE")
          /\ \E out \in Answers(HasRoom /\ IsA(loc[c].pool, "pool")) :
              /\ Create(out, [NoObj EXCEPT !.kind = "listener",
                                  !.dom = loc[c].dom, !.pool = loc[c].pool])
              /\ CountFault(out)
              /\ IF out = "ok"
                 THEN /\ lbs' = lbs \cup {[id |-> nextId, pool |-> None,
                                           dom |-> loc[c].dom]}
                      /\ Return(c)
                 ELSE /\ Raise(c, NewIds(out))
                      /\ UNCHANGED lbs
    /\ UNCHANGED <<domain, mems, pms>>

CreateBalancerListener(c) ==
    /\ pc[c] = "cb_loop"
    /\ loc[c].todo = {}
    /\ \/ /\ ListenerType(loc[c].lport) = "STANDARD"
          /\ loc[c].opt = "NONE"
          /\ Raise(c, {})
          /\ UNCHANGED <<srv, nextId, faults, lbs>>
       \/ /\ ~(ListenerType(loc[c].lport) = "STANDARD" /\ loc[c].opt = "NONE")
                /\ \E out \in Answers(HasRoom /\ IsA(loc[c].pool, "pool")) :
              /\ Create(out, [NoObj EXCEPT !.kind = "listener",
                                  !.dom = loc[c].dom, !.pool = loc[c].pool])
              /\ CountFault(out)
              /\ IF out = "ok"
                 THEN /\ lbs' = lbs \cup {[id |-> nextId, pool |-> loc[c].pool,
                                           dom |-> loc[c].dom]}
                      /\ Return(c)
                 ELSE /\ Raise(c, NewIds(out))
                      /\ UNCHANGED lbs
    /\ UNCHANGED <<domain, mems, pms>>

(***************************************************************************)
(* balancer_attach_member(balancer, member): ex_create_node in the        *)
(* balancer's extra network_domain_id (the result is never False), then   *)
(* ex_get_pool(extra pool_id), then ex_create_pool_member; the Member's   *)
(* id becomes the pool member's id.                                       *)
(***************************************************************************)
AttachCreateNode(c) ==
    /\ Idle(c)
    /\ \E b \in lbs, a \in Ips, out \in Answers(HasRoom) :
        /\ Create(out, [NoObj EXCEPT !.kind = "node", !.dom = b.dom, !.ip = a])
        /\ CountFault(out)
        /\ IF out = "ok"
           THEN Goto(c, "at_pool",
                     [IdleLoc EXCEPT !.dom = b.dom, !.pool = b.pool,
                                     !.node = nextId, !.ip = a],
                     {nextId})
           ELSE Raise(c, NewIds(out))
    /\ UNCHANGED <<domain, lbs, mems, pms>>

AttachGetPool(c) ==
    /\ pc[c] = "at_pool"
    /\ \E out \in Answers(IsA(loc[c].pool, "pool")) :
        /\ CountFault(out)
        /\ IF out = "ok" THEN Goto(c, "at_add", loc[c], {})
                         ELSE Raise(c, {})
    /\ UNCHANGED <<srv, nextId, domain, lbs, mems, pms>>

\* Bug variants of the last step: member.id set to node.id, or to the
\* member_id the parse loop left at None.
AttachAddMemberId(c, id) ==
    /\ pc[c] = "at_add"
    /\ LET p == loc[c].pool
           n == loc[c].node
       IN \E out \in Answers(HasRoom /\ IsA(p, "pool") /\ IsA(n, "node")) :
           /\ Create(out, [NoObj EXCEPT !.kind = "member", !.dom = srv[p].dom,
                                        !.pool = p, !.node = n,
                                        !.ip = srv[n].ip])
           /\ CountFault(out)
           /\ IF out = "ok"
              THEN /\ mems' = mems \cup {[id |-> id, ip |-> loc[c].ip]}
                   /\ Return(c)
              ELSE /\ Raise(c, NewIds(out))
                   /\ UNCHANGED mems
    /\ UNCHANGED <<domain, lbs, pms>>

AttachAddMemberNodeId(c) == AttachAddMemberId(c, loc[c].node)

AttachAddMemberNoId(c) == AttachAddMemberId(c, None)

AttachAddMember(c) ==
    /\ pc[c] = "at_add"
    /\ LET p == loc[c].pool
           n == loc[c].node
       IN \E out \in Answers(HasRoom /\ IsA(p, "pool") /\ IsA(n, "node")) :
           /\ Create(out, [NoObj EXCEPT !.kind = "member", !.dom = srv[p].dom,
                                        !.pool = p, !.node = n,
                                        !.ip = srv[n].ip])
           /\ CountFault(out)
           /\ IF out = "ok"
              THEN /\ mems' = mems \cup {[id |-> nextId, ip |-> loc[c].ip]}
                   /\ Return(c)
              ELSE /\ Raise(c, NewIds(out))
                   /\ UNCHANGED mems
    /\ UNCHANGED <<domain, lbs, pms>>

(***************************************************************************)
(* Single-request calls that remove an object.  The server refuses to     *)
(* remove an id of another kind, and a pool or node still in use.         *)
(***************************************************************************)
\* One removal request for object i by caller c, accepted when ok holds.
RemoveReq(c, i, ok) ==
    \E out \in Answers(ok) :
        /\ Delete(out, i)
        /\ CountFault(out)
        /\ IF out = "ok" THEN Return(c) ELSE Raise(c, {})

\* balancer_detach_member(balancer, member): removePoolMember(member.id);
\* the balancer argument is not used.
BalancerDetachMember(c) ==
    /\ Idle(c)
    /\ \E m \in mems : RemoveReq(c, m.id, IsA(m.id, "member"))
    /\ UNCHANGED <<nextId, domain, lbs, mems, pms>>

\* destroy_balancer(balancer): deleteVirtualListener(balancer.id) only.
DestroyBalancer(c) ==
    /\ Idle(c)
    /\ \E b \in lbs : RemoveReq(c, b.id, IsA(b.id, "listener"))
    /\ UNCHANGED <<nextId, domain, lbs, mems, pms>>

\* ex_destroy_pool(pool), for a pool the program knows from a balancer.
ExDestroyPool(c) ==
    /\ Idle(c)
    /\ \E b \in lbs : RemoveReq(c, b.pool, IsA(b.pool, "pool") /\ ~InUse(b.pool))
    /\ UNCHANGED <<nextId, domain, lbs, mems, pms>>

\* ex_destroy_node(node_id), for a node id from a NttCisPoolMember.
ExDestroyNode(c) ==
    /\ Idle(c)
    /\ \E pm \in pms : RemoveReq(c, pm.node, IsA(pm.node, "node") /\ ~InUse(pm.node))
    /\ UNCHANGED <<nextId, domain, lbs, mems, pms>>

\* ex_destroy_pool_member(member, destroy_node): removePoolMember(member.id);
\* then, if member.node_id is not None and destroy_node is True, return
\* ex_destroy_node(member.node_id).
ExDestroyPoolMember(c) ==
    /\ Idle(c)
    /\ \E pm \in pms, dn \in BOOLEAN :
        \E out \in Answers(IsA(pm.id, "member")) :
            /\ Delete(out, pm.id)
            /\ CountFault(out)
            /\ IF out # "ok" THEN Raise(c, {})
               ELSE IF pm.node # None /\ dn
                    THEN Goto(c, "dp_node", [IdleLoc EXCEPT !.node = pm.node], {})
                    ELSE Return(c)
    /\ UNCHANGED <<nextId, domain, lbs, mems, pms>>

ExDestroyPoolMemberNode(c) ==
    /\ pc[c] = "dp_node"
    /\ RemoveReq(c, loc[c].node, IsA(loc[c].node, "node") /\ ~InUse(loc[c].node))
    /\ UNCHANGED <<nextId, domain, lbs, mems, pms>>

\* ex_set_node_state(node, enabled): the editNode element it sends carries
\* a status but no id attribute, so the server cannot accept it.
ExSetNodeState(c) ==
    /\ Idle(c)
    /\ \E pm \in pms, out \in Answers(FALSE) :
        /\ CountFault(out)
        /\ Raise(c, {})
    /\ UNCHANGED <<srv, nextId, domain, lbs, mems, pms>>

(***************************************************************************)
(* Calls that edit attributes of one object: the listener's, pool's or    *)
(* node's settings, or a pool member's ENABLED/DISABLED status.  These    *)
(* attributes are not part of the model; what is kept is the request, the *)
(* id it names and how it ends.  The server refuses an id of another kind *)
(* or of a removed object.                                                 *)
(***************************************************************************)
\* One edit request naming an object; accepted when ok holds.
EditReq(c, ok) ==
    \E out \in Answers(ok) :
        /\ CountFault(out)
        /\ IF out = "ok" THEN Return(c) ELSE Raise(c, {})

\* ex_update_listener(virtual_listener, **kwargs): editVirtualListener with
\* id = virtual_listener.id and one child per keyword argument.  Among the
\* arguments the model keeps poolId: absent (the pool stays), a pool id
\* (the listener now serves that pool) or None, sent as xsi:nil (the
\* listener serves no pool); np ranges over all three, the first being the
\* listener's current pool.  The other settings are not modelled.
ExUpdateListener(c) ==
    /\ Idle(c)
    /\ \E b \in lbs, np \in Ids0 :
        \E out \in Answers(IsA(b.id, "listener") /\ (np = None \/ IsA(np, "pool"))) :
            /\ srv' = IF Applied(out) THEN [srv EXCEPT ![b.id].pool = np] ELSE srv
            /\ CountFault(out)
            /\ IF out = "ok" THEN Return(c) ELSE Raise(c, {})
    /\ UNCHANGED <<nextId, domain, lbs, mems, pms>>

\* ex_update_pool(pool): editPool with id = pool.id, for the pool of a
\* balancer the program holds.
ExUpdatePool(c) ==
    /\ Idle(c)
    /\ \E b \in lbs : EditReq(c, IsA(b.pool, "pool"))
    /\ UNCHANGED <<srv, nextId, domain, lbs, mems, pms>>

\* ex_update_node(node): editNode with id = node.id; the response is not
\* inspected and the node passed in is returned.
ExUpdateNode(c) ==
    /\ Idle(c)
    /\ \E pm \in pms : EditReq(c, IsA(pm.node, "node"))
    /\ UNCHANGED <<srv, nextId, domain, lbs, mems, pms>>

\* ex_set_pool_member_state(member, enabled): editPoolMember with
\* id = member.id and status ENABLED or DISABLED.
ExSetPoolMemberState(c) ==
    /\ Idle(c)
    /\ \E pm \in pms : EditReq(c, IsA(pm.id, "member"))
    /\ UNCHANGED <<srv, nextId, domain, lbs, mems, pms>>

(***************************************************************************)
(* Calls that only read: they add the handles they parse to what the      *)
(* program holds.  A failed read changes nothing tracked here.            *)
(***************************************************************************)
\* _to_balancer: id, extra pool_id from the pool element, extra
\* network_domain_id from the networkDomainId element.
ToBalancer(i) == [id |-> i, pool |-> srv[i].pool, dom |-> srv[i].dom]

\* list_balancers(ex_network_domain_id): all listeners, or those of a domain.
ListBalancers(c) ==
    /\ Idle(c)
    /\ \E ds \in {Domains} \cup {{d} : d \in Domains} :
        lbs' = lbs \cup {ToBalancer(i) : i \in {j \in Ids : IsA(j, "listener")
                                                         /\ srv[j].dom \in ds}}
    /\ UNCHANGED <<srv, nextId, faults, domain, pc, loc, mems, pms, created, orphans>>

PoolMembersOf(p) == {j \in Ids : IsA(j, "member") /\ srv[j].pool = p}

\* balancer_list_members(balancer): ex_get_pool_members(extra pool_id),
\* each as Member(id=pool_member.id, ip=pool_member.ip).
BalancerListMembers(c) ==
    /\ Idle(c)
    /\ \E b \in lbs :
        mems' = mems \cup {[id |-> j, ip |-> srv[j].ip] : j \in PoolMembersOf(b.pool)}
    /\ UNCHANGED <<srv, nextId, faults, domain, pc, loc, lbs, pms, created, orphans>>

\* ex_get_pool_members(pool_id): _to_member keeps id and node_id.
ExGetPoolMembers(c) ==
    /\ Idle(c)
    /\ \E b \in lbs :
        pms' = pms \cup {[id |-> j, node |-> srv[j].node] : j \in PoolMembersOf(b.pool)}
    /\ UNCHANGED <<srv, nextId, faults, domain, pc, loc, lbs, mems, created, orphans>>

\* ex_get_pool_member(pool_member_id), for the id of a Member the program
\* holds: _to_member of the answer; an id that names no pool member fails.
ExGetPoolMember(c) ==
    /\ Idle(c)
    /\ \E m \in mems :
        /\ IsA(m.id, "member")
        /\ pms' = pms \cup {[id |-> m.id, node |-> srv[m.id].node]}
    /\ UNCHANGED <<srv, nextId, faults, domain, pc, loc, lbs, mems, created, orphans>>

-----------------------------------------------------------------------------
Init ==
    /\ srv = [i \in Ids |-> NoObj]
    /\ nextId = 1
    /\ faults = 0
    /\ domain \in Domains
    /\ pc = [c \in Callers |-> "idle"]
    /\ loc = [c \in Callers |-> IdleLoc]
    /\ lbs = {} /\ mems = {} /\ pms = {}
    /\ created = [c \in Callers |-> {}]
    /\ orphans = {}

Next ==
    \E c \in Callers :
        \/ ExSetCurrentNetworkDomain(c)
        \/ CreateBalancerPool(c)
        \/ CreateBalancerNode(c)
        \/ CreateBalancerMember(c)
        \/ CreateBalancerListener(c)
        \/ AttachCreateNode(c)
        \/ AttachGetPool(c)
        \/ AttachAddMember(c)
        \/ BalancerDetachMember(c)
        \/ DestroyBalancer(c)
        \/ ExDestroyPool(c)
        \/ ExDestroyNode(c)
        \/ ExDestroyPoolMember(c)
        \/ ExDestroyPoolMemberNode(c)
        \/ ExSetNodeState(c)
        \/ ListBalancers(c)
        \/ BalancerListMembers(c)
        \/ ExGetPoolMembers(c)
        \/ ExGetPoolMember(c)
        \/ ExUpdateListener(c)
        \/ ExUpdatePool(c)
        \/ ExUpdateNode(c)
        \/ ExSetPoolMemberState(c)

Spec == Init /\ [][Next]_vars

-----------------------------------------------------------------------------
(***************************************************************************)
(* Properties.                                                             *)
(***************************************************************************)

\* create_balancer reads self.network_domain_id once, at its start, and
\* creates its pool and every node of members in that domain;
\* balancer_attach_member creates its node in the balancer's extra
\* network_domain_id.  So while a call runs, every pool and node it has
\* created so far lies in the one domain the call works in, whatever
\* ex_set_current_network_domain another thread runs between its requests.
CallDomainConsistent ==
    \A c \in Callers : \A i \in created[c] :
        srv[i].kind \in {"pool", "node"} => srv[i].dom = loc[c].dom

\* The network_domain_id of a LoadBalancer handle (create_balancer's
\* return, _to_balancer) is its listener's domain for as long as the
\* listener exists, even when another thread switched the driver's domain
\* during create_balancer.  Its pool_id is a snapshot that
\* ex_update_listener may make stale, so it is not part of the claim.
BalancerHandlesAccurate ==
    \A h \in lbs : IsA(h.id, "listener") => srv[h.id].dom = h.dom

\* Member ids handed out (balancer_attach_member, balancer_list_members) and
\* NttCisPoolMember ids name pool members, never nodes or pools, so that
\* balancer_detach_member and ex_destroy_pool_member remove what they mean;
\* a NttCisPoolMember's node_id names a node.
HandleIdsKindCorrect ==
    /\ \A m \in mems : srv[m.id].kind \in {"member", "none"}
    /\ \A pm \in pms : srv[pm.id].kind \in {"member", "none"}
    /\ \A pm \in pms : pm.node \in Ids => srv[pm.node].kind \in {"node", "none"}

\* Pools and nodes the program can still name: the pool_id of a
\* LoadBalancer handle, the node_id of a NttCisPoolMember handle, or one a
\* call created and that is still running or raised.
HeldPools == {h.pool : h \in lbs}
HeldNodes == {pm.node : pm \in pms}
InFlight == orphans \cup UNION {created[c] : c \in Callers}

\* destroy_balancer removes the virtual listener only, and ex_update_listener
\* may move a listener to another pool or to none, so the pool that
\* create_balancer made stays on the server; it is still within the
\* program's reach: every pool on the server is the pool_id of a
\* LoadBalancer handle the program holds (so ex_destroy_pool can remove
\* it), or was created by a call still running or one that raised.
LeftPoolsReachable ==
    \A p \in Ids : IsA(p, "pool") => p \in HeldPools \cup InFlight

\* The same for nodes: every VIP node on the server is used by a pool
\* member, or is the node_id of a NttCisPoolMember the program holds (so
\* ex_destroy_node can remove it), or was created by a call still running
\* or one that raised.  balancer_attach_member creates a node it never
\* returns, and balancer_detach_member removes only the pool member.
LeftNodesReachable ==
    \A n \in Ids : IsA(n, "node") =>
        \/ \E j \in Ids : IsA(j, "member") /\ srv[j].node = n
        \/ n \in HeldNodes \cup InFlight

-----------------------------------------------------------------------------
(***************************************************************************)
(* The inductive invariant behind CallDomainConsistent,                   *)
(* BalancerHandlesAccurate and HandleIdsKindCorrect.  The server hands    *)
(* out ids in order, only ever marks an object deleted, and changes no    *)
(* field of an issued object but a listener's pool; so every id a handle, *)
(* a local or an object refers to was issued before, and the domain of an *)
(* id is fixed once issued.                                                *)
(***************************************************************************)
\* Object i of server state s, whose next free id is n: ids not yet handed
\* out name nothing, an object only refers to ids issued before it, and a
\* pool member joins a node (or a deleted node).
ObjOK(s, n, i) ==
    /\ i >= n => s[i].kind = "none"
    /\ s[i].pool < n
    /\ s[i].node < n
    /\ s[i].kind = "member" => /\ s[i].node \in Ids
                               /\ s[s[i].node].kind \in {"node", "none"}

\* A LoadBalancer handle refers to issued ids and carries its listener's
\* domain while the listener exists.
BalOK(s, n, h) ==
    /\ h.id < n
    /\ h.pool < n
    /\ s[h.id].kind = "listener" => s[h.id].dom = h.dom

\* A Member id was issued and names a pool member.
MemOK(s, n, m) == m.id < n /\ s[m.id].kind \in {"member", "none"}

\* A NttCisPoolMember names a pool member and its node_id a node.
PmOK(s, n, pm) ==
    /\ MemOK(s, n, pm)
    /\ pm.node < n
    /\ pm.node \in Ids => s[pm.node].kind \in {"node", "none"}

\* The locals l and the created ids cr of a caller at p: inside
\* create_balancer the pool is an issued id, inside balancer_attach_member
\* the pool_id is; an idle caller has created nothing, and every pool or
\* node a call has created is an issued id in the call's domain.
LocOK(s, n, p, l, cr) ==
    /\ p \in {"cb_loop", "cb_add"} => l.pool \in Ids
    /\ p \in {"cb_loop", "cb_add", "at_pool", "at_add"} => l.pool < n
    /\ p = "idle" => cr = {}
    /\ \A i \in cr : /\ i < n
                     /\ s[i].kind \in {"pool", "node"} => s[i].dom = l.dom

\* The inductive invariant: every object, handle and call is as above.
IInv ==
    /\ TypeOK
    /\ \A i \in Ids : ObjOK(srv, nextId, i)
    /\ \A h \in lbs : BalOK(srv, nextId, h)
    /\ \A m \in mems : MemOK(srv, nextId, m)
    /\ \A pm \in pms : PmOK(srv, nextId, pm)
    /\ \A c \in Callers : LocOK(srv, nextId, pc[c], loc[c], created[c])

\* A call owns what it created: every id in created[c] was issued, and one
\* that is still a pool is the pool of the create_balancer c is running,
\* whose listener step will put it into the LoadBalancer handle it returns.
CreatedPoolsOwned ==
    \A c \in Callers : \A p \in created[c] :
        /\ p < nextId
        /\ srv[p].kind = "pool" => /\ pc[c] \in {"cb_loop", "cb_add"}
                                   /\ p = loc[c].pool

\* The inductive invariant of LeftPoolsReachable: create_balancer is the
\* only call that creates a pool, it holds at most the one it created, and
\* it returns it in its LoadBalancer or raises with it in orphans.
PoolInv == IInv /\ CreatedPoolsOwned /\ LeftPoolsReachable

=============================================================================
