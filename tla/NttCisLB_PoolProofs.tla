-------------------------- MODULE NttCisLB_PoolProofs --------------------------
(***************************************************************************)
(* Proof of LeftPoolsReachable for every value of the constants: every    *)
(* pool on the server is the pool_id of a LoadBalancer handle the program *)
(* holds, or was created by a call still running or one that raised.      *)
(*                                                                         *)
(* The argument: only create_balancer creates a pool, and only its first  *)
(* request; the pool goes into created[c] and into the call's locals.     *)
(* Until the call ends, created[c] holds no other pool (CreatedPoolsOwned).*)
(* The call ends by its listener step, which returns a LoadBalancer       *)
(* handle with that pool_id, or by raising, which moves created[c] into   *)
(* orphans.  Every other call holds no pool in created[c], and no action  *)
(* shrinks lbs or orphans or turns an object into a pool.                  *)
(***************************************************************************)
EXTENDS NttCisLB_InvProofs

USE ConstantsAssumption

\* No object becomes a pool in this step.
NoNewPool == \A p \in Ids : srv'[p].kind = "pool" => srv[p].kind = "pool"

\* The per-caller variables of caller d are left alone.
CallerKept(d) == pc'[d] = pc[d] /\ loc'[d] = loc[d] /\ created'[d] = created[d]

\* A call that is not inside create_balancer holds no pool it created.
LEMMA NotCbNoPool ==
    ASSUME CreatedPoolsOwned, NEW c \in Callers,
           pc[c] \notin {"cb_loop", "cb_add"}
    PROVE  \A p \in created[c] : srv[p].kind # "pool"
BY DEF CreatedPoolsOwned

\* Return, Raise and Goto leave the other callers alone.
LEMMA OthersKept ==
    ASSUME TypeOK, NEW c \in Callers, NEW d \in Callers, d # c,
           \/ Return(c)
           \/ \E new : Raise(c, new)
           \/ \E q, l, new : Goto(c, q, l, new)
    PROVE  CallerKept(d)
BY DEF TypeOK, Return, Raise, Goto, CallerKept

\* A create of an object that is no pool turns nothing into a pool.
LEMMA CreateNoPool ==
    ASSUME TypeOK, NEW out, NEW o, Create(out, o), o.kind # "pool"
    PROVE  NoNewPool /\ nextId <= nextId'
<1>1. CASE Applied(out)
  <2>1. srv' = [srv EXCEPT ![nextId] = o] /\ nextId' = nextId + 1
    BY <1>1 DEF Create
  <2>2. QED
    BY <2>1 DEF NoNewPool, TypeOK
<1>2. CASE ~Applied(out)
  BY <1>2 DEF Create, NoNewPool, TypeOK
<1>3. QED
  BY <1>1, <1>2

\* A delete turns nothing into a pool.
LEMMA DeleteNoPool ==
    ASSUME TypeOK, NEW out, NEW i, Delete(out, i)
    PROVE  NoNewPool
<1>1. CASE Applied(out)
  <2>1. srv' = [srv EXCEPT ![i].kind = "none"]
    BY <1>1 DEF Delete
  <2>2. ASSUME NEW p \in Ids, srv'[p].kind = "pool"
        PROVE  srv[p].kind = "pool"
    <3>1. CASE p = i
      BY <3>1, <2>1, <2>2 DEF TypeOK
    <3>2. CASE p # i
      BY <3>2, <2>1, <2>2 DEF TypeOK
    <3>3. QED
      BY <3>1, <3>2
  <2>3. QED
    BY <2>2 DEF NoNewPool
<1>2. CASE ~Applied(out)
  BY <1>2 DEF Delete, NoNewPool
<1>3. QED
  BY <1>1, <1>2

\* A call ends (returns or raises) without creating a pool: the pools it
\* created are in orphans when it raises, and must be in the handles when
\* it returns.
LEMMA EndCall ==
    ASSUME IInv, IInv', CreatedPoolsOwned, LeftPoolsReachable,
           NEW c \in Callers, NoNewPool, nextId <= nextId', lbs \subseteq lbs',
           \/ /\ Return(c)
              /\ \A p \in created[c] : srv[p].kind = "pool" => p \in HeldPools'
           \/ \E new \in SUBSET Ids : Raise(c, new)
    PROVE  CreatedPoolsOwned' /\ LeftPoolsReachable'
<1>1. TypeOK /\ TypeOK'
  BY DEF IInv
<1>2. /\ created'[c] = {}
      /\ orphans \subseteq orphans'
      /\ \A d \in Callers : d # c => CallerKept(d)
  BY <1>1, OthersKept DEF Return, Raise, TypeOK
<1>3. CreatedPoolsOwned'
  <2>1. SUFFICES ASSUME NEW d \in Callers, NEW p \in created'[d]
                 PROVE  /\ p < nextId'
                        /\ srv'[p].kind = "pool" =>
                               /\ pc'[d] \in {"cb_loop", "cb_add"}
                               /\ p = loc'[d].pool
    BY DEF CreatedPoolsOwned
  <2>2. d # c /\ CallerKept(d)
    BY <1>2
  <2>3. p \in created[d] /\ pc'[d] = pc[d] /\ loc'[d] = loc[d]
    BY <2>2 DEF CallerKept
  <2>4. p \in Ids
    BY <2>3, <1>1 DEF TypeOK
  <2>5. p < nextId
    BY <2>3 DEF CreatedPoolsOwned
  <2>6. srv'[p].kind = "pool" => srv[p].kind = "pool"
    BY <2>4 DEF NoNewPool
  <2>7. srv[p].kind = "pool" => pc[d] \in {"cb_loop", "cb_add"} /\ p = loc[d].pool
    BY <2>3 DEF CreatedPoolsOwned
  <2>8. nextId \in Nat /\ nextId' \in Nat
    BY <1>1 DEF TypeOK
  <2>9. p < nextId'
    BY <2>4, <2>5, <2>8 DEF Ids
  <2>10. srv'[p].kind = "pool" => /\ pc'[d] \in {"cb_loop", "cb_add"}
                                  /\ p = loc'[d].pool
    BY <2>3, <2>6, <2>7, Zenon
  <2>11. QED
    BY <2>9, <2>10
<1>4. LeftPoolsReachable'
  <2>1. SUFFICES ASSUME NEW p \in Ids, srv'[p].kind = "pool"
                 PROVE  p \in HeldPools' \cup InFlight'
    BY Zenon DEF LeftPoolsReachable, IsA
  <2>2. p \in HeldPools \cup InFlight
    BY <2>1 DEF NoNewPool, LeftPoolsReachable, IsA
  <2>3. HeldPools \subseteq HeldPools'
    BY DEF HeldPools
  <2>4. CASE p \in HeldPools
    BY <2>3, <2>4
  <2>5. CASE p \in orphans
    BY <2>5, <1>2 DEF InFlight
  <2>6. CASE \E d \in Callers : d # c /\ p \in created[d]
    BY <2>6, <1>2 DEF InFlight, CallerKept
  <2>7. CASE p \in created[c]
    <3>1. CASE \A q \in created[c] : srv[q].kind = "pool" => q \in HeldPools'
      BY <3>1, <2>1, <2>7 DEF NoNewPool
    <3>2. CASE \E new \in SUBSET Ids : Raise(c, new)
      <4>1. PICK new \in SUBSET Ids : Raise(c, new)
        BY <3>2
      <4>2. p \in orphans'
        BY <4>1, <2>7 DEF Raise
      <4>3. QED
        BY <4>2 DEF InFlight
    <3>3. QED
      BY <3>1, <3>2
  <2>8. QED
    BY <2>2, <2>4, <2>5, <2>6, <2>7 DEF InFlight
<1>5. QED
  BY <1>3, <1>4

\* A call goes on to its next request without creating a pool: what it
\* created stays in created[c], and a pool in it is still its own.
LEMMA StayCall ==
    ASSUME IInv, IInv', CreatedPoolsOwned, LeftPoolsReachable,
           NEW c \in Callers, NoNewPool, nextId <= nextId', lbs \subseteq lbs',
           NEW q, NEW l, NEW new \in SUBSET Ids, Goto(c, q, l, new),
           \A p \in new : p < nextId' /\ srv'[p].kind # "pool",
           \A p \in created[c] : srv[p].kind = "pool" =>
                                  q \in {"cb_loop", "cb_add"} /\ p = l.pool
    PROVE  CreatedPoolsOwned' /\ LeftPoolsReachable'
<1>1. TypeOK /\ TypeOK'
  BY DEF IInv
<1>2. /\ created'[c] = created[c] \cup new
      /\ pc'[c] = q /\ loc'[c] = l
      /\ orphans' = orphans
      /\ \A d \in Callers : d # c => CallerKept(d)
  BY <1>1, OthersKept DEF Goto, TypeOK
<1>3. nextId \in Nat /\ nextId' \in Nat
  BY <1>1 DEF TypeOK
<1>4. CreatedPoolsOwned'
  <2>1. SUFFICES ASSUME NEW d \in Callers, NEW p \in created'[d]
                 PROVE  /\ p < nextId'
                        /\ srv'[p].kind = "pool" =>
                               /\ pc'[d] \in {"cb_loop", "cb_add"}
                               /\ p = loc'[d].pool
    BY DEF CreatedPoolsOwned
  <2>2. CASE d # c
    <3>1. p \in created[d] /\ pc'[d] = pc[d] /\ loc'[d] = loc[d]
      BY <2>2, <1>2 DEF CallerKept
    <3>2. p \in Ids /\ p < nextId
      BY <3>1, <1>1 DEF TypeOK, CreatedPoolsOwned
    <3>3. p < nextId'
      BY <3>2, <1>3 DEF Ids
    <3>4. srv'[p].kind = "pool" => srv[p].kind = "pool"
      BY <3>2 DEF NoNewPool
    <3>5. srv[p].kind = "pool" => pc[d] \in {"cb_loop", "cb_add"} /\ p = loc[d].pool
      BY <3>1 DEF CreatedPoolsOwned
    <3>6. QED
      BY <3>1, <3>3, <3>4, <3>5, Zenon
  <2>3. CASE d = c /\ p \in new
    BY <2>3, <1>2
  <2>4. CASE d = c /\ p \in created[c]
    <3>1. p \in Ids /\ p < nextId
      BY <2>4, <1>1 DEF TypeOK, CreatedPoolsOwned
    <3>2. p < nextId'
      BY <3>1, <1>3 DEF Ids
    <3>3. srv'[p].kind = "pool" => srv[p].kind = "pool"
      BY <3>1 DEF NoNewPool
    <3>4. QED
      BY <2>4, <3>2, <3>3, <1>2, Zenon
  <2>5. QED
    BY <2>2, <2>3, <2>4, <1>2
<1>5. LeftPoolsReachable'
  <2>1. SUFFICES ASSUME NEW p \in Ids, srv'[p].kind = "pool"
                 PROVE  p \in HeldPools' \cup InFlight'
    BY Zenon DEF LeftPoolsReachable, IsA
  <2>2. p \in HeldPools \cup InFlight
    BY <2>1 DEF NoNewPool, LeftPoolsReachable, IsA
  <2>3. HeldPools \subseteq HeldPools'
    BY DEF HeldPools
  <2>4. InFlight \subseteq InFlight'
    <3>1. \A d \in Callers : created[d] \subseteq created'[d]
      BY <1>2 DEF CallerKept
    <3>2. QED
      BY <3>1, <1>2 DEF InFlight
  <2>5. QED
    BY <2>2, <2>3, <2>4
<1>6. QED
  BY <1>4, <1>5

\* A step that leaves the server, the calls and orphans alone, and at most
\* adds handles.
LEMMA Untouched ==
    ASSUME LeftPoolsReachable, CreatedPoolsOwned,
           UNCHANGED <<srv, nextId, pc, loc, created, orphans>>,
           lbs \subseteq lbs'
    PROVE  CreatedPoolsOwned' /\ LeftPoolsReachable'
<1>1. HeldPools \subseteq HeldPools'
  BY DEF HeldPools
<1>2. InFlight' = InFlight
  BY DEF InFlight
<1>3. QED
  BY <1>1, <1>2 DEF CreatedPoolsOwned, LeftPoolsReachable, IsA

\* A call outside create_balancer ends: it holds no pool of its own.
LEMMA IdleEnds ==
    ASSUME IInv, IInv', CreatedPoolsOwned, LeftPoolsReachable,
           NEW c \in Callers, pc[c] \notin {"cb_loop", "cb_add"},
           NoNewPool, nextId <= nextId', lbs \subseteq lbs',
           Return(c) \/ \E new \in SUBSET Ids : Raise(c, new)
    PROVE  CreatedPoolsOwned' /\ LeftPoolsReachable'
<1>1. \A p \in created[c] : srv[p].kind # "pool"
  BY NotCbNoPool
<1>2. QED
  BY <1>1, EndCall

\* One removal request by a call outside create_balancer.
LEMMA RemoveReqPools ==
    ASSUME IInv, IInv', CreatedPoolsOwned, LeftPoolsReachable,
           NEW c \in Callers, pc[c] \notin {"cb_loop", "cb_add"},
           NEW i, NEW ok, RemoveReq(c, i, ok), nextId' = nextId, lbs' = lbs
    PROVE  CreatedPoolsOwned' /\ LeftPoolsReachable'
<1>1. PICK out : /\ Delete(out, i)
                /\ IF out = "ok" THEN Return(c) ELSE Raise(c, {})
  BY DEF RemoveReq
<1>2. NoNewPool
  BY <1>1, DeleteNoPool DEF IInv
<1>3. nextId <= nextId'
  BY DEF IInv, TypeOK
<1>4. Return(c) \/ \E new \in SUBSET Ids : Raise(c, new)
  BY <1>1
<1>5. QED
  BY <1>2, <1>3, <1>4, IdleEnds

\* One edit request by an idle caller.
LEMMA EditReqPools ==
    ASSUME IInv, IInv', CreatedPoolsOwned, LeftPoolsReachable,
           NEW c \in Callers, Idle(c), NEW ok, EditReq(c, ok),
           UNCHANGED <<srv, nextId, lbs>>
    PROVE  CreatedPoolsOwned' /\ LeftPoolsReachable'
<1>1. PICK out : IF out = "ok" THEN Return(c) ELSE Raise(c, {})
  BY DEF EditReq
<1>2. NoNewPool /\ nextId <= nextId'
  BY DEF NoNewPool, IInv, TypeOK
<1>3. Return(c) \/ \E new \in SUBSET Ids : Raise(c, new)
  BY <1>1
<1>4. QED
  BY <1>2, <1>3, IdleEnds DEF Idle

LEMMA BalancerDetachMemberPools ==
    ASSUME IInv, IInv', CreatedPoolsOwned, LeftPoolsReachable, NEW c \in Callers, BalancerDetachMember(c)
    PROVE  CreatedPoolsOwned' /\ LeftPoolsReachable'
<1>1. PICK m \in mems : RemoveReq(c, m.id, IsA(m.id, "member"))
  BY DEF BalancerDetachMember
<1>2. QED
  BY <1>1, RemoveReqPools DEF BalancerDetachMember, Idle

LEMMA DestroyBalancerPools ==
    ASSUME IInv, IInv', CreatedPoolsOwned, LeftPoolsReachable, NEW c \in Callers, DestroyBalancer(c)
    PROVE  CreatedPoolsOwned' /\ LeftPoolsReachable'
<1>1. PICK b \in lbs : RemoveReq(c, b.id, IsA(b.id, "listener"))
  BY DEF DestroyBalancer
<1>2. QED
  BY <1>1, RemoveReqPools DEF DestroyBalancer, Idle

LEMMA ExDestroyPoolPools ==
    ASSUME IInv, IInv', CreatedPoolsOwned, LeftPoolsReachable, NEW c \in Callers, ExDestroyPool(c)
    PROVE  CreatedPoolsOwned' /\ LeftPoolsReachable'
<1>1. PICK b \in lbs : RemoveReq(c, b.pool, IsA(b.pool, "pool") /\ ~InUse(b.pool))
  BY DEF ExDestroyPool
<1>2. QED
  BY <1>1, RemoveReqPools DEF ExDestroyPool, Idle

LEMMA ExDestroyNodePools ==
    ASSUME IInv, IInv', CreatedPoolsOwned, LeftPoolsReachable, NEW c \in Callers, ExDestroyNode(c)
    PROVE  CreatedPoolsOwned' /\ LeftPoolsReachable'
<1>1. PICK pm \in pms : RemoveReq(c, pm.node, IsA(pm.node, "node") /\ ~InUse(pm.node))
  BY DEF ExDestroyNode
<1>2. QED
  BY <1>1, RemoveReqPools DEF ExDestroyNode, Idle

LEMMA ExDestroyPoolMemberNodePools ==
    ASSUME IInv, IInv', CreatedPoolsOwned, LeftPoolsReachable, NEW c \in Callers, ExDestroyPoolMemberNode(c)
    PROVE  CreatedPoolsOwned' /\ LeftPoolsReachable'
BY RemoveReqPools DEF ExDestroyPoolMemberNode

LEMMA ExUpdateListenerPools ==
    ASSUME IInv, IInv', CreatedPoolsOwned, LeftPoolsReachable, NEW c \in Callers, ExUpdateListener(c)
    PROVE  CreatedPoolsOwned' /\ LeftPoolsReachable'
<1>0. PICK b \in lbs, np \in Ids0 : \E out :
        /\ srv' = IF Applied(out) THEN [srv EXCEPT ![b.id].pool = np] ELSE srv
        /\ IF out = "ok" THEN Return(c) ELSE Raise(c, {})
  BY DEF ExUpdateListener
<1>1. PICK out :
        /\ srv' = IF Applied(out) THEN [srv EXCEPT ![b.id].pool = np] ELSE srv
        /\ IF out = "ok" THEN Return(c) ELSE Raise(c, {})
  BY <1>0
<1>2. NoNewPool
  <2>1. SUFFICES ASSUME NEW p \in Ids, srv'[p].kind = "pool"
                 PROVE  srv[p].kind = "pool"
    BY DEF NoNewPool
  <2>2. CASE Applied(out)
    <3>1. srv' = [srv EXCEPT ![b.id].pool = np]
      BY <1>1, <2>2
    <3>2. QED
      BY <2>1, <3>1 DEF IInv, TypeOK
  <2>3. CASE ~Applied(out)
    BY <1>1, <2>1, <2>3
  <2>4. QED
    BY <2>2, <2>3
<1>3. nextId <= nextId' /\ lbs \subseteq lbs'
  BY DEF ExUpdateListener, IInv, TypeOK
<1>4. Return(c) \/ \E new \in SUBSET Ids : Raise(c, new)
  BY <1>1
<1>5. QED
  BY <1>2, <1>3, <1>4, IdleEnds DEF ExUpdateListener, Idle

LEMMA ExUpdatePoolPools ==
    ASSUME IInv, IInv', CreatedPoolsOwned, LeftPoolsReachable, NEW c \in Callers, ExUpdatePool(c)
    PROVE  CreatedPoolsOwned' /\ LeftPoolsReachable'
<1>1. PICK b \in lbs : EditReq(c, IsA(b.pool, "pool"))
  BY DEF ExUpdatePool
<1>2. QED
  BY <1>1, EditReqPools DEF ExUpdatePool

LEMMA ExUpdateNodePools ==
    ASSUME IInv, IInv', CreatedPoolsOwned, LeftPoolsReachable, NEW c \in Callers, ExUpdateNode(c)
    PROVE  CreatedPoolsOwned' /\ LeftPoolsReachable'
<1>1. PICK pm \in pms : EditReq(c, IsA(pm.node, "node"))
  BY DEF ExUpdateNode
<1>2. QED
  BY <1>1, EditReqPools DEF ExUpdateNode

LEMMA ExSetPoolMemberStatePools ==
    ASSUME IInv, IInv', CreatedPoolsOwned, LeftPoolsReachable, NEW c \in Callers, ExSetPoolMemberState(c)
    PROVE  CreatedPoolsOwned' /\ LeftPoolsReachable'
<1>1. PICK pm \in pms : EditReq(c, IsA(pm.id, "member"))
  BY DEF ExSetPoolMemberState
<1>2. QED
  BY <1>1, EditReqPools DEF ExSetPoolMemberState

LEMMA ExSetNodeStatePools ==
    ASSUME IInv, IInv', CreatedPoolsOwned, LeftPoolsReachable, NEW c \in Callers, ExSetNodeState(c)
    PROVE  CreatedPoolsOwned' /\ LeftPoolsReachable'
<1>1. Raise(c, {}) /\ UNCHANGED <<srv, nextId, lbs>>
  BY DEF ExSetNodeState
<1>2. NoNewPool /\ nextId <= nextId'
  BY <1>1 DEF NoNewPool, IInv, TypeOK
<1>3. QED
  BY <1>1, <1>2, IdleEnds DEF ExSetNodeState, Idle

\* ex_destroy_pool_member: its second request is a call of its own
\* (dp_node), outside create_balancer.
LEMMA ExDestroyPoolMemberPools ==
    ASSUME IInv, IInv', CreatedPoolsOwned, LeftPoolsReachable, NEW c \in Callers, ExDestroyPoolMember(c)
    PROVE  CreatedPoolsOwned' /\ LeftPoolsReachable'
<1>0. PICK pm \in pms, dn \in BOOLEAN :
        \E out \in Answers(IsA(pm.id, "member")) :
            /\ Delete(out, pm.id)
            /\ CountFault(out)
            /\ IF out # "ok" THEN Raise(c, {})
               ELSE IF pm.node # None /\ dn
                    THEN Goto(c, "dp_node", [IdleLoc EXCEPT !.node = pm.node], {})
                    ELSE Return(c)
  BY DEF ExDestroyPoolMember
<1>1. PICK out :
        /\ Delete(out, pm.id)
        /\ IF out # "ok" THEN Raise(c, {})
           ELSE IF pm.node # None /\ dn
                THEN Goto(c, "dp_node", [IdleLoc EXCEPT !.node = pm.node], {})
                ELSE Return(c)
  BY <1>0
<1>2. /\ NoNewPool
      /\ nextId <= nextId'
      /\ lbs \subseteq lbs'
      /\ \A p \in created[c] : srv[p].kind # "pool"
  BY <1>1, DeleteNoPool, NotCbNoPool DEF IInv, TypeOK, ExDestroyPoolMember, Idle
<1>3. CASE out = "ok" /\ pm.node # None /\ dn
  <2>1. Goto(c, "dp_node", [IdleLoc EXCEPT !.node = pm.node], {})
    BY <1>1, <1>3
  <2>2. QED
    BY <2>1, <1>2, StayCall
<1>4. CASE ~(out = "ok" /\ pm.node # None /\ dn)
  <2>1. Return(c) \/ \E new \in SUBSET Ids : Raise(c, new)
    BY <1>1, <1>4
  <2>2. QED
    BY <2>1, <1>2, IdleEnds DEF ExDestroyPoolMember, Idle
<1>5. QED
  BY <1>3, <1>4

LEMMA ExSetCurrentNetworkDomainPools ==
    ASSUME IInv, IInv', CreatedPoolsOwned, LeftPoolsReachable, NEW c \in Callers, ExSetCurrentNetworkDomain(c)
    PROVE  CreatedPoolsOwned' /\ LeftPoolsReachable'
<1>1. UNCHANGED <<srv, nextId, pc, loc, created, orphans>> /\ lbs \subseteq lbs'
  BY DEF ExSetCurrentNetworkDomain
<1>2. QED
  BY <1>1, Untouched

LEMMA ListBalancersPools ==
    ASSUME IInv, IInv', CreatedPoolsOwned, LeftPoolsReachable, NEW c \in Callers, ListBalancers(c)
    PROVE  CreatedPoolsOwned' /\ LeftPoolsReachable'
<1>1. UNCHANGED <<srv, nextId, pc, loc, created, orphans>> /\ lbs \subseteq lbs'
  BY DEF ListBalancers
<1>2. QED
  BY <1>1, Untouched

LEMMA BalancerListMembersPools ==
    ASSUME IInv, IInv', CreatedPoolsOwned, LeftPoolsReachable, NEW c \in Callers, BalancerListMembers(c)
    PROVE  CreatedPoolsOwned' /\ LeftPoolsReachable'
<1>1. UNCHANGED <<srv, nextId, pc, loc, created, orphans>> /\ lbs \subseteq lbs'
  BY DEF BalancerListMembers
<1>2. QED
  BY <1>1, Untouched

LEMMA ExGetPoolMembersPools ==
    ASSUME IInv, IInv', CreatedPoolsOwned, LeftPoolsReachable, NEW c \in Callers, ExGetPoolMembers(c)
    PROVE  CreatedPoolsOwned' /\ LeftPoolsReachable'
<1>1. UNCHANGED <<srv, nextId, pc, loc, created, orphans>> /\ lbs \subseteq lbs'
  BY DEF ExGetPoolMembers
<1>2. QED
  BY <1>1, Untouched

LEMMA ExGetPoolMemberPools ==
    ASSUME IInv, IInv', CreatedPoolsOwned, LeftPoolsReachable, NEW c \in Callers, ExGetPoolMember(c)
    PROVE  CreatedPoolsOwned' /\ LeftPoolsReachable'
<1>1. UNCHANGED <<srv, nextId, pc, loc, created, orphans>> /\ lbs \subseteq lbs'
  BY DEF ExGetPoolMember
<1>2. QED
  BY <1>1, Untouched

\* What a create request that is not createPool does to the server.
LEMMA CreateFacts ==
    ASSUME TypeOK, NEW out, NEW o, Create(out, o),
           o.kind # "pool", Applied(out) => HasRoom
    PROVE  /\ NoNewPool
           /\ nextId <= nextId'
           /\ NewIds(out) \in SUBSET Ids
           /\ Applied(out) => /\ nextId \in Ids
                              /\ srv'[nextId] = o
                              /\ nextId' = nextId + 1
<1>2. Applied(out) => nextId \in Ids
  BY DEF HasRoom, TypeOK, Ids
<1>3. Applied(out) => srv'[nextId] = o /\ nextId' = nextId + 1
  BY <1>2 DEF Create, TypeOK
<1>4. NewIds(out) \in SUBSET Ids
  BY <1>2 DEF NewIds
<1>5. QED
  BY <1>2, <1>3, <1>4, CreateNoPool

\* A request of a running call that creates no pool, then goes on to q
\* with locals l or raises.
LEMMA CreateGoPools ==
    ASSUME IInv, IInv', CreatedPoolsOwned, LeftPoolsReachable, NEW c \in Callers,
           NEW out, NEW o, Create(out, o),
           o.kind # "pool", Applied(out) => HasRoom, lbs \subseteq lbs',
           NEW q, NEW l,
           \A p \in created[c] : srv[p].kind = "pool" =>
                                  q \in {"cb_loop", "cb_add"} /\ p = l.pool,
           out = "ok" => Goto(c, q, l, {nextId}),
           out # "ok" => Raise(c, NewIds(out))
    PROVE  CreatedPoolsOwned' /\ LeftPoolsReachable'
<1>1. /\ NoNewPool
      /\ nextId <= nextId'
      /\ NewIds(out) \in SUBSET Ids
      /\ Applied(out) => /\ nextId \in Ids
                         /\ srv'[nextId] = o
                         /\ nextId' = nextId + 1
  BY CreateFacts DEF IInv
<1>2. CASE out = "ok"
  <2>1. Applied(out)
    BY <1>2 DEF Applied
  <2>2. \A p \in {nextId} : p < nextId' /\ srv'[p].kind # "pool"
    BY <2>1, <1>1 DEF Ids
  <2>3. {nextId} \in SUBSET Ids
    BY <2>1, <1>1
  <2>4. QED
    BY <1>1, <1>2, <2>2, <2>3, StayCall
<1>3. CASE out # "ok"
  BY <1>1, <1>3, EndCall
<1>4. QED
  BY <1>2, <1>3

\* A request that creates no pool and ends the call.
LEMMA CreateEndPools ==
    ASSUME IInv, IInv', CreatedPoolsOwned, LeftPoolsReachable, NEW c \in Callers,
           NEW out, NEW o, Create(out, o),
           o.kind # "pool", Applied(out) => HasRoom, lbs \subseteq lbs',
           IF out = "ok" THEN Return(c) ELSE Raise(c, NewIds(out)),
           out = "ok" => \A p \in created[c] : srv[p].kind = "pool" => p \in HeldPools'
    PROVE  CreatedPoolsOwned' /\ LeftPoolsReachable'
<1>1. /\ NoNewPool
      /\ nextId <= nextId'
      /\ NewIds(out) \in SUBSET Ids
  BY CreateFacts DEF IInv
<1>2. CASE out = "ok"
  BY <1>1, <1>2, EndCall
<1>3. CASE out # "ok"
  BY <1>1, <1>3, EndCall
<1>4. QED
  BY <1>2, <1>3

LEMMA CreateBalancerNodePools ==
    ASSUME IInv, IInv', CreatedPoolsOwned, LeftPoolsReachable, NEW c \in Callers, CreateBalancerNode(c)
    PROVE  CreatedPoolsOwned' /\ LeftPoolsReachable'
<1>1. SUFFICES ASSUME NEW out, NEW o, NEW l,
                      Create(out, o), o.kind # "pool", l.pool = loc[c].pool,
                      Applied(out) => HasRoom,
                      out = "ok" => Goto(c, "cb_add", l, {nextId}),
                      out # "ok" => Raise(c, NewIds(out))
               PROVE  CreatedPoolsOwned' /\ LeftPoolsReachable'
  <2>1. PICK m, out :
          /\ out \in Answers(HasRoom)
          /\ Create(out, [NoObj EXCEPT !.kind = "node", !.dom = loc[c].dom,
                                       !.ip = m.ip])
          /\ IF out = "ok"
             THEN Goto(c, "cb_add",
                       [loc[c] EXCEPT !.node = nextId, !.todo = @ \ {m}],
                       {nextId})
             ELSE Raise(c, NewIds(out))
    BY DEF CreateBalancerNode
  <2>2. PICK o, l : /\ o = [NoObj EXCEPT !.kind = "node", !.dom = loc[c].dom,
                                          !.ip = m.ip]
                    /\ l = [loc[c] EXCEPT !.node = nextId, !.todo = @ \ {m}]
    OBVIOUS
  <2>3. /\ Create(out, o)
        /\ out = "ok" => Goto(c, "cb_add", l, {nextId})
        /\ out # "ok" => Raise(c, NewIds(out))
    BY <2>1, <2>2, Zenon
  <2>4. o.kind # "pool"
    <3> DEFINE r == [NoObj EXCEPT !.kind = "node", !.dom = loc[c].dom, !.ip = m.ip]
    <3>1. r.kind = "node"
      BY NodeFields
    <3>2. QED
      BY <2>2, <3>1, Zenon
  <2>5. l.pool = loc[c].pool
    BY <2>2, Zenon DEF IInv, TypeOK, Loc
  <2>6. Applied(out) => HasRoom
    BY <2>1 DEF Answers, Applied, Lost
  <2>7. QED
    BY <2>3, <2>4, <2>5, <2>6
<1>2. \A q \in created[c] : srv[q].kind = "pool" =>
                             "cb_add" \in {"cb_loop", "cb_add"} /\ q = l.pool
  BY <1>1 DEF CreatedPoolsOwned
<1>3. lbs \subseteq lbs'
  BY DEF CreateBalancerNode
<1>4. QED
  BY <1>1, <1>2, <1>3, CreateGoPools

\* One ex_create_pool_member of the members loop: the locals keep the pool.
LEMMA AddPoolMemberPools ==
    ASSUME IInv, IInv', CreatedPoolsOwned, LeftPoolsReachable, NEW c \in Callers, NEW p, NEW n, NEW l,
           AddPoolMember(c, p, n, l), l.pool = loc[c].pool,
           pc[c] \in {"cb_loop", "cb_add"}, lbs' = lbs
    PROVE  CreatedPoolsOwned' /\ LeftPoolsReachable'
<1>1. PICK out \in Answers(HasRoom /\ IsA(p, "pool")
                           /\ IsA(n, "node")) :
        /\ Create(out, [NoObj EXCEPT !.kind = "member", !.dom = srv[p].dom,
                                     !.pool = p, !.node = n, !.ip = srv[n].ip])
        /\ IF out = "ok" THEN Goto(c, "cb_loop", l, {nextId})
                         ELSE Raise(c, NewIds(out))
  BY Zenon DEF AddPoolMember
<1>2. PICK o : o = [NoObj EXCEPT !.kind = "member", !.dom = srv[p].dom,
                                !.pool = p, !.node = n, !.ip = srv[n].ip]
  OBVIOUS
<1>3. /\ Create(out, o)
      /\ IF out = "ok" THEN Goto(c, "cb_loop", l, {nextId})
                       ELSE Raise(c, NewIds(out))
  BY <1>1, <1>2, Zenon
<1>4. o.kind # "pool"
  <2> DEFINE r == [NoObj EXCEPT !.kind = "member", !.dom = srv[p].dom,
                                !.pool = p, !.node = n, !.ip = srv[n].ip]
  <2>1. r.kind = "member"
    BY MemberFields
  <2>2. QED
    BY <1>2, <2>1, Zenon
<1>5. \A q \in created[c] : srv[q].kind = "pool" =>
                             "cb_loop" \in {"cb_loop", "cb_add"} /\ q = l.pool
  BY DEF CreatedPoolsOwned
<1>6. Applied(out) => HasRoom
  BY DEF Answers, Applied, Lost
<1>7. QED
  BY <1>3, <1>4, <1>5, <1>6, CreateGoPools

LEMMA CreateBalancerMemberPools ==
    ASSUME IInv, IInv', CreatedPoolsOwned, LeftPoolsReachable, NEW c \in Callers, CreateBalancerMember(c)
    PROVE  CreatedPoolsOwned' /\ LeftPoolsReachable'
<1>1. lbs' = lbs
  BY DEF CreateBalancerMember
<1>2. CASE /\ pc[c] = "cb_add"
           /\ AddPoolMember(c, loc[c].pool, loc[c].node,
                            [loc[c] EXCEPT !.node = None])
  <2>1. [loc[c] EXCEPT !.node = None].pool = loc[c].pool
    BY DEF IInv, TypeOK, Loc
  <2>2. QED
    BY <1>1, <1>2, <2>1, AddPoolMemberPools
<1>3. CASE /\ pc[c] = "cb_loop"
           /\ \E m \in loc[c].todo :
                 /\ m.kind = "member"
                 /\ AddPoolMember(c, loc[c].pool, m.id,
                                  [loc[c] EXCEPT !.todo = @ \ {m}])
  <2>1. PICK m \in loc[c].todo :
               AddPoolMember(c, loc[c].pool, m.id,
                             [loc[c] EXCEPT !.todo = @ \ {m}])
    BY <1>3
  <2>2. [loc[c] EXCEPT !.todo = @ \ {m}].pool = loc[c].pool
    BY DEF IInv, TypeOK, Loc
  <2>3. QED
    BY <1>1, <1>3, <2>1, <2>2, AddPoolMemberPools
<1>4. QED
  BY <1>2, <1>3 DEF CreateBalancerMember

\* The listener step returns the LoadBalancer with the call's pool.
LEMMA CreateBalancerListenerPools ==
    ASSUME IInv, IInv', CreatedPoolsOwned, LeftPoolsReachable, NEW c \in Callers, CreateBalancerListener(c)
    PROVE  CreatedPoolsOwned' /\ LeftPoolsReachable'
<1>1. CASE /\ Raise(c, {})
           /\ UNCHANGED <<srv, nextId, faults, lbs>>
  <2>1. NoNewPool /\ nextId <= nextId'
    BY <1>1 DEF NoNewPool, IInv, TypeOK
  <2>2. {} \in SUBSET Ids
    OBVIOUS
  <2>3. QED
    BY <1>1, <2>1, <2>2, EndCall
<1>2. CASE \E out \in Answers(HasRoom /\ IsA(loc[c].pool, "pool")) :
              /\ Create(out, [NoObj EXCEPT !.kind = "listener",
                                  !.dom = loc[c].dom, !.pool = loc[c].pool])
              /\ CountFault(out)
              /\ IF out = "ok"
                 THEN /\ lbs' = lbs \cup {[id |-> nextId, pool |-> loc[c].pool,
                                           dom |-> loc[c].dom]}
                      /\ Return(c)
                 ELSE /\ Raise(c, NewIds(out))
                      /\ UNCHANGED lbs
  <2>1. PICK out \in Answers(HasRoom /\ IsA(loc[c].pool, "pool")) :
              /\ Create(out, [NoObj EXCEPT !.kind = "listener",
                                  !.dom = loc[c].dom, !.pool = loc[c].pool])
              /\ IF out = "ok"
                 THEN /\ lbs' = lbs \cup {[id |-> nextId, pool |-> loc[c].pool,
                                           dom |-> loc[c].dom]}
                      /\ Return(c)
                 ELSE /\ Raise(c, NewIds(out))
                      /\ UNCHANGED lbs
    BY <1>2
  <2>2. PICK o : o = [NoObj EXCEPT !.kind = "listener", !.dom = loc[c].dom,
                                   !.pool = loc[c].pool]
    OBVIOUS
  <2>3. Create(out, o)
    BY <2>1, <2>2, Zenon
  <2>4. o.kind # "pool"
    <3> DEFINE r == [NoObj EXCEPT !.kind = "listener", !.dom = loc[c].dom,
                                  !.pool = loc[c].pool]
    <3>1. r.kind = "listener"
      BY ListenerFields
    <3>2. QED
      BY <2>2, <3>1, Zenon
  <2>5. lbs \subseteq lbs'
    BY <2>1
  <2>6. IF out = "ok" THEN Return(c) ELSE Raise(c, NewIds(out))
    BY <2>1
  <2>7. out = "ok" => loc[c].pool \in HeldPools'
    <3> SUFFICES ASSUME out = "ok" PROVE loc[c].pool \in HeldPools'
      OBVIOUS
    <3>1. PICK h : h = [id |-> nextId, pool |-> loc[c].pool, dom |-> loc[c].dom]
      OBVIOUS
    <3>2. h \in lbs' /\ h.pool = loc[c].pool
      BY <2>1, <3>1
    <3>3. QED
      BY <3>2 DEF HeldPools
  <2>8. out = "ok" => \A p \in created[c] : srv[p].kind = "pool" => p \in HeldPools'
    BY <2>7 DEF CreatedPoolsOwned
  <2>9. Applied(out) => HasRoom
    BY DEF Answers, Applied, Lost
  <2>10. QED
    BY <2>3, <2>4, <2>5, <2>6, <2>8, <2>9, CreateEndPools
<1>3. QED
  BY <1>1, <1>2 DEF CreateBalancerListener

LEMMA AttachCreateNodePools ==
    ASSUME IInv, IInv', CreatedPoolsOwned, LeftPoolsReachable, NEW c \in Callers, AttachCreateNode(c)
    PROVE  CreatedPoolsOwned' /\ LeftPoolsReachable'
<1>1. PICK b \in lbs, a \in Ips, out \in Answers(HasRoom) :
        /\ Create(out, [NoObj EXCEPT !.kind = "node", !.dom = b.dom, !.ip = a])
        /\ IF out = "ok"
           THEN Goto(c, "at_pool",
                     [IdleLoc EXCEPT !.dom = b.dom, !.pool = b.pool,
                                     !.node = nextId, !.ip = a],
                     {nextId})
           ELSE Raise(c, NewIds(out))
  BY DEF AttachCreateNode
<1>2. PICK o, l : /\ o = [NoObj EXCEPT !.kind = "node", !.dom = b.dom, !.ip = a]
                  /\ l = [IdleLoc EXCEPT !.dom = b.dom, !.pool = b.pool,
                                          !.node = nextId, !.ip = a]
  OBVIOUS
<1>3. /\ Create(out, o)
      /\ IF out = "ok" THEN Goto(c, "at_pool", l, {nextId})
                       ELSE Raise(c, NewIds(out))
  BY <1>1, <1>2, Zenon
<1>4. o.kind # "pool"
  <2> DEFINE r == [NoObj EXCEPT !.kind = "node", !.dom = b.dom, !.ip = a]
  <2>1. r.kind = "node"
    BY NodeFields
  <2>2. QED
    BY <1>2, <2>1, Zenon
<1>5. \A p \in created[c] : srv[p].kind # "pool"
  BY NotCbNoPool DEF AttachCreateNode, Idle
<1>6. lbs \subseteq lbs'
  BY DEF AttachCreateNode
<1>7. Applied(out) => HasRoom
  BY DEF Answers, Applied, Lost
<1>8. QED
  BY <1>3, <1>4, <1>5, <1>6, <1>7, CreateGoPools

LEMMA AttachGetPoolPools ==
    ASSUME IInv, IInv', CreatedPoolsOwned, LeftPoolsReachable, NEW c \in Callers, AttachGetPool(c)
    PROVE  CreatedPoolsOwned' /\ LeftPoolsReachable'
<1>1. PICK out : IF out = "ok" THEN Goto(c, "at_add", loc[c], {})
                               ELSE Raise(c, {})
  BY DEF AttachGetPool
<1>2. /\ NoNewPool /\ nextId <= nextId' /\ lbs \subseteq lbs'
      /\ \A p \in created[c] : srv[p].kind # "pool"
  BY NotCbNoPool DEF AttachGetPool, NoNewPool, IInv, TypeOK
<1>3. CASE out = "ok"
  BY <1>1, <1>2, <1>3, StayCall
<1>4. CASE out # "ok"
  BY <1>1, <1>2, <1>4, IdleEnds DEF AttachGetPool
<1>5. QED
  BY <1>3, <1>4

LEMMA AttachAddMemberPools ==
    ASSUME IInv, IInv', CreatedPoolsOwned, LeftPoolsReachable, NEW c \in Callers, AttachAddMember(c)
    PROVE  CreatedPoolsOwned' /\ LeftPoolsReachable'
<1> DEFINE p == loc[c].pool
           n == loc[c].node
<1>1. PICK out \in Answers(HasRoom /\ IsA(p, "pool") /\ IsA(n, "node")) :
           /\ Create(out, [NoObj EXCEPT !.kind = "member", !.dom = srv[p].dom,
                                        !.pool = p, !.node = n,
                                        !.ip = srv[n].ip])
           /\ IF out = "ok" THEN Return(c) ELSE Raise(c, NewIds(out))
  BY DEF AttachAddMember
<1>2. PICK o : o = [NoObj EXCEPT !.kind = "member", !.dom = srv[p].dom,
                                !.pool = p, !.node = n, !.ip = srv[n].ip]
  OBVIOUS
<1>3. /\ Create(out, o)
      /\ IF out = "ok" THEN Return(c) ELSE Raise(c, NewIds(out))
  BY <1>1, <1>2, Zenon
<1>4. o.kind # "pool"
  <2> DEFINE r == [NoObj EXCEPT !.kind = "member", !.dom = srv[p].dom,
                                !.pool = p, !.node = n, !.ip = srv[n].ip]
  <2>1. r.kind = "member"
    BY MemberFields
  <2>2. QED
    BY <1>2, <2>1, Zenon
<1>5. \A q \in created[c] : srv[q].kind # "pool"
  BY NotCbNoPool DEF AttachAddMember
<1>6. lbs \subseteq lbs'
  BY DEF AttachAddMember
<1>7. Applied(out) => HasRoom
  BY DEF Answers, Applied, Lost
<1>8. QED
  BY <1>3, <1>4, <1>5, <1>6, <1>7, CreateEndPools

\* The first request of create_balancer stores a pool at nextId: the call
\* goes on with it as the pool of its locals, or raises with it in orphans.
\* Nothing else on the server changes.
LEMMA NewPoolCall ==
    ASSUME IInv, IInv', CreatedPoolsOwned, LeftPoolsReachable,
           NEW c \in Callers, Idle(c), lbs' = lbs,
           nextId \in Ids, nextId' = nextId + 1, srv'[nextId].kind = "pool",
           \A p \in Ids : p # nextId => srv'[p] = srv[p],
           NEW l,
           \/ Goto(c, "cb_loop", l, {nextId}) /\ l.pool = nextId
           \/ Raise(c, {nextId})
    PROVE  CreatedPoolsOwned' /\ LeftPoolsReachable'
<1>1. TypeOK /\ TypeOK'
  BY DEF IInv
<1>2. \A p \in created[c] : srv[p].kind # "pool"
  BY NotCbNoPool DEF Idle
<1>3. \A d \in Callers : d # c => CallerKept(d)
  BY <1>1, OthersKept
<1>4. /\ orphans \subseteq orphans'
      /\ created'[c] \subseteq created[c] \cup {nextId}
      /\ nextId \in created'[c] \cup orphans'
  BY <1>1 DEF Goto, Raise, TypeOK
<1>5. \A p \in created[c] : p < nextId /\ p \in Ids
  BY <1>1 DEF CreatedPoolsOwned, TypeOK
<1>6. \A p \in Ids : p < nextId => srv'[p] = srv[p]
  BY DEF Ids
<1>7. CreatedPoolsOwned'
  <2>1. SUFFICES ASSUME NEW d \in Callers, NEW p \in created'[d]
                 PROVE  /\ p < nextId'
                        /\ srv'[p].kind = "pool" =>
                               /\ pc'[d] \in {"cb_loop", "cb_add"}
                               /\ p = loc'[d].pool
    BY DEF CreatedPoolsOwned
  <2>2. CASE d # c
    <3>1. p \in created[d] /\ pc'[d] = pc[d] /\ loc'[d] = loc[d]
      BY <2>2, <1>3 DEF CallerKept
    <3>2. p < nextId /\ p \in Ids
      BY <3>1, <1>1 DEF CreatedPoolsOwned, TypeOK
    <3>3. srv'[p] = srv[p]
      BY <3>2, <1>6
    <3>4. p < nextId'
      BY <3>2 DEF Ids
    <3>5. QED
      BY <3>1, <3>3, <3>4 DEF CreatedPoolsOwned
  <2>3. CASE d = c /\ p = nextId
    <3>1. Goto(c, "cb_loop", l, {nextId}) /\ l.pool = nextId
      BY <2>3, <1>1 DEF Raise, TypeOK
    <3>2. pc'[c] = "cb_loop" /\ loc'[c] = l
      BY <3>1, <1>1 DEF Goto, TypeOK
    <3>3. QED
      BY <2>3, <3>1, <3>2 DEF Ids
  <2>4. CASE d = c /\ p # nextId
    <3>1. p \in created[c]
      BY <2>4, <1>4
    <3>2. srv'[p] = srv[p] /\ p < nextId'
      BY <3>1, <1>5, <1>6 DEF Ids
    <3>3. QED
      BY <3>1, <3>2, <1>2
  <2>5. QED
    BY <2>2, <2>3, <2>4
<1>8. LeftPoolsReachable'
  <2>1. SUFFICES ASSUME NEW p \in Ids, srv'[p].kind = "pool"
                 PROVE  p \in HeldPools' \cup InFlight'
    BY Zenon DEF LeftPoolsReachable, IsA
  <2>2. CASE p = nextId
    BY <2>2, <1>4 DEF InFlight
  <2>3. CASE p # nextId
    <3>1. p \in HeldPools \cup orphans \cup UNION {created[d] : d \in Callers}
      BY <2>1, <2>3 DEF LeftPoolsReachable, IsA, InFlight
    <3>2. p \notin created[c]
      BY <2>1, <2>3, <1>2
    <3>3. HeldPools' = HeldPools
      BY DEF HeldPools
    <3>4. QED
      BY <3>1, <3>2, <3>3, <1>3, <1>4 DEF InFlight, CallerKept
  <2>4. QED
    BY <2>2, <2>3
<1>9. QED
  BY <1>7, <1>8

LEMMA CreateBalancerPoolPools ==
    ASSUME IInv, IInv', CreatedPoolsOwned, LeftPoolsReachable, NEW c \in Callers,
           CreateBalancerPool(c)
    PROVE  CreatedPoolsOwned' /\ LeftPoolsReachable'
<1>0. TypeOK
  BY DEF IInv
<1> DEFINE o == [NoObj EXCEPT !.kind = "pool", !.dom = domain]
<1>1. PICK ms \in {S \in SUBSET MemberInputs : Cardinality(S) <= MaxMembers},
           lp \in ListenerPorts, op \in OptProfiles, out \in Answers(HasRoom) :
        /\ Create(out, o)
        /\ IF out = "ok"
           THEN Goto(c, "cb_loop",
                     [IdleLoc EXCEPT !.dom = domain, !.pool = nextId,
                                     !.todo = ms, !.lport = lp, !.opt = op],
                     {nextId})
           ELSE Raise(c, NewIds(out))
  BY Zenon DEF CreateBalancerPool
<1>2. Idle(c) /\ lbs' = lbs
  BY DEF CreateBalancerPool
<1>3. o.kind = "pool"
  BY PoolFields
<1>4. CASE ~Applied(out)
  <2>1. srv' = srv /\ nextId' = nextId /\ out # "ok"
    BY <1>1, <1>4 DEF Create, Applied
  <2>2. Raise(c, {})
    BY <1>1, <1>4, <2>1 DEF NewIds
  <2>3. NoNewPool
    BY <2>1 DEF NoNewPool
  <2>4. \E new \in SUBSET Ids : Raise(c, new)
    BY <2>2
  <2>5. nextId <= nextId' /\ lbs \subseteq lbs'
    BY <1>0, <1>2, <2>1 DEF TypeOK
  <2>6. QED
    BY <2>3, <2>4, <2>5, EndCall
<1>5. CASE Applied(out)
  <2>1. /\ nextId \in Ids
        /\ srv' = [srv EXCEPT ![nextId] = o]
        /\ nextId' = nextId + 1
    BY <1>0, <1>1, <1>5 DEF Create, Applied, Answers, Lost, HasRoom, TypeOK, Ids
  <2>2. /\ srv'[nextId].kind = "pool"
        /\ \A p \in Ids : p # nextId => srv'[p] = srv[p]
    BY <1>0, <1>3, <2>1 DEF TypeOK
  <2>3. CASE out = "ok"
    <3> DEFINE l == [IdleLoc EXCEPT !.dom = domain, !.pool = nextId,
                                    !.todo = ms, !.lport = lp, !.opt = op]
    <3>1. l.pool = nextId
      BY DefaultRecordsTyped, Zenon DEF Loc
    <3>2. Goto(c, "cb_loop", l, {nextId})
      BY <1>1, <2>3
    <3>3. QED
      BY <1>2, <2>1, <2>2, <3>1, <3>2, NewPoolCall
  <2>4. CASE out # "ok"
    <3>1. Raise(c, {nextId})
      BY <1>1, <1>5, <2>4 DEF NewIds
    <3>2. QED
      BY <1>2, <2>1, <2>2, <3>1, NewPoolCall
  <2>5. QED
    BY <2>3, <2>4
<1>6. QED
  BY <1>4, <1>5


-----------------------------------------------------------------------------
(***************************************************************************)
(* PoolInv is inductive, and LeftPoolsReachable follows.                   *)
(***************************************************************************)
LEMMA PoolInit == Init => PoolInv
<1> SUFFICES ASSUME Init PROVE PoolInv
  OBVIOUS
<1>1. IInv
  BY InitIInv
<1>2. CreatedPoolsOwned
  BY DEF Init, CreatedPoolsOwned
<1>3. LeftPoolsReachable
  BY DEF Init, LeftPoolsReachable, IsA, NoObj
<1>4. QED
  BY <1>1, <1>2, <1>3 DEF PoolInv

\* Every step of the driver and the server keeps PoolInv.
LEMMA PoolStep == PoolInv /\ [Next]_vars => PoolInv'
<1> SUFFICES ASSUME PoolInv, [Next]_vars PROVE PoolInv'
  OBVIOUS
<1>1. IInv /\ IInv' /\ CreatedPoolsOwned /\ LeftPoolsReachable
  BY IInvStep DEF PoolInv
<1>2. CASE UNCHANGED vars
  BY <1>1, <1>2 DEF vars, PoolInv, CreatedPoolsOwned, LeftPoolsReachable,
                    IsA, HeldPools, InFlight
<1>3. ASSUME NEW c \in Callers,
             \/ ExSetCurrentNetworkDomain(c)
             \/ CreateBalancerPool(c)
             \/ CreateBalancerNode(c)
             \/ CreateBalancerMember(c)
             \/ CreateBalancerListener(c)
             \/ AttachCreateNode(c)
             \/ AttachGetPool(c)
             \/ AttachAddMember(c)
             \/ BalancerDetachMember(c)
             \/ DestroyBalancer(c)
             \/ ExDestroyPool(c)
             \/ ExDestroyNode(c)
             \/ ExDestroyPoolMember(c)
             \/ ExDestroyPoolMemberNode(c)
             \/ ExSetNodeState(c)
             \/ ListBalancers(c)
             \/ BalancerListMembers(c)
             \/ ExGetPoolMembers(c)
             \/ ExGetPoolMember(c)
             \/ ExUpdateListener(c)
             \/ ExUpdatePool(c)
             \/ ExUpdateNode(c)
             \/ ExSetPoolMemberState(c)
      PROVE  PoolInv'
  <2>1. CreatedPoolsOwned' /\ LeftPoolsReachable'
    BY <1>1, <1>3, ExSetCurrentNetworkDomainPools, CreateBalancerPoolPools,
       CreateBalancerNodePools, CreateBalancerMemberPools,
       CreateBalancerListenerPools, AttachCreateNodePools, AttachGetPoolPools,
       AttachAddMemberPools, BalancerDetachMemberPools, DestroyBalancerPools,
       ExDestroyPoolPools, ExDestroyNodePools, ExDestroyPoolMemberPools,
       ExDestroyPoolMemberNodePools, ExSetNodeStatePools, ListBalancersPools,
       BalancerListMembersPools, ExGetPoolMembersPools, ExGetPoolMemberPools,
       ExUpdateListenerPools, ExUpdatePoolPools, ExUpdateNodePools,
       ExSetPoolMemberStatePools
  <2>2. QED
    BY <1>1, <2>1 DEF PoolInv
<1>4. QED
  BY <1>2, <1>3 DEF Next

\* PoolInv holds in every reachable state.
LEMMA PoolInvInvariant == Spec => []PoolInv
BY PoolInit, PoolStep, PTL DEF Spec

\* The pool create_balancer makes is never lost to the program: whatever
\* callers interleave and whatever requests are lost, every pool on the
\* server is the pool_id of a LoadBalancer handle it holds, or was created
\* by a call still running or one that raised (destroy_balancer leaves the
\* pool, which ex_destroy_pool can still remove).
THEOREM LeftPoolsReachableInvariant == Spec => []LeftPoolsReachable
<1>1. PoolInv => LeftPoolsReachable
  BY DEF PoolInv
<1>2. QED
  BY <1>1, PoolInvInvariant, PTL

=============================================================================
