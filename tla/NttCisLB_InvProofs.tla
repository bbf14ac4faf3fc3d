-------------------------- MODULE NttCisLB_InvProofs --------------------------
(***************************************************************************)
(* Proof that IInv is an inductive invariant of NttCisLB, and so that     *)
(* CallDomainConsistent, BalancerHandlesAccurate and HandleIdsKindCorrect *)
(* hold in every reachable state, for every value of the constants.      *)
(*                                                                         *)
(* The argument: the server only appends objects at nextId, only marks    *)
(* objects deleted, and changes no field of an issued id but the pool of  *)
(* a listener, which ex_update_listener sets to an issued pool or to none.*)
(* Every fact IInv states about an issued id is about its domain, about   *)
(* ids below nextId, or says a kind is one of {k, "none"}, so it survives *)
(* any such step (Grow below).  What remains for each action is the new   *)
(* object, the new handles and the new locals it produces.                *)
(***************************************************************************)
EXTENDS NttCisLB_proofs

USE ConstantsAssumption

\* Server state s2 with next id n2 grows from s with n: ids issued in s keep
\* their domain and node, their pool or another issued id, and their kind
\* or become deleted.
Grow(s, n, s2, n2) ==
    /\ n <= n2
    /\ \A j \in Ids : j < n =>
           /\ s2[j].dom = s[j].dom
           /\ s2[j].pool = s[j].pool \/ s2[j].pool < n
           /\ s2[j].node = s[j].node
           /\ s2[j].kind \in {s[j].kind, "none"}

-----------------------------------------------------------------------------
(***************************************************************************)
(* What holds of issued ids survives a step that grows the server.        *)
(***************************************************************************)
LEMMA ObjStable ==
    ASSUME NEW s \in [Ids -> Obj], NEW s2 \in [Ids -> Obj],
           NEW n \in Nat, NEW n2 \in Nat, Grow(s, n, s2, n2),
           NEW i \in Ids, i < n, ObjOK(s, n, i)
    PROVE  ObjOK(s2, n2, i)
<1>1. /\ i >= n2 => s2[i].kind = "none"
      /\ s2[i].pool < n2
      /\ s2[i].node < n2
  <2>1. s[i].pool \in Ids0 /\ s[i].node \in Ids0 /\ s2[i].pool \in Ids0
    BY DEF Obj
  <2>2. /\ s2[i].pool = s[i].pool \/ s2[i].pool < n
        /\ s2[i].node = s[i].node
        /\ n <= n2
    BY DEF Grow
  <2>3. s[i].pool < n /\ s[i].node < n
    BY DEF ObjOK
  <2>4. QED
    BY <2>1, <2>2, <2>3 DEF Ids, Ids0
<1>2. ASSUME s2[i].kind = "member"
      PROVE  s2[i].node \in Ids /\ s2[s2[i].node].kind \in {"node", "none"}
  <2>1. s[i].kind = "member" /\ s2[i].node = s[i].node
    BY <1>2 DEF Grow
  <2>2. s[i].node \in Ids /\ s[i].node < n
        /\ s[s[i].node].kind \in {"node", "none"}
    BY <2>1 DEF ObjOK
  <2>3. s2[s[i].node].kind \in {s[s[i].node].kind, "none"}
    BY <2>2 DEF Grow
  <2>4. QED
    BY <2>1, <2>2, <2>3
<1>3. QED
  BY <1>1, <1>2 DEF ObjOK

LEMMA BalStable ==
    ASSUME NEW s \in [Ids -> Obj], NEW s2 \in [Ids -> Obj],
           NEW n \in Nat, NEW n2 \in Nat, Grow(s, n, s2, n2),
           NEW h \in Balancer, BalOK(s, n, h)
    PROVE  BalOK(s2, n2, h)
BY DEF Grow, BalOK, Balancer, Ids, Ids0

LEMMA MemStable ==
    ASSUME NEW s \in [Ids -> Obj], NEW s2 \in [Ids -> Obj],
           NEW n \in Nat, NEW n2 \in Nat, Grow(s, n, s2, n2),
           NEW m, m.id \in Ids, MemOK(s, n, m)
    PROVE  MemOK(s2, n2, m)
BY DEF Grow, MemOK, Ids

LEMMA PmStable ==
    ASSUME NEW s \in [Ids -> Obj], NEW s2 \in [Ids -> Obj],
           NEW n \in Nat, NEW n2 \in Nat, Grow(s, n, s2, n2),
           NEW pm \in PoolMemberH, PmOK(s, n, pm)
    PROVE  PmOK(s2, n2, pm)
BY DEF Grow, PmOK, MemOK, PoolMemberH, Ids, Ids0

LEMMA LocStable ==
    ASSUME NEW s \in [Ids -> Obj], NEW s2 \in [Ids -> Obj],
           NEW n \in Nat, NEW n2 \in Nat, Grow(s, n, s2, n2),
           NEW p, NEW l \in Loc, NEW cr \in SUBSET Ids, LocOK(s, n, p, l, cr)
    PROVE  LocOK(s2, n2, p, l, cr)
<1>0. l.pool \in Nat /\ n <= n2
  BY DEF Grow, Loc, Ids0
<1>1. p \in {"cb_loop", "cb_add", "at_pool", "at_add"} => l.pool < n2
  BY <1>0 DEF LocOK
<1>2. \A i \in cr : /\ i < n2
                    /\ s2[i].kind \in {"pool", "node"} => s2[i].dom = l.dom
  <2>1. \A i \in cr : /\ i < n
                      /\ s[i].kind \in {"pool", "node"} => s[i].dom = l.dom
    BY DEF LocOK
  <2>2. QED
    BY <2>1 DEF Grow, Ids
<1>3. QED
  BY <1>1, <1>2 DEF LocOK

\* An id at or beyond n that the step leaves alone still names nothing.
LEMMA FreshStable ==
    ASSUME NEW s \in [Ids -> Obj], NEW s2 \in [Ids -> Obj],
           NEW n \in Nat, NEW n2 \in Nat, n <= n2,
           NEW i \in Ids, i >= n, s2[i] = s[i], ObjOK(s, n, i)
    PROVE  ObjOK(s2, n2, i)
<1>1. s2[i].kind = "none"
  BY DEF ObjOK
<1>2. s2[i].pool < n2 /\ s2[i].node < n2
  BY DEF ObjOK, Obj, Ids0
<1>3. QED
  BY <1>1, <1>2 DEF ObjOK

-----------------------------------------------------------------------------
(***************************************************************************)
(* The server's part of a step: it changes nothing, marks one object      *)
(* deleted, or stores a new object at nextId.                              *)
(***************************************************************************)
\* What StepOK needs of the server.
ServerStepOK ==
    /\ Grow(srv, nextId, srv', nextId')
    /\ \A i \in Ids : i >= nextId => ObjOK(srv', nextId', i)

LEMMA SameServer ==
    ASSUME IInv, srv' = srv, nextId' = nextId
    PROVE  ServerStepOK
<1>1. nextId \in Nat /\ srv \in [Ids -> Obj]
  BY DEF IInv, TypeOK
<1>2. Grow(srv, nextId, srv', nextId')
  BY <1>1 DEF Grow
<1>3. \A i \in Ids : i >= nextId => ObjOK(srv', nextId', i)
  BY DEF IInv
<1>4. QED
  BY <1>2, <1>3 DEF ServerStepOK

LEMMA DeleteServer ==
    ASSUME IInv, NEW out, NEW i0, Delete(out, i0), nextId' = nextId
    PROVE  ServerStepOK
<1>1. nextId \in Nat /\ srv \in [Ids -> Obj]
  BY DEF IInv, TypeOK
<1>2. CASE Applied(out) /\ i0 \in Ids
  <2>1. srv' = [srv EXCEPT ![i0].kind = "none"]
    BY <1>2 DEF Delete
  <2>2. \A j \in Ids : /\ srv'[j].dom = srv[j].dom
                       /\ srv'[j].pool = srv[j].pool
                       /\ srv'[j].node = srv[j].node
                       /\ srv'[j].kind \in {srv[j].kind, "none"}
    BY <1>1, <1>2, <2>1 DEF Obj
  <2>3. Grow(srv, nextId, srv', nextId')
    BY <1>1, <2>2 DEF Grow
  <2>4. \A i \in Ids : i >= nextId => ObjOK(srv', nextId', i)
    BY <1>1, <2>2 DEF IInv, ObjOK
  <2>5. QED
    BY <2>3, <2>4 DEF ServerStepOK
<1>3. CASE ~Applied(out) \/ i0 \notin Ids
  <2>1. srv' = srv
    <3>1. CASE ~Applied(out)
      BY <3>1 DEF Delete
    <3>2. CASE i0 \notin Ids
      <4>1. [srv EXCEPT ![i0] = [srv[i0] EXCEPT !.kind = "none"]] = srv
        BY <1>1, <3>2, ExceptOutsideDomain
      <4>2. QED
        BY <4>1, Zenon DEF Delete
    <3>3. QED
      BY <1>3, <3>1, <3>2
  <2>2. QED
    BY <2>1, SameServer
<1>4. QED
  BY <1>2, <1>3

LEMMA CreateServer ==
    ASSUME IInv, NEW out, NEW o, Create(out, o),
           Applied(out) =>
               /\ nextId \in Ids
               /\ o \in Obj
               /\ ObjOK([srv EXCEPT ![nextId] = o], nextId + 1, nextId)
    PROVE  ServerStepOK
<1>1. nextId \in Nat /\ srv \in [Ids -> Obj]
  BY DEF IInv, TypeOK
<1>2. CASE Applied(out)
  <2>1. srv' = [srv EXCEPT ![nextId] = o] /\ nextId' = nextId + 1
    BY <1>2 DEF Create
  <2>2. \A j \in Ids : j # nextId => srv'[j] = srv[j]
    BY <2>1
  <2>3. Grow(srv, nextId, srv', nextId')
    BY <1>1, <2>1, <2>2 DEF Grow
  <2>4. ASSUME NEW i \in Ids, i >= nextId PROVE ObjOK(srv', nextId', i)
    <3>1. CASE i = nextId
      BY <1>2, <2>1, <3>1
    <3>2. CASE i # nextId
      <4>1. ObjOK(srv, nextId, i)
        BY DEF IInv
      <4>2. srv' \in [Ids -> Obj]
        BY <1>1, <1>2, <2>1
      <4>3. srv'[i] = srv[i] /\ nextId <= nextId + 1 /\ nextId + 1 \in Nat
        BY <1>1, <2>2, <3>2
      <4>4. ObjOK(srv', nextId + 1, i)
        BY <1>1, <2>4, <4>1, <4>2, <4>3, FreshStable
      <4>5. QED
        BY <2>1, <4>4
    <3>3. QED
      BY <3>1, <3>2
  <2>5. QED
    BY <2>3, <2>4 DEF ServerStepOK
<1>3. CASE ~Applied(out)
  <2>1. srv' = srv /\ nextId' = nextId
    BY <1>3 DEF Create
  <2>2. QED
    BY <2>1, SameServer
<1>4. QED
  BY <1>2, <1>3


\* ex_update_listener's step: an applied edit sets the pool of listener l0
\* to an issued id np; nothing else changes.
LEMMA RepointServer ==
    ASSUME IInv, NEW out, NEW l0 \in Ids, NEW np \in Ids0, np < nextId,
           srv' = IF Applied(out) THEN [srv EXCEPT ![l0].pool = np] ELSE srv,
           nextId' = nextId, Applied(out) => srv[l0].kind = "listener"
    PROVE  ServerStepOK
<1>1. nextId \in Nat /\ srv \in [Ids -> Obj]
  BY DEF IInv, TypeOK
<1>2. CASE Applied(out)
  <2>1. srv' = [srv EXCEPT ![l0].pool = np]
    BY <1>2
  <2>2. l0 < nextId
    <3>1. ObjOK(srv, nextId, l0) /\ srv[l0].kind = "listener"
      BY <1>2 DEF IInv
    <3>2. QED
      BY <1>1, <3>1 DEF ObjOK, Ids
  <2>3. ASSUME NEW j \in Ids
        PROVE  /\ srv'[j].dom = srv[j].dom
               /\ srv'[j].pool = srv[j].pool \/ srv'[j].pool < nextId
               /\ srv'[j].node = srv[j].node
               /\ srv'[j].kind = srv[j].kind
    <3>1. CASE j = l0
      BY <1>1, <2>1, <3>1 DEF Obj
    <3>2. CASE j # l0
      BY <1>1, <2>1, <3>2
    <3>3. QED
      BY <3>1, <3>2
  <2>4. Grow(srv, nextId, srv', nextId')
    BY <1>1, <2>3 DEF Grow
  <2>5. ASSUME NEW i \in Ids, i >= nextId PROVE ObjOK(srv', nextId', i)
    <3>1. i # l0 /\ srv'[i] = srv[i]
      BY <1>1, <2>1, <2>2, <2>5 DEF Ids
    <3>2. srv' \in [Ids -> Obj]
      BY <1>1, <2>1 DEF Obj
    <3>3. ObjOK(srv, nextId, i) /\ nextId' \in Nat /\ nextId <= nextId'
      BY <1>1 DEF IInv
    <3>4. QED
      BY <1>1, <2>5, <3>1, <3>2, <3>3, FreshStable
  <2>6. QED
    BY <2>4, <2>5 DEF ServerStepOK
<1>3. CASE ~Applied(out)
  BY <1>3, SameServer
<1>4. QED
  BY <1>2, <1>3

-----------------------------------------------------------------------------
(***************************************************************************)
(* The callers' part of a step: a call that ends has no locals and no     *)
(* created ids to keep, and a call that moves on keeps IInv if its new    *)
(* locals and created ids do.                                              *)
(***************************************************************************)
\* What StepOK needs of the callers.
LocalsStepOK ==
    \A d \in Callers :
        \/ pc'[d] = pc[d] /\ loc'[d] = loc[d] /\ created'[d] = created[d]
        \/ LocOK(srv', nextId', pc'[d], loc'[d], created'[d])

LEMMA EndLocals ==
    ASSUME TypeOK, NEW c \in Callers,
           pc' = [pc EXCEPT ![c] = "idle"], loc' = [loc EXCEPT ![c] = IdleLoc],
           created' = [created EXCEPT ![c] = {}]
    PROVE  LocalsStepOK
<1>1. LocOK(srv', nextId', "idle", IdleLoc, {})
  BY DEF LocOK
<1>2. QED
  BY <1>1 DEF LocalsStepOK, TypeOK

LEMMA GotoLocals ==
    ASSUME TypeOK, NEW c \in Callers, NEW p, NEW l, NEW new,
           Goto(c, p, l, new), LocOK(srv', nextId', p, l, created[c] \cup new)
    PROVE  LocalsStepOK
BY DEF Goto, LocalsStepOK, TypeOK

LEMMA ReturnLocals ==
    ASSUME TypeOK, NEW c \in Callers, Return(c) PROVE LocalsStepOK
BY EndLocals DEF Return

LEMMA RaiseLocals ==
    ASSUME TypeOK, NEW c \in Callers, NEW new, Raise(c, new) PROVE LocalsStepOK
BY EndLocals DEF Raise

\* The ids a call has created, with the ids new it adds in this step, are
\* issued pools and nodes in the call's domain d.
LEMMA CreatedGrows ==
    ASSUME IInv, TypeOK', ServerStepOK, NEW c \in Callers, NEW d,
           NEW new \in SUBSET Ids,
           \A i \in created[c] : srv[i].kind \in {"pool", "node"} => srv[i].dom = d,
           \A i \in new : /\ i < nextId'
                          /\ srv'[i].kind \in {"pool", "node"} => srv'[i].dom = d
    PROVE  \A i \in created[c] \cup new :
               /\ i < nextId'
               /\ srv'[i].kind \in {"pool", "node"} => srv'[i].dom = d
<1>0. \A i \in created[c] : i < nextId
  BY DEF IInv, LocOK
<1>1. \A i \in created[c] : /\ i < nextId
                            /\ srv[i].kind \in {"pool", "node"} => srv[i].dom = d
  BY <1>0
<1>2. \A i \in created[c] : /\ i < nextId'
                            /\ srv'[i].kind \in {"pool", "node"} => srv'[i].dom = d
  <2>1. nextId \in Nat /\ nextId' \in Nat /\ srv \in [Ids -> Obj]
        /\ srv' \in [Ids -> Obj] /\ created[c] \in SUBSET Ids
    BY DEF IInv, TypeOK
  <2>2. Grow(srv, nextId, srv', nextId')
    BY DEF ServerStepOK
  <2>3. QED
    BY <1>1, <2>1, <2>2 DEF Grow, Ids
<1>3. QED
  BY <1>2

\* One removal request keeps the server and the callers as IInv needs.
LEMMA RemoveReqOK ==
    ASSUME IInv, NEW c \in Callers, NEW i, NEW ok, RemoveReq(c, i, ok),
           nextId' = nextId
    PROVE  ServerStepOK /\ LocalsStepOK
<1>1. PICK out \in Answers(ok) :
        /\ Delete(out, i)
        /\ IF out = "ok" THEN Return(c) ELSE Raise(c, {})
  BY Zenon DEF RemoveReq
<1>2. ServerStepOK
  BY <1>1, DeleteServer
<1>3. LocalsStepOK
  <2>1. TypeOK
    BY DEF IInv
  <2>2. CASE out = "ok"
    BY <1>1, <2>1, <2>2, ReturnLocals
  <2>3. CASE out # "ok"
    BY <1>1, <2>1, <2>3, RaiseLocals
  <2>4. QED
    BY <2>2, <2>3
<1>4. QED
  BY <1>2, <1>3


-----------------------------------------------------------------------------
(***************************************************************************)
(* The step lemma: a step that grows the server keeps IInv when the ids   *)
(* from nextId on, the handles it adds and the locals it changes are as   *)
(* IInv requires.                                                          *)
(***************************************************************************)
\* What StepOK needs of the handles the step adds.
HandlesStepOK ==
    /\ \A h \in lbs' \ lbs : BalOK(srv', nextId', h)
    /\ \A m \in mems' \ mems : MemOK(srv', nextId', m)
    /\ \A pm \in pms' \ pms : PmOK(srv', nextId', pm)

LEMMA StepOK ==
    ASSUME IInv, TypeOK', ServerStepOK, HandlesStepOK, LocalsStepOK
    PROVE  IInv'
<1>0. /\ Grow(srv, nextId, srv', nextId')
      /\ \A i \in Ids : i >= nextId => ObjOK(srv', nextId', i)
      /\ \A h \in lbs' \ lbs : BalOK(srv', nextId', h)
      /\ \A m \in mems' \ mems : MemOK(srv', nextId', m)
      /\ \A pm \in pms' \ pms : PmOK(srv', nextId', pm)
      /\ \A c \in Callers :
             \/ pc'[c] = pc[c] /\ loc'[c] = loc[c] /\ created'[c] = created[c]
             \/ LocOK(srv', nextId', pc'[c], loc'[c], created'[c])
  BY DEF ServerStepOK, HandlesStepOK, LocalsStepOK
<1>1. nextId \in Nat /\ nextId' \in Nat
  BY DEF IInv, TypeOK
<1>2. \A i \in Ids : ObjOK(srv', nextId', i)
  <2> TAKE i \in Ids
  <2>1. CASE i < nextId
    BY <1>0, <1>1, <2>1, ObjStable DEF IInv, TypeOK
  <2>2. CASE i >= nextId
    BY <1>0, <2>2 DEF Ids
  <2>3. QED
    BY <1>1, <2>1, <2>2 DEF Ids
<1>3. \A h \in lbs' : BalOK(srv', nextId', h)
  BY <1>0, <1>1, BalStable DEF IInv, TypeOK
<1>4. \A m \in mems' : MemOK(srv', nextId', m)
  BY <1>0, <1>1, MemStable DEF IInv, TypeOK, MemberH
<1>5. \A pm \in pms' : PmOK(srv', nextId', pm)
  BY <1>0, <1>1, PmStable DEF IInv, TypeOK
<1>6. \A c \in Callers : LocOK(srv', nextId', pc'[c], loc'[c], created'[c])
  <2> TAKE c \in Callers
  <2>1. CASE pc'[c] = pc[c] /\ loc'[c] = loc[c] /\ created'[c] = created[c]
    BY <1>0, <1>1, <2>1, LocStable DEF IInv, TypeOK
  <2>2. QED
    BY <1>0, <2>1
<1>7. QED
  BY <1>2, <1>3, <1>4, <1>5, <1>6 DEF IInv

-----------------------------------------------------------------------------
(***************************************************************************)
(* The actions that create nothing.                                       *)
(***************************************************************************)
\* A step that adds no handle.
LEMMA NoNewHandles ==
    ASSUME UNCHANGED <<lbs, mems, pms>> PROVE HandlesStepOK
BY DEF HandlesStepOK

LEMMA ExSetCurrentNetworkDomainInv ==
    ASSUME IInv, TypeOK', NEW c \in Callers, ExSetCurrentNetworkDomain(c)
    PROVE  IInv'
<1>1. ServerStepOK
  BY SameServer DEF ExSetCurrentNetworkDomain
<1>2. LocalsStepOK
  BY DEF ExSetCurrentNetworkDomain, LocalsStepOK
<1>3. QED
  BY <1>1, <1>2, NoNewHandles, StepOK DEF ExSetCurrentNetworkDomain

LEMMA ExSetNodeStateInv ==
    ASSUME IInv, TypeOK', NEW c \in Callers, ExSetNodeState(c)
    PROVE  IInv'
<1>1. ServerStepOK
  BY SameServer DEF ExSetNodeState
<1>2. Raise(c, {})
  BY Zenon DEF ExSetNodeState
<1>3. LocalsStepOK
  BY <1>2, RaiseLocals DEF IInv
<1>4. QED
  BY <1>1, <1>3, NoNewHandles, StepOK DEF ExSetNodeState

\* The single-request removals.
LEMMA BalancerDetachMemberInv ==
    ASSUME IInv, TypeOK', NEW c \in Callers, BalancerDetachMember(c)
    PROVE  IInv'
<1>1. PICK m \in mems : RemoveReq(c, m.id, IsA(m.id, "member"))
  BY Zenon DEF BalancerDetachMember
<1>2. QED
  BY <1>1, RemoveReqOK, NoNewHandles, StepOK DEF BalancerDetachMember

LEMMA DestroyBalancerInv ==
    ASSUME IInv, TypeOK', NEW c \in Callers, DestroyBalancer(c)
    PROVE  IInv'
<1>1. PICK b \in lbs : RemoveReq(c, b.id, IsA(b.id, "listener"))
  BY Zenon DEF DestroyBalancer
<1>2. QED
  BY <1>1, RemoveReqOK, NoNewHandles, StepOK DEF DestroyBalancer

LEMMA ExDestroyPoolInv ==
    ASSUME IInv, TypeOK', NEW c \in Callers, ExDestroyPool(c)
    PROVE  IInv'
<1>1. PICK b \in lbs : RemoveReq(c, b.pool, IsA(b.pool, "pool") /\ ~InUse(b.pool))
  BY Zenon DEF ExDestroyPool
<1>2. QED
  BY <1>1, RemoveReqOK, NoNewHandles, StepOK DEF ExDestroyPool

LEMMA ExDestroyNodeInv ==
    ASSUME IInv, TypeOK', NEW c \in Callers, ExDestroyNode(c)
    PROVE  IInv'
<1>1. PICK pm \in pms : RemoveReq(c, pm.node, IsA(pm.node, "node") /\ ~InUse(pm.node))
  BY Zenon DEF ExDestroyNode
<1>2. QED
  BY <1>1, RemoveReqOK, NoNewHandles, StepOK DEF ExDestroyNode

LEMMA ExDestroyPoolMemberNodeInv ==
    ASSUME IInv, TypeOK', NEW c \in Callers, ExDestroyPoolMemberNode(c)
    PROVE  IInv'
BY RemoveReqOK, NoNewHandles, StepOK DEF ExDestroyPoolMemberNode

LEMMA ExDestroyPoolMemberInv ==
    ASSUME IInv, TypeOK', NEW c \in Callers, ExDestroyPoolMember(c)
    PROVE  IInv'
<1>0. TypeOK
  BY DEF IInv
<1>1. PICK pm \in pms, dn \in BOOLEAN :
        \E out \in Answers(IsA(pm.id, "member")) :
            /\ Delete(out, pm.id)
            /\ IF out # "ok" THEN Raise(c, {})
               ELSE IF pm.node # None /\ dn
                    THEN Goto(c, "dp_node", [IdleLoc EXCEPT !.node = pm.node], {})
                    ELSE Return(c)
  BY Zenon DEF ExDestroyPoolMember
<1>2. PICK out \in Answers(IsA(pm.id, "member")) :
            /\ Delete(out, pm.id)
            /\ IF out # "ok" THEN Raise(c, {})
               ELSE IF pm.node # None /\ dn
                    THEN Goto(c, "dp_node", [IdleLoc EXCEPT !.node = pm.node], {})
                    ELSE Return(c)
  BY <1>1, Zenon
<1>3. ServerStepOK
  BY <1>2, DeleteServer DEF ExDestroyPoolMember
<1>4. LocalsStepOK
  <2>1. CASE out # "ok"
    BY <1>0, <1>2, <2>1, RaiseLocals
  <2>2. CASE out = "ok" /\ pm.node # None /\ dn
    <3>1. Goto(c, "dp_node", [IdleLoc EXCEPT !.node = pm.node], {})
      BY <1>2, <2>2
    <3>2. created[c] = {}
      BY DEF IInv, LocOK, ExDestroyPoolMember, Idle
    <3>3. LocOK(srv', nextId', "dp_node", [IdleLoc EXCEPT !.node = pm.node],
                created[c] \cup {})
      BY <3>2 DEF LocOK
    <3>4. QED
      BY <1>0, <3>1, <3>3, GotoLocals
  <2>3. CASE out = "ok" /\ ~(pm.node # None /\ dn)
    BY <1>0, <1>2, <2>3, ReturnLocals
  <2>4. QED
    BY <2>1, <2>2, <2>3
<1>5. QED
  BY <1>3, <1>4, NoNewHandles, StepOK DEF ExDestroyPoolMember

LEMMA AttachGetPoolInv ==
    ASSUME IInv, TypeOK', NEW c \in Callers, AttachGetPool(c)
    PROVE  IInv'
<1>0. TypeOK
  BY DEF IInv
<1>1. PICK out \in Answers(IsA(loc[c].pool, "pool")) :
        IF out = "ok" THEN Goto(c, "at_add", loc[c], {}) ELSE Raise(c, {})
  BY Zenon DEF AttachGetPool
<1>2. ServerStepOK
  BY SameServer DEF AttachGetPool
<1>3. LocalsStepOK
  <2>1. CASE out = "ok"
    <3>1. LocOK(srv, nextId, "at_pool", loc[c], created[c])
      BY DEF IInv, AttachGetPool
    <3>2. LocOK(srv', nextId', "at_add", loc[c], created[c] \cup {})
      BY <3>1 DEF LocOK, AttachGetPool
    <3>3. QED
      BY <1>0, <1>1, <2>1, <3>2, GotoLocals
  <2>2. CASE out # "ok"
    BY <1>0, <1>1, <2>2, RaiseLocals
  <2>3. QED
    BY <2>1, <2>2
<1>4. QED
  BY <1>2, <1>3, NoNewHandles, StepOK DEF AttachGetPool

-----------------------------------------------------------------------------
(***************************************************************************)
(* The reads: the handles they parse describe the server as it is.        *)
(***************************************************************************)
\* An object of kind k other than "none" has an issued id.
LEMMA LiveIssued ==
    ASSUME IInv, NEW i \in Ids, srv[i].kind # "none" PROVE i < nextId
BY DEF IInv, ObjOK, TypeOK, Ids

LEMMA ListBalancersInv ==
    ASSUME IInv, TypeOK', NEW c \in Callers, ListBalancers(c)
    PROVE  IInv'
<1>1. ServerStepOK
  BY SameServer DEF ListBalancers
<1>2. LocalsStepOK
  BY DEF ListBalancers, LocalsStepOK
<1>3. \A i \in Ids : IsA(i, "listener") => BalOK(srv', nextId', ToBalancer(i))
  <2> SUFFICES ASSUME NEW i \in Ids, IsA(i, "listener")
               PROVE  BalOK(srv, nextId, ToBalancer(i))
    BY DEF ListBalancers
  <2>1. i < nextId
    BY LiveIssued DEF IsA
  <2>2. ObjOK(srv, nextId, i)
    BY DEF IInv
  <2>3. QED
    BY <2>1, <2>2 DEF ObjOK, BalOK, ToBalancer, IsA
<1>4. HandlesStepOK
  <2>1. PICK ds \in {Domains} \cup {{d} : d \in Domains} :
          lbs' = lbs \cup {ToBalancer(i) : i \in {j \in Ids : IsA(j, "listener")
                                                          /\ srv[j].dom \in ds}}
    BY Zenon DEF ListBalancers
  <2>2. QED
    BY <1>3, <2>1 DEF HandlesStepOK, ListBalancers
<1>5. QED
  BY <1>1, <1>2, <1>4, StepOK

\* A pool member j of a pool is a live, issued member.
LEMMA PoolMembersIssued ==
    ASSUME IInv, NEW p, NEW j \in PoolMembersOf(p)
    PROVE  /\ j \in Ids
           /\ j < nextId
           /\ srv[j].kind = "member"
           /\ srv[j].node < nextId
           /\ srv[j].node \in Ids
           /\ srv[srv[j].node].kind \in {"node", "none"}
<1>1. j \in Ids /\ srv[j].kind = "member"
  BY DEF PoolMembersOf, IsA
<1>2. j < nextId
  BY <1>1, LiveIssued
<1>3. QED
  BY <1>1, <1>2 DEF IInv, ObjOK

LEMMA BalancerListMembersInv ==
    ASSUME IInv, TypeOK', NEW c \in Callers, BalancerListMembers(c)
    PROVE  IInv'
<1>1. ServerStepOK
  BY SameServer DEF BalancerListMembers
<1>2. LocalsStepOK
  BY DEF BalancerListMembers, LocalsStepOK
<1>3. PICK b \in lbs :
        mems' = mems \cup {[id |-> j, ip |-> srv[j].ip] : j \in PoolMembersOf(b.pool)}
  BY Zenon DEF BalancerListMembers
<1>4. \A j \in PoolMembersOf(b.pool) : MemOK(srv, nextId, [id |-> j, ip |-> srv[j].ip])
  BY PoolMembersIssued DEF MemOK
<1>5. HandlesStepOK
  BY <1>3, <1>4 DEF HandlesStepOK, BalancerListMembers
<1>6. QED
  BY <1>1, <1>2, <1>5, StepOK

LEMMA ExGetPoolMembersInv ==
    ASSUME IInv, TypeOK', NEW c \in Callers, ExGetPoolMembers(c)
    PROVE  IInv'
<1>1. ServerStepOK
  BY SameServer DEF ExGetPoolMembers
<1>2. LocalsStepOK
  BY DEF ExGetPoolMembers, LocalsStepOK
<1>3. PICK b \in lbs :
        pms' = pms \cup {[id |-> j, node |-> srv[j].node] : j \in PoolMembersOf(b.pool)}
  BY Zenon DEF ExGetPoolMembers
<1>4. \A j \in PoolMembersOf(b.pool) :
        PmOK(srv, nextId, [id |-> j, node |-> srv[j].node])
  BY PoolMembersIssued DEF PmOK, MemOK
<1>5. HandlesStepOK
  BY <1>3, <1>4 DEF HandlesStepOK, ExGetPoolMembers
<1>6. QED
  BY <1>1, <1>2, <1>5, StepOK

\* ex_get_pool_member adds the NttCisPoolMember of a live pool member.
LEMMA ExGetPoolMemberInv ==
    ASSUME IInv, TypeOK', NEW c \in Callers, ExGetPoolMember(c)
    PROVE  IInv'
<1>1. ServerStepOK
  BY SameServer DEF ExGetPoolMember
<1>2. LocalsStepOK
  BY DEF ExGetPoolMember, LocalsStepOK
<1>3. PICK m \in mems :
        /\ IsA(m.id, "member")
        /\ pms' = pms \cup {[id |-> m.id, node |-> srv[m.id].node]}
  BY Zenon DEF ExGetPoolMember
<1>4. m.id \in PoolMembersOf(srv[m.id].pool)
  BY <1>3 DEF PoolMembersOf, IsA
<1>5. PmOK(srv, nextId, [id |-> m.id, node |-> srv[m.id].node])
  BY <1>4, PoolMembersIssued DEF PmOK, MemOK
<1>6. HandlesStepOK
  BY <1>3, <1>5 DEF HandlesStepOK, ExGetPoolMember
<1>7. QED
  BY <1>1, <1>2, <1>6, StepOK

\* An edit request changes no tracked state but the fault count and the
\* caller's end of call.
LEMMA EditReqOK ==
    ASSUME IInv, NEW c \in Callers, NEW ok, EditReq(c, ok),
           srv' = srv, nextId' = nextId
    PROVE  ServerStepOK /\ LocalsStepOK
<1>1. PICK out \in Answers(ok) :
        /\ CountFault(out)
        /\ IF out = "ok" THEN Return(c) ELSE Raise(c, {})
  BY Zenon DEF EditReq
<1>2. ServerStepOK
  BY SameServer
<1>3. LocalsStepOK
  <2>1. CASE out = "ok"
    BY <1>1, <2>1, ReturnLocals DEF IInv
  <2>2. CASE out # "ok"
    BY <1>1, <2>2, RaiseLocals DEF IInv
  <2>3. QED
    BY <2>1, <2>2
<1>4. QED
  BY <1>2, <1>3

\* ex_update_listener: the listener's pool becomes an issued pool or none.
LEMMA ExUpdateListenerInv ==
    ASSUME IInv, TypeOK', NEW c \in Callers, ExUpdateListener(c)
    PROVE  IInv'
<1>0. TypeOK
  BY DEF IInv
<1>1. PICK b \in lbs, np \in Ids0 :
        \E out \in Answers(IsA(b.id, "listener") /\ (np = None \/ IsA(np, "pool"))) :
            /\ srv' = IF Applied(out) THEN [srv EXCEPT ![b.id].pool = np] ELSE srv
            /\ CountFault(out)
            /\ IF out = "ok" THEN Return(c) ELSE Raise(c, {})
  BY Zenon DEF ExUpdateListener
<1>2. PICK out \in Answers(IsA(b.id, "listener") /\ (np = None \/ IsA(np, "pool"))) :
            /\ srv' = IF Applied(out) THEN [srv EXCEPT ![b.id].pool = np] ELSE srv
            /\ IF out = "ok" THEN Return(c) ELSE Raise(c, {})
  BY <1>1
<1>3. ServerStepOK
  <2>1. Applied(out) => IsA(b.id, "listener") /\ (np = None \/ IsA(np, "pool"))
    BY <1>2 DEF Answers, Applied, Lost
  <2>2. b.id \in Ids /\ nextId \in Nat
    BY <1>0 DEF TypeOK, Balancer
  <2>3. Applied(out) => np < nextId
    <3>1. CASE np = None
      BY <1>0, <3>1 DEF TypeOK, None
    <3>2. CASE IsA(np, "pool")
      BY <3>2, LiveIssued DEF IsA
    <3>3. QED
      BY <2>1, <3>1, <3>2
  <2>4. np < nextId \/ srv' = srv
    BY <1>2, <2>3
  <2>5. CASE srv' = srv
    BY <2>5, SameServer DEF ExUpdateListener
  <2>6. CASE np < nextId
    BY <1>2, <2>1, <2>2, <2>6, RepointServer DEF ExUpdateListener, IsA
  <2>7. QED
    BY <2>4, <2>5, <2>6
<1>4. LocalsStepOK
  <2>1. CASE out = "ok"
    BY <1>0, <1>2, <2>1, ReturnLocals
  <2>2. CASE out # "ok"
    BY <1>0, <1>2, <2>2, RaiseLocals
  <2>3. QED
    BY <2>1, <2>2
<1>5. QED
  BY <1>3, <1>4, NoNewHandles, StepOK DEF ExUpdateListener

LEMMA ExUpdatePoolInv ==
    ASSUME IInv, TypeOK', NEW c \in Callers, ExUpdatePool(c)
    PROVE  IInv'
<1>1. PICK b \in lbs : EditReq(c, IsA(b.pool, "pool"))
  BY Zenon DEF ExUpdatePool
<1>2. QED
  BY <1>1, EditReqOK, NoNewHandles, StepOK DEF ExUpdatePool

LEMMA ExUpdateNodeInv ==
    ASSUME IInv, TypeOK', NEW c \in Callers, ExUpdateNode(c)
    PROVE  IInv'
<1>1. PICK pm \in pms : EditReq(c, IsA(pm.node, "node"))
  BY Zenon DEF ExUpdateNode
<1>2. QED
  BY <1>1, EditReqOK, NoNewHandles, StepOK DEF ExUpdateNode

LEMMA ExSetPoolMemberStateInv ==
    ASSUME IInv, TypeOK', NEW c \in Callers, ExSetPoolMemberState(c)
    PROVE  IInv'
<1>1. PICK pm \in pms : EditReq(c, IsA(pm.id, "member"))
  BY Zenon DEF ExSetPoolMemberState
<1>2. QED
  BY <1>1, EditReqOK, NoNewHandles, StepOK DEF ExSetPoolMemberState

-----------------------------------------------------------------------------
(***************************************************************************)
(* The objects and locals the creating actions build.                     *)
(***************************************************************************)
LEMMA NoObjFields == NoObj.pool = None /\ NoObj.node = None
BY DEF NoObj

LEMMA PoolFields ==
    ASSUME NEW k, NEW d
    PROVE  /\ [NoObj EXCEPT !.kind = k, !.dom = d].kind = k
           /\ [NoObj EXCEPT !.kind = k, !.dom = d].dom = d
           /\ [NoObj EXCEPT !.kind = k, !.dom = d].pool = None
           /\ [NoObj EXCEPT !.kind = k, !.dom = d].node = None
BY NoObjFields, DefaultRecordsTyped, Zenon DEF Obj

LEMMA NodeFields ==
    ASSUME NEW k, NEW d, NEW a
    PROVE  /\ [NoObj EXCEPT !.kind = k, !.dom = d, !.ip = a].kind = k
           /\ [NoObj EXCEPT !.kind = k, !.dom = d, !.ip = a].dom = d
           /\ [NoObj EXCEPT !.kind = k, !.dom = d, !.ip = a].pool = None
           /\ [NoObj EXCEPT !.kind = k, !.dom = d, !.ip = a].node = None
BY NoObjFields, DefaultRecordsTyped, Zenon DEF Obj

LEMMA ListenerFields ==
    ASSUME NEW k, NEW d, NEW p
    PROVE  /\ [NoObj EXCEPT !.kind = k, !.dom = d, !.pool = p].kind = k
           /\ [NoObj EXCEPT !.kind = k, !.dom = d, !.pool = p].dom = d
           /\ [NoObj EXCEPT !.kind = k, !.dom = d, !.pool = p].pool = p
           /\ [NoObj EXCEPT !.kind = k, !.dom = d, !.pool = p].node = None
BY NoObjFields, DefaultRecordsTyped, Zenon DEF Obj

LEMMA MemberFields ==
    ASSUME NEW k, NEW d, NEW p, NEW n, NEW a
    PROVE  LET o == [NoObj EXCEPT !.kind = k, !.dom = d, !.pool = p, !.node = n,
                                  !.ip = a]
           IN  o.kind = k /\ o.dom = d /\ o.pool = p /\ o.node = n
BY DefaultRecordsTyped, Zenon DEF Obj

\* A new object stored at nextId that refers only to issued ids, and joins
\* a node if it is a pool member, is as IInv requires.
LEMMA NewObjOK ==
    ASSUME TypeOK, nextId \in Ids, NEW o \in Obj,
           o.pool < nextId, o.node < nextId,
           o.kind = "member" => /\ o.node \in Ids
                                /\ srv[o.node].kind \in {"node", "none"}
    PROVE  ObjOK([srv EXCEPT ![nextId] = o], nextId + 1, nextId)
BY DEF ObjOK, TypeOK, Ids, Obj, Ids0

\* Facts kept across a step that grows the server.
LEMMA OldLocOK ==
    ASSUME IInv, TypeOK', ServerStepOK, NEW c \in Callers
    PROVE  LocOK(srv', nextId', pc[c], loc[c], created[c])
BY LocStable DEF IInv, TypeOK, ServerStepOK

LEMMA OldBalOK ==
    ASSUME IInv, TypeOK', ServerStepOK, NEW b \in lbs
    PROVE  BalOK(srv', nextId', b)
BY BalStable DEF IInv, TypeOK, ServerStepOK

\* A new object that refers to nothing and is no member.
LEMMA CreatePlainServer ==
    ASSUME IInv, NEW out, NEW o, Create(out, o),
           Applied(out) => nextId \in Ids,
           o \in Obj, o.pool = None, o.node = None, o.kind # "member"
    PROVE  ServerStepOK
<1>1. ASSUME Applied(out)
      PROVE  ObjOK([srv EXCEPT ![nextId] = o], nextId + 1, nextId)
  <2>1. nextId \in Ids
    BY <1>1
  <2>2. o.pool < nextId /\ o.node < nextId
    BY <2>1 DEF None, Ids
  <2>3. QED
    BY <2>1, <2>2, NewObjOK DEF IInv
<1>2. QED
  BY <1>1, CreateServer

\* An applied create of a pool or a node of domain d at nextId.
LEMMA CreatedAt ==
    ASSUME IInv, NEW out, NEW o, Create(out, o), Applied(out), nextId \in Ids,
           o \in Obj, NEW d, o.dom = d
    PROVE  /\ nextId' = nextId + 1
           /\ nextId < nextId'
           /\ srv'[nextId] = o
           /\ srv'[nextId].dom = d
<1>1. srv' = [srv EXCEPT ![nextId] = o] /\ nextId' = nextId + 1
  BY DEF Create
<1>2. QED
  BY <1>1 DEF IInv, TypeOK, Ids

LEMMA CreateBalancerPoolInv ==
    ASSUME IInv, TypeOK', NEW c \in Callers, CreateBalancerPool(c)
    PROVE  IInv'
<1>0. TypeOK /\ created[c] = {}
  BY DEF IInv, LocOK, CreateBalancerPool, Idle
<1> DEFINE o == [NoObj EXCEPT !.kind = "pool", !.dom = domain]
<1>1. PICK ms \in {S \in SUBSET MemberInputs : Cardinality(S) <= MaxMembers},
           lp \in ListenerPorts, op \in OptProfiles, out \in Answers(HasRoom) :
        /\ Create(out, o)
        /\ IF out = "ok"
           THEN Goto(c, "cb_loop",
                     [IdleLoc EXCEPT !.dom = domain, !.pool = nextId,
                                     !.todo = ms, !.lport = lp, !.opt = op],
                     {nextId})
           ELSE Raise(c, NewIds(out))
  BY Zenon DEF CreateBalancerPool
<1>2. Applied(out) => nextId \in Ids
  BY <1>0, <1>1 DEF Answers, Applied, Lost, HasRoom, TypeOK, Ids
<1>3. o \in Obj /\ o.kind = "pool" /\ o.dom = domain /\ o.pool = None
      /\ o.node = None
  <2>1. o \in Obj
    BY <1>0, NewPoolTyped DEF TypeOK, Kinds
  <2>2. o.kind = "pool" /\ o.dom = domain /\ o.pool = None /\ o.node = None
    BY PoolFields, Zenon
  <2>3. QED
    BY <2>1, <2>2
<1>4. ServerStepOK
  BY <1>1, <1>2, <1>3, CreatePlainServer
<1>5. LocalsStepOK
  <2>1. CASE out = "ok"
    <3> DEFINE l == [IdleLoc EXCEPT !.dom = domain, !.pool = nextId,
                                    !.todo = ms, !.lport = lp, !.opt = op]
    <3>1. l.dom = domain /\ l.pool = nextId
      BY DefaultRecordsTyped, Zenon DEF Loc
    <3>2. nextId \in Ids /\ nextId < nextId' /\ srv'[nextId].dom = domain
      BY <1>1, <1>2, <1>3, <2>1, CreatedAt DEF Applied
    <3>3. LocOK(srv', nextId', "cb_loop", l, created[c] \cup {nextId})
      BY <1>0, <3>1, <3>2 DEF LocOK
    <3>4. QED
      BY <1>0, <1>1, <2>1, <3>3, GotoLocals
  <2>2. CASE out # "ok"
    BY <1>0, <1>1, <2>2, RaiseLocals
  <2>3. QED
    BY <2>1, <2>2
<1>6. QED
  BY <1>4, <1>5, NoNewHandles, StepOK DEF CreateBalancerPool

LEMMA CreateBalancerNodeInv ==
    ASSUME IInv, TypeOK', NEW c \in Callers, CreateBalancerNode(c)
    PROVE  IInv'
<1>0. TypeOK /\ pc[c] = "cb_loop"
  BY DEF IInv, CreateBalancerNode
<1>1. PICK m \in loc[c].todo, out \in Answers(HasRoom) :
        /\ Create(out, [NoObj EXCEPT !.kind = "node", !.dom = loc[c].dom,
                                     !.ip = m.ip])
        /\ IF out = "ok"
           THEN Goto(c, "cb_add",
                     [loc[c] EXCEPT !.node = nextId, !.todo = @ \ {m}],
                     {nextId})
           ELSE Raise(c, NewIds(out))
  BY Zenon DEF CreateBalancerNode
<1>2. PICK o : o = [NoObj EXCEPT !.kind = "node", !.dom = loc[c].dom,
                                 !.ip = m.ip]
  OBVIOUS
<1>3. loc[c].dom \in Domains /\ m.ip \in Ips /\ "node" \in Kinds
  BY <1>0 DEF TypeOK, Loc, MemberInput, Kinds
<1>4. o \in Obj /\ o.kind = "node" /\ o.dom = loc[c].dom /\ o.pool = None
      /\ o.node = None
  <2>1. [NoObj EXCEPT !.kind = "node", !.dom = loc[c].dom, !.ip = m.ip] \in Obj
    BY <1>3, NewNodeTyped, Zenon
  <2>2. /\ [NoObj EXCEPT !.kind = "node", !.dom = loc[c].dom, !.ip = m.ip].kind = "node"
        /\ [NoObj EXCEPT !.kind = "node", !.dom = loc[c].dom, !.ip = m.ip].dom = loc[c].dom
        /\ [NoObj EXCEPT !.kind = "node", !.dom = loc[c].dom, !.ip = m.ip].pool = None
        /\ [NoObj EXCEPT !.kind = "node", !.dom = loc[c].dom, !.ip = m.ip].node = None
    BY NoObjFields, DefaultRecordsTyped, Zenon DEF Obj
  <2>3. QED
    BY <1>2, <2>1, <2>2, Zenon
<1>5. Create(out, o)
  BY <1>1, <1>2, Zenon
<1>6. Applied(out) => nextId \in Ids
  BY <1>0 DEF Answers, Applied, Lost, HasRoom, TypeOK, Ids
<1>7. ServerStepOK
  BY <1>4, <1>5, <1>6, CreatePlainServer
<1>8. LocalsStepOK
  <2>1. CASE out = "ok"
    <3>1. nextId \in Ids /\ nextId < nextId' /\ srv'[nextId].dom = loc[c].dom
      BY <1>4, <1>5, <1>6, <2>1, CreatedAt DEF Applied
    <3>2. LocOK(srv', nextId', "cb_loop", loc[c], created[c])
      BY <1>0, <1>7, OldLocOK
    <3>3. PICK l : l = [loc[c] EXCEPT !.node = nextId, !.todo = @ \ {m}]
      OBVIOUS
    <3>4. l.dom = loc[c].dom /\ l.pool = loc[c].pool
      BY <1>0, <3>3 DEF TypeOK, Loc
    <3>5. \A i \in created[c] \cup {nextId} :
              /\ i < nextId'
              /\ srv'[i].kind \in {"pool", "node"} => srv'[i].dom = loc[c].dom
      <4>1. \A i \in created[c] : srv[i].kind \in {"pool", "node"} => srv[i].dom = loc[c].dom
        BY DEF IInv, LocOK
      <4>2. {nextId} \in SUBSET Ids
        BY <3>1
      <4>3. \A i \in {nextId} :
                /\ i < nextId'
                /\ srv'[i].kind \in {"pool", "node"} => srv'[i].dom = loc[c].dom
        BY <3>1
      <4>4. QED
        BY <1>7, <4>1, <4>2, <4>3, CreatedGrows
    <3>6. LocOK(srv', nextId', "cb_add", l, created[c] \cup {nextId})
      BY <3>2, <3>4, <3>5 DEF LocOK
    <3>7. QED
      BY <1>0, <1>1, <2>1, <3>3, <3>6, GotoLocals
  <2>2. CASE out # "ok"
    BY <1>0, <1>1, <2>2, RaiseLocals
  <2>3. QED
    BY <2>1, <2>2
<1>9. QED
  BY <1>7, <1>8, NoNewHandles, StepOK DEF CreateBalancerNode

LEMMA AttachCreateNodeInv ==
    ASSUME IInv, TypeOK', NEW c \in Callers, AttachCreateNode(c)
    PROVE  IInv'
<1>0. TypeOK /\ created[c] = {}
  BY DEF IInv, LocOK, AttachCreateNode, Idle
<1>1. PICK b \in lbs, a \in Ips, out \in Answers(HasRoom) :
        /\ Create(out, [NoObj EXCEPT !.kind = "node", !.dom = b.dom, !.ip = a])
        /\ IF out = "ok"
           THEN Goto(c, "at_pool",
                     [IdleLoc EXCEPT !.dom = b.dom, !.pool = b.pool,
                                     !.node = nextId, !.ip = a],
                     {nextId})
           ELSE Raise(c, NewIds(out))
  BY Zenon DEF AttachCreateNode
<1>2. PICK o : o = [NoObj EXCEPT !.kind = "node", !.dom = b.dom, !.ip = a]
  OBVIOUS
<1>3. b.dom \in Domains /\ "node" \in Kinds
  BY <1>0 DEF TypeOK, Balancer, Kinds
<1>4. o \in Obj /\ o.kind = "node" /\ o.dom = b.dom /\ o.pool = None
      /\ o.node = None
  <2>1. [NoObj EXCEPT !.kind = "node", !.dom = b.dom, !.ip = a] \in Obj
    BY <1>3, NewNodeTyped, Zenon
  <2>2. /\ [NoObj EXCEPT !.kind = "node", !.dom = b.dom, !.ip = a].kind = "node"
        /\ [NoObj EXCEPT !.kind = "node", !.dom = b.dom, !.ip = a].dom = b.dom
        /\ [NoObj EXCEPT !.kind = "node", !.dom = b.dom, !.ip = a].pool = None
        /\ [NoObj EXCEPT !.kind = "node", !.dom = b.dom, !.ip = a].node = None
    BY NoObjFields, DefaultRecordsTyped, Zenon DEF Obj
  <2>3. QED
    BY <1>2, <2>1, <2>2, Zenon
<1>5. Create(out, o)
  BY <1>1, <1>2, Zenon
<1>6. Applied(out) => nextId \in Ids
  BY <1>0 DEF Answers, Applied, Lost, HasRoom, TypeOK, Ids
<1>7. ServerStepOK
  BY <1>4, <1>5, <1>6, CreatePlainServer
<1>8. LocalsStepOK
  <2>1. CASE out = "ok"
    <3>1. nextId \in Ids /\ nextId < nextId' /\ srv'[nextId].dom = b.dom
      BY <1>4, <1>5, <1>6, <2>1, CreatedAt DEF Applied
    <3>2. BalOK(srv', nextId', b)
      BY <1>7, OldBalOK
    <3>3. PICK l : l = [IdleLoc EXCEPT !.dom = b.dom, !.pool = b.pool,
                                       !.node = nextId, !.ip = a]
      OBVIOUS
    <3>4. l.dom = b.dom /\ l.pool = b.pool
      BY <3>3, DefaultRecordsTyped, Zenon DEF Loc
    <3>5. LocOK(srv', nextId', "at_pool", l, created[c] \cup {nextId})
      BY <1>0, <3>1, <3>2, <3>4 DEF LocOK, BalOK
    <3>6. QED
      BY <1>0, <1>1, <2>1, <3>3, <3>5, GotoLocals
  <2>2. CASE out # "ok"
    BY <1>0, <1>1, <2>2, RaiseLocals
  <2>3. QED
    BY <2>1, <2>2
<1>9. QED
  BY <1>7, <1>8, NoNewHandles, StepOK DEF AttachCreateNode

\* The server's side of addPoolMember(p, n): the member it may store joins
\* an issued node and an issued pool.
LEMMA MemberServer ==
    ASSUME IInv, NEW out, NEW p \in Ids0, NEW n \in Ids0,
           Applied(out) => HasRoom /\ IsA(p, "pool") /\ IsA(n, "node"),
           Create(out, [NoObj EXCEPT !.kind = "member", !.dom = srv[p].dom,
                                     !.pool = p, !.node = n, !.ip = srv[n].ip])
    PROVE  /\ ServerStepOK
           /\ Applied(out) => /\ nextId \in Ids
                              /\ nextId' = nextId + 1
                              /\ srv'[nextId].kind = "member"
<1>0. TypeOK
  BY DEF IInv
<1>1. PICK o : o = [NoObj EXCEPT !.kind = "member", !.dom = srv[p].dom,
                                 !.pool = p, !.node = n, !.ip = srv[n].ip]
  OBVIOUS
<1>2. o.kind = "member" /\ o.dom = srv[p].dom /\ o.pool = p /\ o.node = n
  <2>1. LET r == [NoObj EXCEPT !.kind = "member", !.dom = srv[p].dom,
                               !.pool = p, !.node = n, !.ip = srv[n].ip]
        IN  r.kind = "member" /\ r.dom = srv[p].dom /\ r.pool = p /\ r.node = n
    BY MemberFields
  <2>2. QED
    BY <1>1, <2>1, Zenon
<1>3. Create(out, o)
  BY <1>1, Zenon
<1>4. ASSUME Applied(out)
      PROVE  /\ nextId \in Ids
             /\ o \in Obj
             /\ ObjOK([srv EXCEPT ![nextId] = o], nextId + 1, nextId)
  <2>1. HasRoom /\ IsA(p, "pool") /\ IsA(n, "node")
    BY <1>4
  <2>2. nextId \in Ids /\ p \in Ids /\ n \in Ids
    BY <1>0, <2>1 DEF HasRoom, TypeOK, Ids, IsA
  <2>3. p < nextId /\ n < nextId
    BY <2>1, <2>2, LiveIssued DEF IsA
  <2>4. "member" \in Kinds /\ srv[p].dom \in Domains /\ srv[n].ip \in Ips
    BY <1>0, <2>2 DEF TypeOK, Obj, Kinds
  <2>5. o \in Obj
    <3>1. [NoObj EXCEPT !.kind = "member", !.dom = srv[p].dom, !.pool = p,
                        !.node = n, !.ip = srv[n].ip] \in Obj
      BY <2>4, NewMemberTyped, Zenon
    <3>2. QED
      BY <1>1, <3>1, Zenon
  <2>6. o.node \in Ids /\ srv[o.node].kind \in {"node", "none"}
    BY <1>2, <2>1, <2>2 DEF IsA
  <2>7. QED
    BY <1>0, <1>2, <2>2, <2>3, <2>5, <2>6, NewObjOK
<1>5. ServerStepOK
  BY <1>3, <1>4, CreateServer
<1>6. ASSUME Applied(out)
      PROVE  /\ nextId \in Ids
             /\ nextId' = nextId + 1
             /\ srv'[nextId].kind = "member"
  <2>1. srv' = [srv EXCEPT ![nextId] = o] /\ nextId' = nextId + 1
    BY <1>3, <1>6 DEF Create
  <2>2. QED
    BY <1>0, <1>2, <1>4, <1>6, <2>1 DEF TypeOK
<1>7. QED
  BY <1>5, <1>6

\* ex_create_pool_member inside create_balancer's loop, continuing with
\* locals l of the call's domain.
LEMMA AddPoolMemberInv ==
    ASSUME IInv, TypeOK', NEW c \in Callers, NEW p \in Ids0, NEW n \in Ids0,
           NEW l, AddPoolMember(c, p, n, l), UNCHANGED <<lbs, mems, pms>>,
           l \in Loc, LocOK(srv, nextId, "cb_loop", l, created[c])
    PROVE  IInv'
<1>0. TypeOK
  BY DEF IInv
<1>1. PICK out \in Answers(HasRoom /\ IsA(p, "pool") /\ IsA(n, "node")) :
        /\ Create(out, [NoObj EXCEPT !.kind = "member", !.dom = srv[p].dom,
                                     !.pool = p, !.node = n, !.ip = srv[n].ip])
        /\ IF out = "ok" THEN Goto(c, "cb_loop", l, {nextId})
                         ELSE Raise(c, NewIds(out))
  BY Zenon DEF AddPoolMember
<1>2. Applied(out) => HasRoom /\ IsA(p, "pool") /\ IsA(n, "node")
  BY <1>1 DEF Answers, Applied, Lost
<1>3. /\ ServerStepOK
      /\ Applied(out) => /\ nextId \in Ids
                         /\ nextId' = nextId + 1
                         /\ srv'[nextId].kind = "member"
  BY <1>1, <1>2, MemberServer
<1>4. LocalsStepOK
  <2>1. CASE out = "ok"
    <3>1. LocOK(srv', nextId', "cb_loop", l, created[c])
      BY <1>3, LocStable DEF IInv, TypeOK, ServerStepOK
    <3>2. nextId < nextId' /\ srv'[nextId].kind = "member"
      BY <1>3, <2>1 DEF Applied, Ids
    <3>3. LocOK(srv', nextId', "cb_loop", l, created[c] \cup {nextId})
      BY <3>1, <3>2 DEF LocOK
    <3>4. QED
      BY <1>0, <1>1, <2>1, <3>3, GotoLocals
  <2>2. CASE out # "ok"
    BY <1>0, <1>1, <2>2, RaiseLocals
  <2>3. QED
    BY <2>1, <2>2
<1>5. QED
  BY <1>3, <1>4, NoNewHandles, StepOK

LEMMA CreateBalancerMemberInv ==
    ASSUME IInv, TypeOK', NEW c \in Callers, CreateBalancerMember(c)
    PROVE  IInv'
<1>0. /\ TypeOK /\ loc[c] \in Loc
      /\ LocOK(srv, nextId, pc[c], loc[c], created[c])
  BY DEF IInv, TypeOK
<1>1. UNCHANGED <<lbs, mems, pms>>
  BY DEF CreateBalancerMember
<1>2. CASE /\ pc[c] = "cb_add"
           /\ AddPoolMember(c, loc[c].pool, loc[c].node,
                            [loc[c] EXCEPT !.node = None])
  <2>1. PICK l : l = [loc[c] EXCEPT !.node = None]
    OBVIOUS
  <2>2. l \in Loc /\ l.dom = loc[c].dom /\ l.pool = loc[c].pool
    <3>1. None \in Ids0
      BY MaxIdType DEF None
    <3>2. QED
      BY <1>0, <2>1, <3>1, Zenon DEF Loc
  <2>3. LocOK(srv, nextId, "cb_loop", l, created[c])
    BY <1>0, <1>2, <2>2 DEF LocOK
  <2>4. loc[c].pool \in Ids0 /\ loc[c].node \in Ids0
    BY <1>0 DEF Loc
  <2>5. QED
    BY <1>1, <1>2, <2>1, <2>2, <2>3, <2>4, AddPoolMemberInv
<1>3. CASE /\ pc[c] = "cb_loop"
           /\ \E m \in loc[c].todo :
                 /\ m.kind = "member"
                 /\ AddPoolMember(c, loc[c].pool, m.id,
                                  [loc[c] EXCEPT !.todo = @ \ {m}])
  <2>1. PICK m \in loc[c].todo :
          AddPoolMember(c, loc[c].pool, m.id, [loc[c] EXCEPT !.todo = @ \ {m}])
    BY <1>3
  <2>2. PICK l : l = [loc[c] EXCEPT !.todo = @ \ {m}]
    OBVIOUS
  <2>3. l \in Loc /\ l.dom = loc[c].dom /\ l.pool = loc[c].pool
    BY <1>0, <2>2 DEF Loc
  <2>4. LocOK(srv, nextId, "cb_loop", l, created[c])
    BY <1>0, <1>3, <2>3 DEF LocOK
  <2>5. loc[c].pool \in Ids0 /\ m.id \in Ids0
    BY <1>0 DEF Loc, MemberInput
  <2>6. QED
    BY <1>1, <2>1, <2>2, <2>3, <2>4, <2>5, AddPoolMemberInv
<1>4. QED
  BY <1>2, <1>3 DEF CreateBalancerMember

LEMMA CreateBalancerListenerInv ==
    ASSUME IInv, TypeOK', NEW c \in Callers, CreateBalancerListener(c)
    PROVE  IInv'
<1>0. /\ TypeOK
      /\ pc[c] = "cb_loop"
      /\ LocOK(srv, nextId, "cb_loop", loc[c], created[c])
      /\ loc[c] \in Loc
  BY DEF IInv, TypeOK, CreateBalancerListener
<1>1. UNCHANGED <<mems, pms>>
  BY DEF CreateBalancerListener
<1>2. CASE /\ ListenerType(loc[c].lport) = "STANDARD"
           /\ loc[c].opt = "NONE"
           /\ Raise(c, {})
           /\ UNCHANGED <<srv, nextId, faults, lbs>>
  \* The ValueError before any request.
  <2>1. ServerStepOK
    BY <1>2, SameServer
  <2>2. LocalsStepOK
    BY <1>0, <1>2, RaiseLocals
  <2>3. QED
    BY <1>1, <1>2, <2>1, <2>2, NoNewHandles, StepOK
<1>3. CASE \E out \in Answers(HasRoom /\ IsA(loc[c].pool, "pool")) :
              /\ Create(out, [NoObj EXCEPT !.kind = "listener",
                                  !.dom = loc[c].dom, !.pool = loc[c].pool])
              /\ CountFault(out)
              /\ IF out = "ok"
                 THEN /\ lbs' = lbs \cup {[id |-> nextId, pool |-> loc[c].pool,
                                           dom |-> loc[c].dom]}
                      /\ Return(c)
                 ELSE /\ Raise(c, NewIds(out))
                      /\ UNCHANGED lbs
  <2>1. PICK out \in Answers(HasRoom /\ IsA(loc[c].pool, "pool")) :
              /\ Create(out, [NoObj EXCEPT !.kind = "listener",
                                  !.dom = loc[c].dom, !.pool = loc[c].pool])
              /\ IF out = "ok"
                 THEN /\ lbs' = lbs \cup {[id |-> nextId, pool |-> loc[c].pool,
                                           dom |-> loc[c].dom]}
                      /\ Return(c)
                 ELSE /\ Raise(c, NewIds(out))
                      /\ UNCHANGED lbs
    BY <1>3, Zenon
  <2>2. PICK o : o = [NoObj EXCEPT !.kind = "listener", !.dom = loc[c].dom,
                                   !.pool = loc[c].pool]
    OBVIOUS
  <2>3. /\ o.kind = "listener" /\ o.dom = loc[c].dom
        /\ o.pool = loc[c].pool /\ o.node = None
    <3>1. LET r == [NoObj EXCEPT !.kind = "listener", !.dom = loc[c].dom,
                                 !.pool = loc[c].pool]
          IN  /\ r.kind = "listener" /\ r.dom = loc[c].dom
              /\ r.pool = loc[c].pool /\ r.node = None
      BY ListenerFields
    <3>2. QED
      BY <2>2, <3>1, Zenon
  <2>4. Create(out, o)
    BY <2>1, <2>2, Zenon
  <2>5. Applied(out) => nextId \in Ids
    BY <1>0, <2>1 DEF Answers, Applied, Lost, HasRoom, TypeOK, Ids
  <2>6. /\ loc[c].pool \in Ids
        /\ loc[c].pool < nextId
    BY <1>0 DEF LocOK
  <2>7. o \in Obj
    <3>1. "listener" \in Kinds /\ loc[c].dom \in Domains /\ loc[c].pool \in Ids0
      BY <1>0 DEF Loc, Kinds
    <3>2. [NoObj EXCEPT !.kind = "listener", !.dom = loc[c].dom,
                        !.pool = loc[c].pool] \in Obj
      BY <3>1, NewListenerTyped, Zenon
    <3>3. QED
      BY <2>2, <3>2, Zenon
  <2>8. ServerStepOK
    <3>1. ASSUME Applied(out)
          PROVE  ObjOK([srv EXCEPT ![nextId] = o], nextId + 1, nextId)
      <4>1. nextId \in Ids /\ o.pool < nextId /\ o.node < nextId
        BY <2>3, <2>5, <2>6, <3>1 DEF None, Ids
      <4>2. o.kind = "member" => /\ o.node \in Ids
                                 /\ srv[o.node].kind \in {"node", "none"}
        BY <2>3
      <4>3. QED
        BY <1>0, <2>7, <4>1, <4>2, NewObjOK
    <3>2. QED
      BY <2>4, <2>5, <2>7, <3>1, CreateServer
  <2>9. CASE out = "ok"
    <3>1. srv' = [srv EXCEPT ![nextId] = o] /\ nextId' = nextId + 1
          /\ nextId \in Ids
      BY <2>4, <2>5, <2>9 DEF Create, Applied
    <3>2. srv'[nextId] = o /\ srv'[loc[c].pool] = srv[loc[c].pool]
      BY <1>0, <2>6, <3>1 DEF TypeOK
    <3>3. BalOK(srv', nextId', [id |-> nextId, pool |-> loc[c].pool,
                                dom |-> loc[c].dom])
      BY <2>3, <2>6, <3>1, <3>2 DEF BalOK, Ids
    <3>4. HandlesStepOK
      BY <1>1, <2>1, <2>9, <3>3 DEF HandlesStepOK
    <3>5. LocalsStepOK
      BY <1>0, <2>1, <2>9, ReturnLocals
    <3>6. QED
      BY <2>8, <3>4, <3>5, StepOK
  <2>10. CASE out # "ok"
    <3>1. HandlesStepOK
      BY <1>1, <2>1, <2>10 DEF HandlesStepOK
    <3>2. LocalsStepOK
      BY <1>0, <2>1, <2>10, RaiseLocals
    <3>3. QED
      BY <2>8, <3>1, <3>2, StepOK
  <2>11. QED
    BY <2>9, <2>10
<1>4. QED
  BY <1>2, <1>3 DEF CreateBalancerListener

LEMMA AttachAddMemberInv ==
    ASSUME IInv, TypeOK', NEW c \in Callers, AttachAddMember(c)
    PROVE  IInv'
<1>0. /\ TypeOK
      /\ pc[c] = "at_add"
      /\ LocOK(srv, nextId, "at_add", loc[c], created[c])
      /\ loc[c] \in Loc
  BY DEF IInv, TypeOK, AttachAddMember
<1>1. UNCHANGED <<lbs, pms>>
  BY DEF AttachAddMember
<1> DEFINE p == loc[c].pool
           n == loc[c].node
<1>2. PICK out \in Answers(HasRoom /\ IsA(p, "pool") /\ IsA(n, "node")) :
           /\ Create(out, [NoObj EXCEPT !.kind = "member", !.dom = srv[p].dom,
                                        !.pool = p, !.node = n,
                                        !.ip = srv[n].ip])
           /\ IF out = "ok"
              THEN /\ mems' = mems \cup {[id |-> nextId, ip |-> loc[c].ip]}
                   /\ Return(c)
              ELSE /\ Raise(c, NewIds(out))
                   /\ UNCHANGED mems
  BY Zenon DEF AttachAddMember
<1>3. p \in Ids0 /\ n \in Ids0
  BY <1>0 DEF Loc
<1>4. Applied(out) => HasRoom /\ IsA(p, "pool") /\ IsA(n, "node")
  BY <1>2 DEF Answers, Applied, Lost
<1>5. /\ ServerStepOK
      /\ Applied(out) => /\ nextId \in Ids
                         /\ nextId' = nextId + 1
                         /\ srv'[nextId].kind = "member"
  BY <1>2, <1>3, <1>4, MemberServer
<1>6. CASE out = "ok"
  <2>1. MemOK(srv', nextId', [id |-> nextId, ip |-> loc[c].ip])
    BY <1>5, <1>6 DEF MemOK, Applied, Ids
  <2>2. HandlesStepOK
    BY <1>1, <1>2, <1>6, <2>1 DEF HandlesStepOK
  <2>3. LocalsStepOK
    BY <1>0, <1>2, <1>6, ReturnLocals
  <2>4. QED
    BY <1>5, <2>2, <2>3, StepOK
<1>7. CASE out # "ok"
  <2>1. HandlesStepOK
    BY <1>1, <1>2, <1>7 DEF HandlesStepOK
  <2>2. LocalsStepOK
    BY <1>0, <1>2, <1>7, RaiseLocals
  <2>3. QED
    BY <1>5, <2>1, <2>2, StepOK
<1>8. QED
  BY <1>6, <1>7

-----------------------------------------------------------------------------
(***************************************************************************)
(* IInv is inductive, and the invariants follow.                           *)
(***************************************************************************)
LEMMA InitIInv == Init => IInv
<1> SUFFICES ASSUME Init PROVE IInv
  OBVIOUS
<1>1. TypeOK
  BY DefaultRecordsTyped DEF Init, TypeOK, Ids, PCs
<1>2. \A i \in Ids : ObjOK(srv, nextId, i)
  BY NoObjFields DEF Init, ObjOK, NoObj, None, Ids
<1>3. \A c \in Callers : LocOK(srv, nextId, pc[c], loc[c], created[c])
  BY DEF Init, LocOK
<1>4. QED
  BY <1>1, <1>2, <1>3 DEF Init, IInv

\* Every step of the driver and the server keeps IInv.
LEMMA IInvStep == IInv /\ [Next]_vars => IInv'
<1> SUFFICES ASSUME IInv, [Next]_vars PROVE IInv'
  OBVIOUS
<1>1. TypeOK'
  BY TypeOKStep DEF IInv
<1>2. CASE UNCHANGED vars
  BY <1>2 DEF vars, IInv, TypeOK, ObjOK, BalOK, MemOK, PmOK, LocOK
<1>3. ASSUME NEW c \in Callers,
             \/ ExSetCurrentNetworkDomain(c)
             \/ CreateBalancerPool(c)
             \/ CreateBalancerNode(c)
             \/ CreateBalancerMember(c)
             \/ CreateBalancerListener(c)
             \/ AttachCreateNode(c)
             \/ AttachGetPool(c)
             \/ AttachAddMember(c)
             \/ BalancerDetachMember(c)
             \/ DestroyBalancer(c)
             \/ ExDestroyPool(c)
             \/ ExDestroyNode(c)
             \/ ExDestroyPoolMember(c)
             \/ ExDestroyPoolMemberNode(c)
             \/ ExSetNodeState(c)
             \/ ListBalancers(c)
             \/ BalancerListMembers(c)
             \/ ExGetPoolMembers(c)
             \/ ExGetPoolMember(c)
             \/ ExUpdateListener(c)
             \/ ExUpdatePool(c)
             \/ ExUpdateNode(c)
             \/ ExSetPoolMemberState(c)
      PROVE  IInv'
  BY <1>1, <1>3, ExSetCurrentNetworkDomainInv, CreateBalancerPoolInv,
     CreateBalancerNodeInv, CreateBalancerMemberInv, CreateBalancerListenerInv,
     AttachCreateNodeInv, AttachGetPoolInv, AttachAddMemberInv,
     BalancerDetachMemberInv, DestroyBalancerInv, ExDestroyPoolInv,
     ExDestroyNodeInv, ExDestroyPoolMemberInv, ExDestroyPoolMemberNodeInv,
     ExSetNodeStateInv, ListBalancersInv, BalancerListMembersInv,
     ExGetPoolMembersInv, ExGetPoolMemberInv, ExUpdateListenerInv,
     ExUpdatePoolInv, ExUpdateNodeInv, ExSetPoolMemberStateInv
<1>4. QED
  BY <1>2, <1>3 DEF Next

\* IInv holds in every reachable state.
LEMMA IInvInvariant == Spec => []IInv
BY InitIInv, IInvStep, PTL DEF Spec

\* Every pool and node a create_balancer or balancer_attach_member call has
\* created so far lies in the network domain the call read at its start,
\* whatever ex_set_current_network_domain does while the call runs.
THEOREM CallDomainConsistentInvariant == Spec => []CallDomainConsistent
<1>1. IInv => CallDomainConsistent
  BY DEF IInv, LocOK, CallDomainConsistent
<1>2. QED
  BY <1>1, IInvInvariant, PTL

\* A LoadBalancer handle, from create_balancer or list_balancers, carries
\* the network domain of its listener as long as the listener exists, even
\* after ex_update_listener repoints it.
THEOREM BalancerHandlesAccurateInvariant == Spec => []BalancerHandlesAccurate
<1>1. IInv => BalancerHandlesAccurate
  BY DEF IInv, BalOK, BalancerHandlesAccurate, IsA
<1>2. QED
  BY <1>1, IInvInvariant, PTL

\* Member and NttCisPoolMember ids name pool members (or deleted objects),
\* never nodes or pools, and a NttCisPoolMember's node_id names a node.
THEOREM HandleIdsKindCorrectInvariant == Spec => []HandleIdsKindCorrect
<1>1. IInv => HandleIdsKindCorrect
  BY DEF IInv, MemOK, PmOK, HandleIdsKindCorrect
<1>2. QED
  BY <1>1, IInvInvariant, PTL

=============================================================================
