--------------------------- MODULE NttCisLB_proofs ---------------------------
(***************************************************************************)
(* Proofs about NttCisLB for every value of the constants.                *)
(***************************************************************************)
EXTENDS NttCisLB, TLAPS

USE ConstantsAssumption

-----------------------------------------------------------------------------
(***************************************************************************)
(* Lemmas about the helpers the actions are built from.                   *)
(***************************************************************************)

LEMMA MaxIdType == 0 \in Ids0
BY DEF Ids0

LEMMA DefaultsTyped == DefaultDom \in Domains /\ DefaultIp \in Ips
BY DEF DefaultDom, DefaultIp

LEMMA DefaultRecordsTyped == NoObj \in Obj /\ IdleLoc \in Loc
BY DefaultsTyped DEF NoObj, Obj, IdleLoc, Loc, None, Ids0, Kinds,
                     ListenerPorts, OptProfiles

\* A creation the server only applies when it has room keeps the server
\* typed and uses an id of Ids.
LEMMA CreateTyped ==
    ASSUME TypeOK, NEW out, NEW o,
           Applied(out) => HasRoom,
           Applied(out) => o \in Obj,
           Create(out, o)
    PROVE  /\ srv' \in [Ids -> Obj]
           /\ nextId' \in 1..(MaxId + 1)
           /\ NewIds(out) \subseteq Ids
           /\ Applied(out) => nextId \in Ids
<1>1. Applied(out) => nextId \in Ids
  BY DEF HasRoom, TypeOK, Ids
<1>2. srv' \in [Ids -> Obj]
  BY <1>1 DEF Create, TypeOK
<1>3. nextId' \in 1..(MaxId + 1)
  BY <1>1 DEF Create, TypeOK, Ids
<1>4. QED
  BY <1>1, <1>2, <1>3 DEF NewIds

\* Updating a function outside its domain leaves it as it is.
LEMMA ExceptOutsideDomain ==
    ASSUME NEW S, NEW T, NEW f \in [S -> T], NEW i, i \notin S, NEW v
    PROVE  [f EXCEPT ![i] = v] = f
OBVIOUS

LEMMA DeleteTyped ==
    ASSUME TypeOK, NEW out, NEW i, Delete(out, i)
    PROVE  srv' \in [Ids -> Obj]
<1>1. CASE i \in Ids
  <2>1. [srv[i] EXCEPT !.kind = "none"] \in Obj
    BY <1>1 DEF TypeOK, Obj, Kinds
  <2>2. QED
    BY <1>1, <2>1 DEF Delete, TypeOK
<1>2. CASE i \notin Ids
  <2>1. [srv EXCEPT ![i] = [srv[i] EXCEPT !.kind = "none"]] = srv
    BY <1>2, ExceptOutsideDomain DEF TypeOK
  <2>2. srv' = srv
    BY <2>1, Zenon DEF Delete
  <2>3. QED
    BY <2>2 DEF TypeOK
<1>3. QED
  BY <1>1, <1>2

\* The objects the actions ask the server to create are typed: a pool, a
\* node, a listener and a pool member.
LEMMA NewPoolTyped ==
    ASSUME NEW k \in Kinds, NEW d \in Domains
    PROVE  [NoObj EXCEPT !.kind = k, !.dom = d] \in Obj
BY DefaultRecordsTyped, Zenon DEF Obj

LEMMA NewNodeTyped ==
    ASSUME NEW k \in Kinds, NEW d \in Domains, NEW a \in Ips
    PROVE  [NoObj EXCEPT !.kind = k, !.dom = d, !.ip = a] \in Obj
BY NewPoolTyped, Zenon DEF Obj

LEMMA NewListenerTyped ==
    ASSUME NEW k \in Kinds, NEW d \in Domains, NEW p \in Ids0
    PROVE  [NoObj EXCEPT !.kind = k, !.dom = d, !.pool = p] \in Obj
BY NewPoolTyped, Zenon DEF Obj

LEMMA NewMemberTyped ==
    ASSUME NEW k \in Kinds, NEW d \in Domains, NEW p \in Ids0, NEW n \in Ids0,
           NEW a \in Ips
    PROVE  [NoObj EXCEPT !.kind = k, !.dom = d, !.pool = p, !.node = n,
                         !.ip = a] \in Obj
BY NewListenerTyped, Zenon DEF Obj

\* The member inputs create_balancer can be given are typed.
LEMMA MemberInputsTyped == MemberInputs \subseteq MemberInput
BY DEF MemberInputs, MemberInput, None, Ids0

\* The three ways a call moves on keep the per-caller variables typed.
LEMMA ReturnTyped ==
    ASSUME TypeOK, NEW c \in Callers, Return(c)
    PROVE  /\ pc' \in [Callers -> PCs]
           /\ loc' \in [Callers -> Loc]
           /\ created' \in [Callers -> SUBSET Ids]
           /\ orphans' \subseteq Ids
BY DefaultRecordsTyped DEF Return, TypeOK, PCs

LEMMA RaiseTyped ==
    ASSUME TypeOK, NEW c \in Callers, NEW new \in SUBSET Ids, Raise(c, new)
    PROVE  /\ pc' \in [Callers -> PCs]
           /\ loc' \in [Callers -> Loc]
           /\ created' \in [Callers -> SUBSET Ids]
           /\ orphans' \subseteq Ids
BY DefaultRecordsTyped DEF Raise, TypeOK, PCs

LEMMA GotoTyped ==
    ASSUME TypeOK, NEW c \in Callers, NEW p \in PCs, NEW l \in Loc,
           NEW new \in SUBSET Ids, Goto(c, p, l, new)
    PROVE  /\ pc' \in [Callers -> PCs]
           /\ loc' \in [Callers -> Loc]
           /\ created' \in [Callers -> SUBSET Ids]
           /\ orphans' \subseteq Ids
BY DEF Goto, TypeOK

\* A removal request keeps the server, the fault count and the callers
\* typed, whichever object it names and whatever decides its acceptance.
LEMMA RemoveReqTyped ==
    ASSUME TypeOK, NEW c \in Callers, NEW i, NEW ok, RemoveReq(c, i, ok)
    PROVE  /\ srv' \in [Ids -> Obj]
           /\ faults' \in 0..MaxFaults
           /\ pc' \in [Callers -> PCs]
           /\ loc' \in [Callers -> Loc]
           /\ created' \in [Callers -> SUBSET Ids]
           /\ orphans' \subseteq Ids
<1>1. PICK out \in Answers(ok) :
        /\ Delete(out, i)
        /\ CountFault(out)
        /\ IF out = "ok" THEN Return(c) ELSE Raise(c, {})
  BY Zenon DEF RemoveReq
<1>2. srv' \in [Ids -> Obj]
  BY <1>1, DeleteTyped
<1>3. faults' \in 0..MaxFaults
  BY <1>1 DEF CountFault, Answers, Lost, TypeOK
<1>4. /\ pc' \in [Callers -> PCs]
      /\ loc' \in [Callers -> Loc]
      /\ created' \in [Callers -> SUBSET Ids]
      /\ orphans' \subseteq Ids
  <2>1. CASE out = "ok"
    <3>1. Return(c)
      BY <1>1, <2>1
    <3>2. QED
      BY <3>1, ReturnTyped
  <2>2. CASE out # "ok"
    <3>1. Raise(c, {})
      BY <1>1, <2>2
    <3>2. QED
      BY <3>1, RaiseTyped
  <2>3. QED
    BY <2>1, <2>2
<1>5. QED
  BY <1>2, <1>3, <1>4

\* An edit request keeps the fault count and the callers typed.
LEMMA EditReqTyped ==
    ASSUME TypeOK, NEW c \in Callers, NEW ok, EditReq(c, ok)
    PROVE  /\ faults' \in 0..MaxFaults
           /\ pc' \in [Callers -> PCs]
           /\ loc' \in [Callers -> Loc]
           /\ created' \in [Callers -> SUBSET Ids]
           /\ orphans' \subseteq Ids
<1>1. PICK out \in Answers(ok) :
        /\ CountFault(out)
        /\ IF out = "ok" THEN Return(c) ELSE Raise(c, {})
  BY Zenon DEF EditReq
<1>2. faults' \in 0..MaxFaults
  BY <1>1 DEF CountFault, Answers, Lost, TypeOK
<1>3. CASE out = "ok"
  BY <1>1, <1>2, <1>3, ReturnTyped
<1>4. CASE out # "ok"
  BY <1>1, <1>2, <1>4, RaiseTyped
<1>5. QED
  BY <1>3, <1>4

\* ex_create_pool_member inside create_balancer's loop keeps the state
\* typed, for any pool and node ids it is given.
LEMMA AddPoolMemberTyped ==
    ASSUME TypeOK, NEW c \in Callers, NEW p \in Ids0, NEW n \in Ids0,
           NEW l \in Loc, AddPoolMember(c, p, n, l)
    PROVE  /\ srv' \in [Ids -> Obj]
           /\ nextId' \in 1..(MaxId + 1)
           /\ faults' \in 0..MaxFaults
           /\ pc' \in [Callers -> PCs]
           /\ loc' \in [Callers -> Loc]
           /\ created' \in [Callers -> SUBSET Ids]
           /\ orphans' \subseteq Ids
<1>1. PICK out \in Answers(HasRoom /\ IsA(p, "pool") /\ IsA(n, "node")) :
        /\ Create(out, [NoObj EXCEPT !.kind = "member", !.dom = srv[p].dom,
                                     !.pool = p, !.node = n, !.ip = srv[n].ip])
        /\ CountFault(out)
        /\ IF out = "ok" THEN Goto(c, "cb_loop", l, {nextId})
                         ELSE Raise(c, NewIds(out))
  BY Zenon DEF AddPoolMember
<1>2. Applied(out) => HasRoom /\ p \in Ids /\ n \in Ids
  BY <1>1 DEF Answers, Applied, Lost, IsA
<1>3. Applied(out) =>
        [NoObj EXCEPT !.kind = "member", !.dom = srv[p].dom, !.pool = p,
                      !.node = n, !.ip = srv[n].ip] \in Obj
  <2> SUFFICES ASSUME Applied(out)
               PROVE  [NoObj EXCEPT !.kind = "member", !.dom = srv[p].dom,
                                    !.pool = p, !.node = n,
                                    !.ip = srv[n].ip] \in Obj
    OBVIOUS
  <2>1. "member" \in Kinds /\ srv[p].dom \in Domains /\ srv[n].ip \in Ips
    BY <1>2 DEF Kinds, TypeOK, Obj
  <2>2. QED
    BY <2>1, NewMemberTyped, Zenon
<1>4. /\ srv' \in [Ids -> Obj]
      /\ nextId' \in 1..(MaxId + 1)
      /\ NewIds(out) \subseteq Ids
      /\ Applied(out) => nextId \in Ids
  <2>1. Applied(out) => HasRoom
    BY <1>2
  <2>2. QED
    BY <1>1, <1>3, <2>1, CreateTyped
<1>5. faults' \in 0..MaxFaults
  BY <1>1 DEF CountFault, Answers, Lost, TypeOK
<1>7. /\ pc' \in [Callers -> PCs]
      /\ loc' \in [Callers -> Loc]
      /\ created' \in [Callers -> SUBSET Ids]
      /\ orphans' \subseteq Ids
  <2>1. CASE out = "ok"
    <3>1. Goto(c, "cb_loop", l, {nextId}) /\ nextId \in Ids
      BY <1>1, <1>4, <2>1 DEF Applied
    <3>2. QED
      BY <3>1, GotoTyped DEF PCs
  <2>2. CASE out # "ok"
    <3>1. Raise(c, NewIds(out))
      BY <1>1, <2>2
    <3>2. QED
      BY <1>4, <3>1, RaiseTyped
  <2>3. QED
    BY <2>1, <2>2
<1>8. QED
  BY <1>4, <1>5, <1>7

-----------------------------------------------------------------------------
(***************************************************************************)
(* Type correctness.                                                       *)
(***************************************************************************)
\* Every step of the driver and the server keeps the state typed.
LEMMA TypeOKStep == TypeOK /\ [Next]_vars => TypeOK'
<1> SUFFICES ASSUME TypeOK, [Next]_vars PROVE TypeOK'
  OBVIOUS
<1>1. CASE UNCHANGED vars
  BY <1>1 DEF vars, TypeOK
<1>2. ASSUME NEW c \in Callers, ExSetCurrentNetworkDomain(c) PROVE TypeOK'
  BY <1>2 DEF ExSetCurrentNetworkDomain, TypeOK
<1>3. ASSUME NEW c \in Callers, CreateBalancerPool(c) PROVE TypeOK'
  <2>1. PICK ms \in {S \in SUBSET MemberInputs : Cardinality(S) <= MaxMembers},
             lp \in ListenerPorts, op \in OptProfiles, out \in Answers(HasRoom) :
          /\ Create(out, [NoObj EXCEPT !.kind = "pool", !.dom = domain])
          /\ CountFault(out)
          /\ IF out = "ok"
             THEN Goto(c, "cb_loop",
                       [IdleLoc EXCEPT !.dom = domain, !.pool = nextId,
                                       !.todo = ms, !.lport = lp, !.opt = op],
                       {nextId})
             ELSE Raise(c, NewIds(out))
    BY <1>3, Zenon DEF CreateBalancerPool
  <2>2. Applied(out) => HasRoom
    BY <2>1 DEF Answers, Applied, Lost
  <2>3. [NoObj EXCEPT !.kind = "pool", !.dom = domain] \in Obj
    <3>1. "pool" \in Kinds /\ domain \in Domains
      BY DEF Kinds, TypeOK
    <3>2. QED
      BY <3>1, NewPoolTyped, Zenon
  <2>4. /\ srv' \in [Ids -> Obj]
        /\ nextId' \in 1..(MaxId + 1)
        /\ NewIds(out) \subseteq Ids
        /\ Applied(out) => nextId \in Ids
    BY <2>1, <2>2, <2>3, CreateTyped
  <2>5. faults' \in 0..MaxFaults
    BY <2>1 DEF CountFault, Answers, Lost, TypeOK
  <2>6. /\ pc' \in [Callers -> PCs]
        /\ loc' \in [Callers -> Loc]
        /\ created' \in [Callers -> SUBSET Ids]
        /\ orphans' \subseteq Ids
    <3>1. CASE out = "ok"
      <4>1. nextId \in Ids
        BY <2>4, <3>1 DEF Applied
      <4>2. [IdleLoc EXCEPT !.dom = domain, !.pool = nextId,
                            !.todo = ms, !.lport = lp, !.opt = op] \in Loc
        <5>1. ms \subseteq MemberInput
          BY MemberInputsTyped
        <5>2. domain \in Domains /\ nextId \in Ids0
          BY <4>1 DEF TypeOK, Ids, Ids0
        <5>3. QED
          BY <5>1, <5>2, DefaultRecordsTyped, Zenon DEF Loc
      <4>3. Goto(c, "cb_loop",
                 [IdleLoc EXCEPT !.dom = domain, !.pool = nextId,
                                 !.todo = ms, !.lport = lp, !.opt = op],
                 {nextId})
        BY <2>1, <3>1
      <4>4. QED
        BY <4>1, <4>2, <4>3, GotoTyped DEF PCs
    <3>2. CASE out # "ok"
      BY <2>1, <2>4, <3>2, RaiseTyped
    <3>3. QED
      BY <3>1, <3>2
  <2>7. QED
    BY <1>3, <2>4, <2>5, <2>6 DEF CreateBalancerPool, TypeOK
<1>4. ASSUME NEW c \in Callers, CreateBalancerNode(c) PROVE TypeOK'
  <2>1. PICK m \in loc[c].todo, out \in Answers(HasRoom) :
          /\ m.kind = "cnode"
          /\ Create(out, [NoObj EXCEPT !.kind = "node", !.dom = loc[c].dom,
                                       !.ip = m.ip])
          /\ CountFault(out)
          /\ IF out = "ok"
             THEN Goto(c, "cb_add",
                       [loc[c] EXCEPT !.node = nextId, !.todo = @ \ {m}],
                       {nextId})
             ELSE Raise(c, NewIds(out))
    BY <1>4, Zenon DEF CreateBalancerNode
  <2>2. Applied(out) => HasRoom
    BY <2>1 DEF Answers, Applied, Lost
  <2>3. loc[c] \in Loc /\ m \in MemberInput
    BY DEF TypeOK, Loc
  <2>4. [NoObj EXCEPT !.kind = "node", !.dom = loc[c].dom, !.ip = m.ip] \in Obj
    <3>1. "node" \in Kinds /\ loc[c].dom \in Domains /\ m.ip \in Ips
      BY <2>3 DEF Kinds, Loc, MemberInput
    <3>2. QED
      BY <3>1, NewNodeTyped, Zenon
  <2>5. /\ srv' \in [Ids -> Obj]
        /\ nextId' \in 1..(MaxId + 1)
        /\ NewIds(out) \subseteq Ids
        /\ Applied(out) => nextId \in Ids
    BY <2>1, <2>2, <2>4, CreateTyped
  <2>6. faults' \in 0..MaxFaults
    BY <2>1 DEF CountFault, Answers, Lost, TypeOK
  <2>7. out = "ok" => /\ [loc[c] EXCEPT !.node = nextId, !.todo = @ \ {m}] \in Loc
                      /\ {nextId} \in SUBSET Ids
    <3> SUFFICES ASSUME out = "ok"
                 PROVE  /\ [loc[c] EXCEPT !.node = nextId, !.todo = @ \ {m}] \in Loc
                        /\ {nextId} \in SUBSET Ids
      OBVIOUS
    <3>1. nextId \in Ids
      BY <2>5 DEF Applied
    <3>2. nextId \in Ids0 /\ loc[c].todo \ {m} \in SUBSET MemberInput
      BY <2>3, <3>1 DEF Ids, Ids0, Loc
    <3>3. QED
      BY <2>3, <3>1, <3>2, Zenon DEF Loc
  <2>8. /\ pc' \in [Callers -> PCs]
        /\ loc' \in [Callers -> Loc]
        /\ created' \in [Callers -> SUBSET Ids]
        /\ orphans' \subseteq Ids
    <3>1. "cb_add" \in PCs
      BY DEF PCs
    <3>2. CASE out = "ok"
      <4>1. Goto(c, "cb_add",
                 [loc[c] EXCEPT !.node = nextId, !.todo = @ \ {m}],
                 {nextId})
        BY <2>1, <3>2
      <4>2. QED
        BY <2>7, <3>1, <3>2, <4>1, GotoTyped
    <3>3. CASE out # "ok"
      <4>1. Raise(c, NewIds(out))
        BY <2>1, <3>3
      <4>2. QED
        BY <2>5, <4>1, RaiseTyped
    <3>4. QED
      BY <3>2, <3>3
  <2>9. QED
    BY <1>4, <2>5, <2>6, <2>8 DEF CreateBalancerNode, TypeOK
<1>5. ASSUME NEW c \in Callers, CreateBalancerMember(c) PROVE TypeOK'
  <2>1. loc[c] \in Loc
    BY DEF TypeOK
  <2>2. /\ srv' \in [Ids -> Obj]
        /\ nextId' \in 1..(MaxId + 1)
        /\ faults' \in 0..MaxFaults
        /\ pc' \in [Callers -> PCs]
        /\ loc' \in [Callers -> Loc]
        /\ created' \in [Callers -> SUBSET Ids]
        /\ orphans' \subseteq Ids
    <3>1. CASE AddPoolMember(c, loc[c].pool, loc[c].node,
                             [loc[c] EXCEPT !.node = None])
      <4>1. [loc[c] EXCEPT !.node = None] \in Loc
        <5>1. None \in Ids0
          BY DEF None, Ids0
        <5>2. QED
          BY <2>1, <5>1, Zenon DEF Loc
      <4>2. loc[c].pool \in Ids0 /\ loc[c].node \in Ids0
        BY <2>1 DEF Loc
      <4>3. QED
        BY <3>1, <4>1, <4>2, AddPoolMemberTyped
    <3>2. CASE \E m \in loc[c].todo :
                 /\ m.kind = "member"
                 /\ AddPoolMember(c, loc[c].pool, m.id,
                                  [loc[c] EXCEPT !.todo = @ \ {m}])
      <4>1. PICK m \in loc[c].todo :
              AddPoolMember(c, loc[c].pool, m.id,
                            [loc[c] EXCEPT !.todo = @ \ {m}])
        BY <3>2, Zenon
      <4>2. [loc[c] EXCEPT !.todo = @ \ {m}] \in Loc
        <5>1. loc[c].todo \ {m} \in SUBSET MemberInput
          BY <2>1 DEF Loc
        <5>2. QED
          BY <2>1, <5>1, Zenon DEF Loc
      <4>3. loc[c].pool \in Ids0 /\ m.id \in Ids0
        BY <2>1 DEF Loc, MemberInput
      <4>4. QED
        BY <4>1, <4>2, <4>3, AddPoolMemberTyped
    <3>3. QED
      BY <1>5, <3>1, <3>2 DEF CreateBalancerMember
  <2>3. QED
    BY <1>5, <2>2 DEF CreateBalancerMember, TypeOK
<1>6. ASSUME NEW c \in Callers, CreateBalancerListener(c) PROVE TypeOK'
  <2>1. loc[c] \in Loc
    BY DEF TypeOK
  <2>2. CASE /\ Raise(c, {})
             /\ UNCHANGED <<srv, nextId, faults, lbs>>
    <3>1. /\ pc' \in [Callers -> PCs]
          /\ loc' \in [Callers -> Loc]
          /\ created' \in [Callers -> SUBSET Ids]
          /\ orphans' \subseteq Ids
      BY <2>2, RaiseTyped
    <3>2. QED
      BY <1>6, <2>2, <3>1 DEF CreateBalancerListener, TypeOK
  <2>3. CASE \E out \in Answers(HasRoom /\ IsA(loc[c].pool, "pool")) :
               /\ Create(out, [NoObj EXCEPT !.kind = "listener",
                                   !.dom = loc[c].dom, !.pool = loc[c].pool])
               /\ CountFault(out)
               /\ IF out = "ok"
                  THEN /\ lbs' = lbs \cup {[id |-> nextId, pool |-> loc[c].pool,
                                            dom |-> loc[c].dom]}
                       /\ Return(c)
                  ELSE /\ Raise(c, NewIds(out))
                       /\ UNCHANGED lbs
    <3>1. PICK out \in Answers(HasRoom /\ IsA(loc[c].pool, "pool")) :
               /\ Create(out, [NoObj EXCEPT !.kind = "listener",
                                   !.dom = loc[c].dom, !.pool = loc[c].pool])
               /\ CountFault(out)
               /\ IF out = "ok"
                  THEN /\ lbs' = lbs \cup {[id |-> nextId, pool |-> loc[c].pool,
                                            dom |-> loc[c].dom]}
                       /\ Return(c)
                  ELSE /\ Raise(c, NewIds(out))
                       /\ UNCHANGED lbs
      BY <2>3
    <3>2. Applied(out) => HasRoom
      BY <3>1 DEF Answers, Applied, Lost
    <3>3. [NoObj EXCEPT !.kind = "listener", !.dom = loc[c].dom,
                        !.pool = loc[c].pool] \in Obj
      <4>1. "listener" \in Kinds /\ loc[c].dom \in Domains
            /\ loc[c].pool \in Ids0
        BY <2>1 DEF Kinds, Loc
      <4>2. QED
        BY <4>1, NewListenerTyped, Zenon
    <3>4. /\ srv' \in [Ids -> Obj]
          /\ nextId' \in 1..(MaxId + 1)
          /\ NewIds(out) \subseteq Ids
          /\ Applied(out) => nextId \in Ids
      BY <3>1, <3>2, <3>3, CreateTyped
    <3>5. faults' \in 0..MaxFaults
      BY <3>1 DEF CountFault, Answers, Lost, TypeOK
    <3>6. /\ lbs' \subseteq Balancer
          /\ pc' \in [Callers -> PCs]
          /\ loc' \in [Callers -> Loc]
          /\ created' \in [Callers -> SUBSET Ids]
          /\ orphans' \subseteq Ids
      <4>1. CASE out = "ok"
        <5>1. /\ lbs' = lbs \cup {[id |-> nextId, pool |-> loc[c].pool,
                                   dom |-> loc[c].dom]}
              /\ Return(c)
          BY <3>1, <4>1
        <5>2. [id |-> nextId, pool |-> loc[c].pool, dom |-> loc[c].dom]
                \in Balancer
          BY <2>1, <3>4, <4>1 DEF Applied, Balancer, Loc
        <5>3. QED
          BY <5>1, <5>2, ReturnTyped DEF TypeOK
      <4>2. CASE out # "ok"
        <5>1. Raise(c, NewIds(out)) /\ UNCHANGED lbs
          BY <3>1, <4>2
        <5>2. QED
          BY <3>4, <5>1, RaiseTyped DEF TypeOK
      <4>3. QED
        BY <4>1, <4>2
    <3>7. QED
      BY <1>6, <3>4, <3>5, <3>6 DEF CreateBalancerListener, TypeOK
  <2>4. QED
    BY <1>6, <2>2, <2>3 DEF CreateBalancerListener
<1>7. ASSUME NEW c \in Callers, AttachCreateNode(c) PROVE TypeOK'
  <2>1. PICK b \in lbs, a \in Ips, out \in Answers(HasRoom) :
          /\ Create(out, [NoObj EXCEPT !.kind = "node", !.dom = b.dom,
                                       !.ip = a])
          /\ CountFault(out)
          /\ IF out = "ok"
             THEN Goto(c, "at_pool",
                       [IdleLoc EXCEPT !.dom = b.dom, !.pool = b.pool,
                                       !.node = nextId, !.ip = a],
                       {nextId})
             ELSE Raise(c, NewIds(out))
    BY <1>7, Zenon DEF AttachCreateNode
  <2>2. b \in Balancer
    BY DEF TypeOK
  <2>3. Applied(out) => HasRoom
    BY <2>1 DEF Answers, Applied, Lost
  <2>4. [NoObj EXCEPT !.kind = "node", !.dom = b.dom, !.ip = a] \in Obj
    <3>1. "node" \in Kinds /\ b.dom \in Domains
      BY <2>2 DEF Kinds, Balancer
    <3>2. QED
      BY <3>1, NewNodeTyped, Zenon
  <2>5. /\ srv' \in [Ids -> Obj]
        /\ nextId' \in 1..(MaxId + 1)
        /\ NewIds(out) \subseteq Ids
        /\ Applied(out) => nextId \in Ids
    BY <2>1, <2>3, <2>4, CreateTyped
  <2>6. faults' \in 0..MaxFaults
    BY <2>1 DEF CountFault, Answers, Lost, TypeOK
  <2>7. out = "ok" => /\ [IdleLoc EXCEPT !.dom = b.dom, !.pool = b.pool,
                                         !.node = nextId, !.ip = a] \in Loc
                      /\ {nextId} \in SUBSET Ids
    <3> SUFFICES ASSUME out = "ok"
                 PROVE  /\ [IdleLoc EXCEPT !.dom = b.dom, !.pool = b.pool,
                                           !.node = nextId, !.ip = a] \in Loc
                        /\ {nextId} \in SUBSET Ids
      OBVIOUS
    <3>1. nextId \in Ids
      BY <2>5 DEF Applied
    <3>2. b.dom \in Domains /\ b.pool \in Ids0 /\ nextId \in Ids0
      BY <2>2, <3>1 DEF Balancer, Ids, Ids0
    <3>3. QED
      BY <3>1, <3>2, DefaultRecordsTyped, Zenon DEF Loc
  <2>8. /\ pc' \in [Callers -> PCs]
        /\ loc' \in [Callers -> Loc]
        /\ created' \in [Callers -> SUBSET Ids]
        /\ orphans' \subseteq Ids
    <3>1. "at_pool" \in PCs
      BY DEF PCs
    <3>2. CASE out = "ok"
      <4>1. Goto(c, "at_pool",
                 [IdleLoc EXCEPT !.dom = b.dom, !.pool = b.pool,
                                 !.node = nextId, !.ip = a],
                 {nextId})
        BY <2>1, <3>2
      <4>2. QED
        BY <2>7, <3>1, <3>2, <4>1, GotoTyped
    <3>3. CASE out # "ok"
      <4>1. Raise(c, NewIds(out))
        BY <2>1, <3>3
      <4>2. QED
        BY <2>5, <4>1, RaiseTyped
    <3>4. QED
      BY <3>2, <3>3
  <2>9. QED
    BY <1>7, <2>5, <2>6, <2>8 DEF AttachCreateNode, TypeOK
<1>8. ASSUME NEW c \in Callers, AttachGetPool(c) PROVE TypeOK'
  <2>1. PICK out \in Answers(IsA(loc[c].pool, "pool")) :
          /\ CountFault(out)
          /\ IF out = "ok" THEN Goto(c, "at_add", loc[c], {})
                           ELSE Raise(c, {})
    BY <1>8, Zenon DEF AttachGetPool
  <2>2. faults' \in 0..MaxFaults
    BY <2>1 DEF CountFault, Answers, Lost, TypeOK
  <2>3. /\ pc' \in [Callers -> PCs]
        /\ loc' \in [Callers -> Loc]
        /\ created' \in [Callers -> SUBSET Ids]
        /\ orphans' \subseteq Ids
    <3>1. "at_add" \in PCs /\ loc[c] \in Loc
      BY DEF PCs, TypeOK
    <3>2. CASE out = "ok"
      <4>1. Goto(c, "at_add", loc[c], {})
        BY <2>1, <3>2
      <4>2. QED
        BY <3>1, <3>2, <4>1, GotoTyped
    <3>3. CASE out # "ok"
      <4>1. Raise(c, {})
        BY <2>1, <3>3
      <4>2. QED
        BY <4>1, RaiseTyped
    <3>4. QED
      BY <3>2, <3>3
  <2>4. QED
    BY <1>8, <2>2, <2>3 DEF AttachGetPool, TypeOK
<1>9. ASSUME NEW c \in Callers, AttachAddMember(c) PROVE TypeOK'
  <2>1. PICK out \in Answers(HasRoom /\ IsA(loc[c].pool, "pool")
                             /\ IsA(loc[c].node, "node")) :
          /\ Create(out, [NoObj EXCEPT !.kind = "member",
                                       !.dom = srv[loc[c].pool].dom,
                                       !.pool = loc[c].pool,
                                       !.node = loc[c].node,
                                       !.ip = srv[loc[c].node].ip])
          /\ CountFault(out)
          /\ IF out = "ok"
             THEN /\ mems' = mems \cup {[id |-> nextId, ip |-> loc[c].ip]}
                  /\ Return(c)
             ELSE /\ Raise(c, NewIds(out))
                  /\ UNCHANGED mems
    BY <1>9, Zenon DEF AttachAddMember
  <2>2. loc[c] \in Loc
    BY DEF TypeOK
  <2>3. Applied(out) => HasRoom /\ loc[c].pool \in Ids /\ loc[c].node \in Ids
    BY <2>1 DEF Answers, Applied, Lost, IsA
  <2>4. Applied(out) =>
          [NoObj EXCEPT !.kind = "member", !.dom = srv[loc[c].pool].dom,
                        !.pool = loc[c].pool, !.node = loc[c].node,
                        !.ip = srv[loc[c].node].ip] \in Obj
    <3> SUFFICES ASSUME Applied(out)
                 PROVE  [NoObj EXCEPT !.kind = "member",
                                      !.dom = srv[loc[c].pool].dom,
                                      !.pool = loc[c].pool,
                                      !.node = loc[c].node,
                                      !.ip = srv[loc[c].node].ip] \in Obj
      OBVIOUS
    <3>1. /\ "member" \in Kinds
          /\ srv[loc[c].pool].dom \in Domains
          /\ srv[loc[c].node].ip \in Ips
          /\ loc[c].pool \in Ids0 /\ loc[c].node \in Ids0
      BY <2>2, <2>3 DEF Kinds, TypeOK, Obj, Loc
    <3>2. QED
      BY <3>1, NewMemberTyped, Zenon
  <2>5. /\ srv' \in [Ids -> Obj]
        /\ nextId' \in 1..(MaxId + 1)
        /\ NewIds(out) \subseteq Ids
        /\ Applied(out) => nextId \in Ids
    <3>1. Applied(out) => HasRoom
      BY <2>3
    <3>2. QED
      BY <2>1, <2>4, <3>1, CreateTyped
  <2>6. faults' \in 0..MaxFaults
    BY <2>1 DEF CountFault, Answers, Lost, TypeOK
  <2>7. /\ mems' \subseteq MemberH
        /\ pc' \in [Callers -> PCs]
        /\ loc' \in [Callers -> Loc]
        /\ created' \in [Callers -> SUBSET Ids]
        /\ orphans' \subseteq Ids
    <3>1. CASE out = "ok"
      <4>1. /\ mems' = mems \cup {[id |-> nextId, ip |-> loc[c].ip]}
            /\ Return(c)
        BY <2>1, <3>1
      <4>2. [id |-> nextId, ip |-> loc[c].ip] \in MemberH
        BY <2>2, <2>5, <3>1 DEF Applied, MemberH, Loc
      <4>3. QED
        BY <4>1, <4>2, ReturnTyped DEF TypeOK
    <3>2. CASE out # "ok"
      <4>1. Raise(c, NewIds(out)) /\ UNCHANGED mems
        BY <2>1, <3>2
      <4>2. QED
        BY <2>5, <4>1, RaiseTyped DEF TypeOK
    <3>3. QED
      BY <3>1, <3>2
  <2>8. QED
    BY <1>9, <2>5, <2>6, <2>7 DEF AttachAddMember, TypeOK
<1>10. ASSUME NEW c \in Callers, BalancerDetachMember(c) PROVE TypeOK'
  <2>1. PICK m \in mems : RemoveReq(c, m.id, IsA(m.id, "member"))
    BY <1>10, Zenon DEF BalancerDetachMember
  <2>2. QED
    BY <1>10, <2>1, RemoveReqTyped DEF BalancerDetachMember, TypeOK
<1>11. ASSUME NEW c \in Callers, DestroyBalancer(c) PROVE TypeOK'
  <2>1. PICK b \in lbs : RemoveReq(c, b.id, IsA(b.id, "listener"))
    BY <1>11, Zenon DEF DestroyBalancer
  <2>2. QED
    BY <1>11, <2>1, RemoveReqTyped DEF DestroyBalancer, TypeOK
<1>12. ASSUME NEW c \in Callers, ExDestroyPool(c) PROVE TypeOK'
  <2>1. PICK b \in lbs : RemoveReq(c, b.pool, IsA(b.pool, "pool")
                                            /\ ~InUse(b.pool))
    BY <1>12, Zenon DEF ExDestroyPool
  <2>2. QED
    BY <1>12, <2>1, RemoveReqTyped DEF ExDestroyPool, TypeOK
<1>13. ASSUME NEW c \in Callers, ExDestroyNode(c) PROVE TypeOK'
  <2>1. PICK pm \in pms : RemoveReq(c, pm.node, IsA(pm.node, "node")
                                              /\ ~InUse(pm.node))
    BY <1>13, Zenon DEF ExDestroyNode
  <2>2. QED
    BY <1>13, <2>1, RemoveReqTyped DEF ExDestroyNode, TypeOK
<1>14. ASSUME NEW c \in Callers, ExDestroyPoolMember(c) PROVE TypeOK'
  <2>0. PICK pm \in pms, dn \in BOOLEAN :
          \E out \in Answers(IsA(pm.id, "member")) :
            /\ Delete(out, pm.id)
            /\ CountFault(out)
            /\ IF out # "ok" THEN Raise(c, {})
               ELSE IF pm.node # None /\ dn
                    THEN Goto(c, "dp_node", [IdleLoc EXCEPT !.node = pm.node], {})
                    ELSE Return(c)
    BY <1>14, Zenon DEF ExDestroyPoolMember
  <2>1. PICK out \in Answers(IsA(pm.id, "member")) :
          /\ Delete(out, pm.id)
          /\ CountFault(out)
          /\ IF out # "ok" THEN Raise(c, {})
             ELSE IF pm.node # None /\ dn
                  THEN Goto(c, "dp_node", [IdleLoc EXCEPT !.node = pm.node], {})
                  ELSE Return(c)
    BY <2>0
  <2>2. srv' \in [Ids -> Obj]
    BY <2>1, DeleteTyped
  <2>3. faults' \in 0..MaxFaults
    BY <2>1 DEF CountFault, Answers, Lost, TypeOK
  <2>4. /\ pc' \in [Callers -> PCs]
        /\ loc' \in [Callers -> Loc]
        /\ created' \in [Callers -> SUBSET Ids]
        /\ orphans' \subseteq Ids
    <3>1. CASE out # "ok"
      <4>1. Raise(c, {})
        BY <2>1, <3>1
      <4>2. QED
        BY <4>1, RaiseTyped
    <3>2. CASE out = "ok" /\ pm.node # None /\ dn
      <4>1. Goto(c, "dp_node", [IdleLoc EXCEPT !.node = pm.node], {})
        BY <2>1, <3>2
      <4>2. [IdleLoc EXCEPT !.node = pm.node] \in Loc
        <5>1. pm.node \in Ids0
          BY DEF TypeOK, PoolMemberH
        <5>2. QED
          BY <5>1, DefaultRecordsTyped, Zenon DEF Loc
      <4>3. QED
        BY <4>1, <4>2, GotoTyped DEF PCs
    <3>3. CASE out = "ok" /\ ~(pm.node # None /\ dn)
      <4>1. Return(c)
        BY <2>1, <3>3
      <4>2. QED
        BY <4>1, ReturnTyped
    <3>4. QED
      BY <3>1, <3>2, <3>3
  <2>5. QED
    BY <1>14, <2>2, <2>3, <2>4 DEF ExDestroyPoolMember, TypeOK
<1>15. ASSUME NEW c \in Callers, ExDestroyPoolMemberNode(c) PROVE TypeOK'
  <2>1. RemoveReq(c, loc[c].node, IsA(loc[c].node, "node")
                                  /\ ~InUse(loc[c].node))
    BY <1>15 DEF ExDestroyPoolMemberNode
  <2>2. QED
    BY <1>15, <2>1, RemoveReqTyped DEF ExDestroyPoolMemberNode, TypeOK
<1>16. ASSUME NEW c \in Callers, ExSetNodeState(c) PROVE TypeOK'
  <2>1. PICK pm \in pms, out \in Answers(FALSE) :
              /\ CountFault(out)
              /\ Raise(c, {})
    BY <1>16, Zenon DEF ExSetNodeState
  <2>2. faults' \in 0..MaxFaults
    BY <2>1 DEF CountFault, Answers, Lost, TypeOK
  <2>3. /\ pc' \in [Callers -> PCs]
        /\ loc' \in [Callers -> Loc]
        /\ created' \in [Callers -> SUBSET Ids]
        /\ orphans' \subseteq Ids
    BY <2>1, RaiseTyped
  <2>4. QED
    BY <1>16, <2>1, <2>2, <2>3 DEF ExSetNodeState, TypeOK
<1>17. ASSUME NEW c \in Callers, ListBalancers(c) PROVE TypeOK'
  <2>1. ASSUME NEW i \in Ids PROVE ToBalancer(i) \in Balancer
    BY DEF ToBalancer, Balancer, TypeOK, Obj
  <2>2. lbs' \subseteq Balancer
    BY <1>17, <2>1 DEF ListBalancers, TypeOK
  <2>3. QED
    BY <1>17, <2>2 DEF ListBalancers, TypeOK
<1>18. ASSUME NEW c \in Callers, BalancerListMembers(c) PROVE TypeOK'
  <2>1. ASSUME NEW j \in Ids PROVE [id |-> j, ip |-> srv[j].ip] \in MemberH
    BY DEF MemberH, TypeOK, Obj
  <2>2. mems' \subseteq MemberH
    BY <1>18, <2>1 DEF BalancerListMembers, PoolMembersOf, TypeOK
  <2>3. QED
    BY <1>18, <2>2 DEF BalancerListMembers, TypeOK
<1>19. ASSUME NEW c \in Callers, ExGetPoolMembers(c) PROVE TypeOK'
  <2>1. ASSUME NEW j \in Ids PROVE [id |-> j, node |-> srv[j].node] \in PoolMemberH
    BY DEF PoolMemberH, TypeOK, Obj
  <2>2. pms' \subseteq PoolMemberH
    BY <1>19, <2>1 DEF ExGetPoolMembers, PoolMembersOf, TypeOK
  <2>3. QED
    BY <1>19, <2>2 DEF ExGetPoolMembers, TypeOK
<1>20. ASSUME NEW c \in Callers, ExGetPoolMember(c) PROVE TypeOK'
  <2>1. ASSUME NEW j \in Ids PROVE [id |-> j, node |-> srv[j].node] \in PoolMemberH
    BY DEF PoolMemberH, TypeOK, Obj
  <2>2. pms' \subseteq PoolMemberH
    BY <1>20, <2>1 DEF ExGetPoolMember, MemberH, IsA, TypeOK
  <2>3. QED
    BY <1>20, <2>2 DEF ExGetPoolMember, TypeOK
<1>21. ASSUME NEW c \in Callers, ExUpdateListener(c) PROVE TypeOK'
  <2>1. PICK b \in lbs, np \in Ids0 :
          \E out \in Answers(IsA(b.id, "listener") /\ (np = None \/ IsA(np, "pool"))) :
              /\ srv' = IF Applied(out) THEN [srv EXCEPT ![b.id].pool = np] ELSE srv
              /\ CountFault(out)
              /\ IF out = "ok" THEN Return(c) ELSE Raise(c, {})
    BY <1>21, Zenon DEF ExUpdateListener
  <2>2. PICK out \in Answers(IsA(b.id, "listener") /\ (np = None \/ IsA(np, "pool"))) :
              /\ srv' = IF Applied(out) THEN [srv EXCEPT ![b.id].pool = np] ELSE srv
              /\ CountFault(out)
              /\ IF out = "ok" THEN Return(c) ELSE Raise(c, {})
    BY <2>1
  <2>3. srv' \in [Ids -> Obj]
    <3>1. b.id \in Ids
      BY DEF TypeOK, Balancer
    <3>2. QED
      BY <2>2, <3>1 DEF TypeOK, Obj
  <2>4. EditReq(c, IsA(b.id, "listener") /\ (np = None \/ IsA(np, "pool")))
    BY <2>2, Zenon DEF EditReq
  <2>5. QED
    BY <1>21, <2>3, <2>4, EditReqTyped DEF ExUpdateListener, TypeOK
<1>22. ASSUME NEW c \in Callers, ExUpdatePool(c) PROVE TypeOK'
  <2>1. PICK b \in lbs : EditReq(c, IsA(b.pool, "pool"))
    BY <1>22, Zenon DEF ExUpdatePool
  <2>2. QED
    BY <1>22, <2>1, EditReqTyped DEF ExUpdatePool, TypeOK
<1>23. ASSUME NEW c \in Callers, ExUpdateNode(c) PROVE TypeOK'
  <2>1. PICK pm \in pms : EditReq(c, IsA(pm.node, "node"))
    BY <1>23, Zenon DEF ExUpdateNode
  <2>2. QED
    BY <1>23, <2>1, EditReqTyped DEF ExUpdateNode, TypeOK
<1>24. ASSUME NEW c \in Callers, ExSetPoolMemberState(c) PROVE TypeOK'
  <2>1. PICK pm \in pms : EditReq(c, IsA(pm.id, "member"))
    BY <1>24, Zenon DEF ExSetPoolMemberState
  <2>2. QED
    BY <1>24, <2>1, EditReqTyped DEF ExSetPoolMemberState, TypeOK
<1>99. QED
  BY <1>1, <1>2, <1>3, <1>4, <1>5, <1>6, <1>7, <1>8, <1>9, <1>10, <1>11,
     <1>12, <1>13, <1>14, <1>15, <1>16, <1>17, <1>18, <1>19, <1>20, <1>21,
     <1>22, <1>23, <1>24 DEF Next

\* Type correctness: every reachable state is well typed.
THEOREM TypeCorrect == Spec => []TypeOK
<1>1. Init => TypeOK
  BY DefaultRecordsTyped DEF Init, TypeOK, Ids, PCs
<1>2. QED
  BY <1>1, TypeOKStep, PTL DEF Spec
=============================================================================
