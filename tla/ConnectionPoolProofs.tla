------------------------ MODULE ConnectionPoolProofs ------------------------
(***************************************************************************)
(* Proofs about ConnectionPool, for any finite set of sessions, any hosts, *)
(* callers and limits: its type invariant and its safety properties.       *)
(***************************************************************************)
EXTENDS ConnectionPool, FiniteSetTheorems, TLAPS

-----------------------------------------------------------------------------
(***************************************************************************)
(* The inductive invariant.                                                *)
(***************************************************************************)

\* A session is listed at most once, and only if it is in _all_connections.
Listed ==
  /\ active \in [Sessions -> {0, 1}]
  /\ idle \in [Sessions -> {0, 1}]
  /\ \A s \in Sessions : active[s] = 1 => idle[s] = 0
  /\ \A s \in Sessions : active[s] = 1 \/ idle[s] = 1 => s \in all

Unheld(s) == \A t \in Tasks : s \notin held[t]

\* What a caller holds is its own, is listed as active unless stop() took it
\* out of the pool, and is not in service any more if stop() did.
Holding ==
  \A t \in Tasks : \A s \in held[t] :
    /\ \A u \in Tasks : s \in held[u] => u = t
    /\ s \in all => active[s] = 1
    /\ idle[s] = 0
    /\ s \notin all => state[s] \notin {"ACTIVE", "WORN"}

\* A session that is not connected yet is neither listed nor held.
Unborn ==
  \A s \in Sessions :
    state[s] \in {"NONE", "CONNECTING"} => s \notin all /\ Unheld(s)

\* What the operation inside the lock knows of the sessions it works on.
Section ==
  /\ op \in {"free", "stopTasks"} => target = {}
  /\ op \in {"connect", "discard"} => by \in Tasks /\ \E s \in target : target = {s}
  /\ op = "connect" =>
       closing = {} /\ \A s \in target : state[s] = "CONNECTING"
  /\ op = "discard" => target \subseteq all
  /\ op \in {"discard", "drop", "sweep"} =>
       \A s \in target : Unheld(s) /\ idle[s] = 0 /\ state[s] \notin {"NONE", "CONNECTING"}
  /\ op = "stopClose" =>
       /\ target = all
       /\ \A s \in all : state[s] \notin {"ACTIVE", "WORN"}

Lent(S) == {s \in S : active[s] = 1}

\* The limits hold, and a borrow that goes on to connect has room for one more.
Limits ==
  /\ Cardinality(Lent(Sessions)) <= MaxConnections
  /\ \A h \in Hosts : Cardinality(Lent(OfHost(h))) <= MaxPerHost
  /\ op \in {"connect", "discard"} =>
       /\ Cardinality(Lent(Sessions)) < MaxConnections
       /\ \A s \in target : Cardinality(Lent(OfHost(HostOf[s]))) < MaxPerHost

Pooled(h) == {s \in all : HostOf[s] = h}

\* Without cancelled calls a session in the pool is lent, idle or about to
\* leave it, and the host of a session being connected has room for it.
Tracked ==
  cancels = 0 =>
    /\ \A s \in all :
         \/ active[s] = 1
         \/ idle[s] = 1
         \/ op \in {"discard", "drop", "sweep"} /\ s \in target
    /\ \A h \in Hosts : Cardinality(Pooled(h)) <= MaxPerHost
    /\ op = "connect" =>
         \A s \in target : Cardinality(Pooled(HostOf[s])) < MaxPerHost

\* Without cancelled calls an open connection belongs to a session that the
\* pool or the operation inside the lock can still close, or that could not
\* be closed.
Sockets ==
  /\ \A s \in socks : state[s] # "DISCONNECTED"
  /\ cancels = 0 =>
       /\ \A s \in socks :
            \/ s \in all
            \/ op \in {"connect", "drop"} /\ s \in target
            \/ state[s] = "STUCK" /\ ~Unheld(s)
       /\ \A s \in Sessions : state[s] = "CLOSING" => s \in closing
       /\ op = "stopClose" =>
            \A s \in socks : s \in closing \/ state[s] = "STUCK"

Inv ==
  /\ TypeOK
  /\ Listed
  /\ Holding
  /\ Unborn
  /\ Section
  /\ Limits
  /\ Tracked
  /\ Sockets

-----------------------------------------------------------------------------
(***************************************************************************)
(* Counting.                                                               *)
(***************************************************************************)

\* A subset is not larger.
LEMMA Fewer ==
  ASSUME NEW T \in SUBSET Sessions, NEW S \in SUBSET T
  PROVE  /\ Cardinality(S) \in Nat
         /\ Cardinality(T) \in Nat
         /\ Cardinality(S) <= Cardinality(T)
<1>1. IsFiniteSet(T)
  BY PoolAssumption, FS_Subset
<1>2. IsFiniteSet(S) /\ Cardinality(S) <= Cardinality(T)
  BY <1>1, FS_Subset
<1> QED
  BY <1>1, <1>2, FS_CardinalityType

\* One more session adds at most one.
LEMMA OneMore ==
  ASSUME NEW S \in SUBSET Sessions, NEW s \in Sessions
  PROVE  /\ Cardinality(S) \in Nat
         /\ Cardinality(S \cup {s}) \in Nat
         /\ Cardinality(S \cup {s}) <= Cardinality(S) + 1
<1>1. IsFiniteSet(S)
  BY PoolAssumption, FS_Subset
<1>2. Cardinality(S) \in Nat
  BY <1>1, FS_CardinalityType
<1>3. Cardinality(S \cup {s}) = IF s \in S THEN Cardinality(S) ELSE Cardinality(S) + 1
  BY <1>1, FS_AddElement
<1> QED
  BY <1>2, <1>3

\* A subset that misses a session is smaller.
LEMMA OneLess ==
  ASSUME NEW T \in SUBSET Sessions, NEW s \in T, NEW S \in SUBSET (T \ {s})
  PROVE  Cardinality(S) < Cardinality(T)
<1>1. IsFiniteSet(T) /\ Cardinality(T) \in Nat
  BY PoolAssumption, FS_Subset, FS_CardinalityType
<1>2. Cardinality(T \ {s}) = Cardinality(T) - 1
  BY <1>1, FS_RemoveElement
<1>3. Cardinality(S) <= Cardinality(T \ {s}) /\ Cardinality(S) \in Nat
  BY Fewer
<1> QED
  BY <1>1, <1>2, <1>3

\* When no list has duplicates the number of entries is that of the sessions.
LEMMA EntriesAreLent ==
  ASSUME Listed, NEW S \in SUBSET Sessions
  PROVE  Entries(active, S) = Cardinality(Lent(S))
<1> DEFINE E == UNION {{s} \X (1..active[s]) : s \in S}
           f == [s \in Lent(S) |-> <<s, 1>>]
<1>1. IsFiniteSet(Lent(S))
  BY PoolAssumption, FS_Subset DEF Lent
<1>2. ASSUME NEW s \in S PROVE 1..active[s] = IF active[s] = 1 THEN {1} ELSE {}
  <2>1. active[s] = 0 \/ active[s] = 1
    BY DEF Listed
  <2>2. 1..0 = {} /\ 1..1 = {1}
    OBVIOUS
  <2> QED
    BY <2>1, <2>2, Zenon
<1>3. E = {<<s, 1>> : s \in Lent(S)}
  <2>1. ASSUME NEW e \in E PROVE \E s \in Lent(S) : e = <<s, 1>>
    <3>1. PICK s \in S : e \in {s} \X (1..active[s])
      OBVIOUS
    <3>2. active[s] = 1
      BY <1>2, <3>1
    <3>3. e \in {s} \X {1}
      BY <1>2, <3>1, <3>2
    <3> QED
      BY <3>2, <3>3 DEF Lent
  <2>2. ASSUME NEW s \in Lent(S) PROVE <<s, 1>> \in E
    BY <1>2 DEF Lent
  <2> QED
    BY <2>1, <2>2
<1>4. f \in Bijection(Lent(S), E)
  BY <1>3 DEF Bijection, Injection, Surjection, IsInjective
<1>5. Cardinality(E) = Cardinality(Lent(S))
  BY <1>1, <1>4, FS_Bijection DEF ExistsBijection
<1> QED
  BY <1>5 DEF Entries

\* A borrow that passes the tests of the limits has room for one more.
LEMMA RoomToBorrow ==
  ASSUME Inv, NEW s \in Sessions, MayBorrow(HostOf[s])
  PROVE  /\ Cardinality(Lent(Sessions)) < MaxConnections
         /\ Cardinality(Lent(OfHost(HostOf[s]))) < MaxPerHost
BY EntriesAreLent DEF MayBorrow, Inv, OfHost

\* Sessions that leave the active lists keep the limits.
LEMMA LentShrinks ==
  ASSUME Inv,
         \A s \in Sessions : active'[s] = 1 => active[s] = 1,
         op' \in {"connect", "discard"} =>
           op = "discard" /\ \A s \in target' : \E r \in target : HostOf[r] = HostOf[s],
         target' \subseteq Sessions
  PROVE  Limits'
<1>1. ASSUME NEW S \in SUBSET Sessions
      PROVE  /\ Cardinality(Lent(S)) \in Nat
             /\ Cardinality(Lent(S)') \in Nat
             /\ Cardinality(Lent(S)') <= Cardinality(Lent(S))
  <2>1. Lent(S)' \subseteq Lent(S) /\ Lent(S) \subseteq Sessions
    BY DEF Lent
  <2> QED
    BY <2>1, Fewer
<1>2. \A h : OfHost(h) \in SUBSET Sessions
  BY DEF OfHost
<1>3. ASSUME NEW h PROVE OfHost(h)' = OfHost(h)
  BY DEF OfHost
<1>4. Cardinality(Lent(Sessions)') <= MaxConnections
  BY <1>1, PoolAssumption DEF Inv, Limits
<1>5. \A h \in Hosts : Cardinality(Lent(OfHost(h))') <= MaxPerHost
  BY <1>1, <1>2, PoolAssumption DEF Inv, Limits
<1>6. ASSUME op' \in {"connect", "discard"}
      PROVE  /\ Cardinality(Lent(Sessions)') < MaxConnections
             /\ \A s \in target' : Cardinality(Lent(OfHost(HostOf[s]))') < MaxPerHost
  BY <1>1, <1>2, <1>6, PoolAssumption DEF Inv, Limits
<1> QED
  BY <1>4, <1>5, <1>6 DEF Limits, Lent, OfHost

\* A session that becomes active where there is room keeps the limits.
LEMMA LentGrows ==
  ASSUME Inv, NEW s \in Sessions,
         active' = Added(active, s),
         op' = "free",
         Cardinality(Lent(Sessions)) < MaxConnections,
         Cardinality(Lent(OfHost(HostOf[s]))) < MaxPerHost
  PROVE  Limits'
<1>1. ASSUME NEW S \in SUBSET Sessions
      PROVE  /\ Cardinality(Lent(S)) \in Nat
             /\ Cardinality(Lent(S)') \in Nat
             /\ Cardinality(Lent(S)') <= Cardinality(Lent(S)) + 1
             /\ s \notin S => Cardinality(Lent(S)') = Cardinality(Lent(S))
  <2>1. Lent(S)' \subseteq Lent(S) \cup {s} /\ Lent(S) \subseteq Sessions
    BY DEF Lent, Added, Inv, TypeOK
  <2>2. s \notin S => Lent(S)' = Lent(S)
    BY DEF Lent, Added, Inv, TypeOK
  <2>3. Cardinality(Lent(S)') <= Cardinality(Lent(S) \cup {s}) /\ Cardinality(Lent(S)') \in Nat
    BY <2>1, Fewer
  <2> QED
    BY <2>1, <2>2, <2>3, OneMore
<1>2. Cardinality(Lent(Sessions)') <= MaxConnections
  BY <1>1, PoolAssumption
<1>3. ASSUME NEW h \in Hosts PROVE Cardinality(Lent(OfHost(h))') <= MaxPerHost
  <2>1. OfHost(h) \in SUBSET Sessions /\ (s \in OfHost(h) => h = HostOf[s])
    BY DEF OfHost
  <2> QED
    BY <1>1, <2>1, PoolAssumption DEF Inv, Limits
<1> QED
  BY <1>2, <1>3 DEF Limits, Lent, OfHost

\* Sessions that leave the pool make room.
LEMMA PoolShrinks ==
  ASSUME Inv, all' \subseteq all, NEW h
  PROVE  /\ Cardinality(Pooled(h)) \in Nat
         /\ Cardinality(Pooled(h)') \in Nat
         /\ Cardinality(Pooled(h)') <= Cardinality(Pooled(h))
<1>1. Pooled(h)' \subseteq Pooled(h) /\ Pooled(h) \subseteq Sessions
  BY DEF Pooled, Inv, TypeOK
<1> QED
  BY <1>1, Fewer

-----------------------------------------------------------------------------
(***************************************************************************)
(* Every step keeps the invariant.                                         *)
(***************************************************************************)

\* The steps of borrow_connection keep the invariant.
LEMMA BorrowSteps ==
  ASSUME Inv
  PROVE  /\ \A t \in Tasks, s \in Sessions : Reuse(t, s) => Inv'
         /\ \A t \in Tasks, s \in Sessions : Discard(t, s) => Inv'
         /\ \A t \in Tasks, s \in Sessions : Create(t, s) => Inv'
         /\ ConnectDone => Inv'
         /\ ConnectFails => Inv'
         /\ CallCancelled => Inv'
<1> USE DEF Inv
<1>1. ASSUME NEW t \in Tasks, NEW s \in Sessions, Reuse(t, s) PROVE Inv'
  <2> USE <1>1 DEF Reuse, Healthy, Removed, Added, sessions, section
  <2>1. TypeOK'
    BY DEF TypeOK
  <2>2. Listed'
    BY DEF Listed
  <2>3. Holding'
    BY DEF TypeOK, Listed, Holding
  <2>4. Unborn'
    BY DEF Unborn, Unheld
  <2>5. Section'
    BY DEF TypeOK, Section, Unheld
  <2>6. Limits'
    BY LentGrows, RoomToBorrow DEF Section, MayBorrow
  <2>7. Tracked'
    BY DEF Tracked, Pooled, Listed, TypeOK
  <2>8. Sockets'
    BY DEF Unheld, Sockets
  <2> QED
    BY <2>1, <2>2, <2>3, <2>4, <2>5, <2>6, <2>7, <2>8
<1>2. ASSUME NEW t \in Tasks, NEW s \in Sessions, Discard(t, s) PROVE Inv'
  <2> USE <1>2 DEF Discard, MayBorrow, Healthy, Removed, BeginClose, ToClose, Enter
  <2>1. TypeOK'
    BY DEF TypeOK, Operations, SessionStates
  <2>2. Listed'
    BY DEF Listed
  <2>3. Holding'
    BY DEF TypeOK, Holding
  <2>4. Unborn'
    BY DEF Unborn, Unheld
  <2>5. Section'
    BY DEF Listed, Holding, Section, Unheld
  <2>6. Limits'
    BY RoomToBorrow DEF MayBorrow, Limits, Lent, OfHost
  <2>7. Tracked'
    BY DEF Tracked, Pooled, Listed, Section, TypeOK, MayBorrow
  <2>8. Sockets'
    BY DEF TypeOK, Holding, Section, Unheld, Sockets
  <2> QED
    BY <2>1, <2>2, <2>3, <2>4, <2>5, <2>6, <2>7, <2>8
<1>3. ASSUME NEW t \in Tasks, NEW s \in Sessions, Create(t, s) PROVE Inv'
  <2> USE <1>3 DEF Create, MayBorrow, Enter, lists
  <2>1. TypeOK'
    BY DEF TypeOK, Operations, SessionStates, Section
  <2>2. Listed'
    BY DEF Listed
  <2>3. Holding'
    BY DEF Holding
  <2>4. Unborn'
    BY DEF Unborn, Unheld
  <2>5. Section'
    BY DEF TypeOK, Section
  <2>6. Limits'
    BY RoomToBorrow DEF MayBorrow, Limits, Lent, OfHost
  <2>7. Tracked'
    <3>1. ASSUME cancels = 0
          PROVE  Cardinality(Pooled(HostOf[s])) < MaxPerHost
      <4>1. Pooled(HostOf[s]) \subseteq Lent(OfHost(HostOf[s])) /\ Lent(OfHost(HostOf[s])) \subseteq Sessions
        BY <3>1 DEF MayBorrow, Tracked, Pooled, Lent, OfHost, Listed, TypeOK
      <4> QED
        BY <4>1, Fewer, RoomToBorrow, PoolAssumption
    <3> QED
      BY <3>1 DEF Tracked, Pooled, MayBorrow
  <2>8. Sockets'
    BY DEF Unheld, Sockets
  <2> QED
    BY <2>1, <2>2, <2>3, <2>4, <2>5, <2>6, <2>7, <2>8
<1>4. ASSUME ConnectDone PROVE Inv'
  <2> USE <1>4 DEF ConnectDone, Added, Leave, Enter
  <2>1. TypeOK'
    BY DEF TypeOK, Operations, SessionStates, Section
  <2>2. Listed'
    BY DEF TypeOK, Listed, Unborn, Section
  <2>3. Holding'
    BY DEF TypeOK, Listed, Holding, Unborn, Section, Unheld
  <2>4. Unborn'
    BY DEF TypeOK, Unborn, Unheld
  <2>5. Section'
    BY DEF Section
  <2>6. Limits'
    <3>1. PICK s \in target : active' = Added(active, s)
      BY DEF Added
    <3> QED
      BY <3>1, LentGrows DEF Limits, TypeOK
  <2>7. Tracked'
    <3>1. PICK s \in target : all' = all \cup {s} /\ active' = Added(active, s)
      BY DEF Added
    <3>2. s \in Sessions /\ target = {s} /\ all \subseteq Sessions
      BY <3>1 DEF Section, TypeOK
    <3>3. ASSUME cancels = 0, NEW h \in Hosts
          PROVE  Cardinality(Pooled(h)') <= MaxPerHost
      <4>1. CASE h = HostOf[s]
        <5>1. Pooled(h)' = Pooled(h) \cup {s} /\ Pooled(h) \subseteq Sessions
          BY <3>1, <3>2, <4>1 DEF Pooled
        <5>2. Cardinality(Pooled(h)) < MaxPerHost
          BY <3>2, <3>3, <4>1 DEF Tracked
        <5> QED
          BY <3>2, <5>1, <5>2, OneMore, PoolAssumption
      <4>2. CASE h # HostOf[s]
        <5>1. Pooled(h)' = Pooled(h)
          BY <3>1, <4>2 DEF Pooled
        <5> QED
          BY <3>3, <5>1 DEF Tracked
      <4> QED
        BY <4>1, <4>2
    <3>4. cancels = 0 => \A r \in all' : active'[r] = 1 \/ idle'[r] = 1
      BY <3>1, <3>2 DEF Tracked, TypeOK, Listed, Unborn, Section
    <3> QED
      BY <3>3, <3>4 DEF Tracked, Pooled
  <2>8. Sockets'
    BY DEF Section, Unheld, Sockets
  <2> QED
    BY <2>1, <2>2, <2>3, <2>4, <2>5, <2>6, <2>7, <2>8
<1>5. ASSUME ConnectFails PROVE Inv'
  <2> USE <1>5 DEF ConnectFails, BeginClose, ToClose, Enter, lists
  <2>1. TypeOK'
    BY DEF TypeOK, Operations, SessionStates
  <2>2. Listed'
    BY DEF Listed
  <2>3. Holding'
    BY DEF TypeOK, Holding
  <2>4. Unborn'
    BY DEF Unborn, Unheld
  <2>5. Section'
    BY DEF TypeOK, Listed, Unborn, Section, Unheld
  <2>6. Limits' /\ Tracked'
    BY DEF Limits, Tracked, Lent, OfHost, Pooled
  <2>7. Sockets'
    BY DEF TypeOK, Section, Unheld, Sockets
  <2> QED
    BY <2>1, <2>2, <2>3, <2>4, <2>5, <2>6, <2>7
<1>6. ASSUME CallCancelled PROVE Inv'
  <2> USE <1>6, PoolAssumption DEF CallCancelled, Leave, Enter, lists
  <2>1. TypeOK'
    BY DEF TypeOK, Operations
  <2>2. Listed'
    BY DEF Listed
  <2>3. Holding'
    BY DEF Holding
  <2>4. Unborn'
    BY DEF Unborn, Unheld
  <2>5. Section'
    BY DEF Section
  <2>6. Limits' /\ Tracked'
    BY DEF Limits, Tracked, Lent, OfHost, TypeOK
  <2>7. Sockets'
    BY DEF TypeOK, Sockets
  <2> QED
    BY <2>1, <2>2, <2>3, <2>4, <2>5, <2>6, <2>7
<1> QED
  BY <1>1, <1>2, <1>3, <1>4, <1>5, <1>6

\* The steps of return_connection and of destroying a session keep it.
LEMMA ReturnSteps ==
  ASSUME Inv
  PROVE  /\ \A t \in Tasks, s \in Sessions : Return(t, s) => Inv'
         /\ \A s \in Sessions : CloseEnds(s) => Inv'
         /\ \A s \in Sessions : Discarded(s) => Inv'
         /\ Dropped => Inv'
<1> USE DEF Inv
<1>1. ASSUME NEW t \in Tasks, NEW s \in Sessions, Return(t, s) PROVE Inv'
  <2> USE <1>1 DEF Return, Healthy, Removed, Added, BeginClose, ToClose, Enter, sessions, section
  <2>1. TypeOK'
    BY DEF TypeOK, Operations, SessionStates
  <2>2. Listed'
    BY DEF Listed, Holding
  <2>3. Holding'
    BY DEF TypeOK, Holding
  <2>4. Unborn'
    BY DEF Unborn, Unheld
  <2>5. Section'
    BY DEF TypeOK, Holding, Section, Unheld
  <2>6. Limits'
    <3>1. \A r \in Sessions : active'[r] = 1 => active[r] = 1
      BY DEF TypeOK, Listed
    <3>2. target' \subseteq Sessions
      BY <2>1 DEF TypeOK
    <3> QED
      BY <3>1, <3>2, LentShrinks
  <2>7. Tracked'
    BY DEF Tracked, Pooled, Listed, Holding, TypeOK
  <2>8. Sockets'
    BY DEF TypeOK, Section, Unheld, Sockets
  <2> QED
    BY <2>1, <2>2, <2>3, <2>4, <2>5, <2>6, <2>7, <2>8
<1>2. ASSUME NEW s \in Sessions, CloseEnds(s) PROVE Inv'
  <2> USE <1>2 DEF CloseEnds, Closed, lists, section
  <2>1. TypeOK'
    BY DEF TypeOK, SessionStates
  <2>2. Listed'
    BY DEF Listed
  <2>3. Holding'
    BY DEF TypeOK, Holding
  <2>4. Unborn'
    BY DEF TypeOK, Unborn, Unheld
  <2>5. Section'
    BY DEF TypeOK, Section, Unheld
  <2>6. Limits' /\ Tracked'
    BY DEF Limits, Tracked, Lent, OfHost, Pooled
  <2>7. Sockets'
    BY DEF TypeOK, Unheld, Sockets
  <2> QED
    BY <2>1, <2>2, <2>3, <2>4, <2>5, <2>6, <2>7
<1>3. ASSUME NEW s \in Sessions, Discarded(s) PROVE Inv'
  <2> USE <1>3 DEF Discarded, Untracked, Removed, Fresh, Garbage, Enter
  <2>1. TypeOK'
    BY DEF TypeOK, Operations, SessionStates
  <2>2. Listed'
    BY DEF Listed
  <2>3. Holding'
    BY DEF TypeOK, Holding, Section, Unheld
  <2>4. Unborn'
    BY DEF Unborn, Unheld
  <2>5. Section'
    BY DEF Section
  <2>6. Limits'
    <3>1. \A r \in Sessions : active'[r] = 1 => active[r] = 1
      BY DEF TypeOK, Listed
    <3>2. target' \subseteq Sessions
      BY <2>1 DEF TypeOK
    <3>3. \A q \in target' : \E r \in target : HostOf[r] = HostOf[q]
      BY DEF Section
    <3> QED
      BY <3>1, <3>2, <3>3, LentShrinks
  <2>7. Tracked'
    <3>1. all' \subseteq all /\ cancels' = cancels
      OBVIOUS
    <3>2. PICK r \in target : target = {r}
      BY DEF Section
    <3>3. r \in Pooled(HostOf[s]) /\ HostOf[s] \in Hosts /\ Pooled(HostOf[s]) \subseteq Sessions
      BY <3>2, PoolAssumption DEF Pooled, Section, TypeOK
    <3>4. Pooled(HostOf[s])' \subseteq Pooled(HostOf[s]) \ {r}
      BY <3>2 DEF Pooled
    <3>5. cancels = 0 => Cardinality(Pooled(HostOf[s])') < MaxPerHost
      BY <3>1, <3>3, <3>4, OneLess, PoolShrinks, PoolAssumption DEF Tracked
    <3>6. cancels = 0 => \A h \in Hosts : Cardinality(Pooled(h)') <= MaxPerHost
      BY <3>1, PoolShrinks, PoolAssumption DEF Tracked
    <3>7. cancels = 0 => \A q \in all' : active'[q] = 1 \/ idle'[q] = 1
      BY DEF Tracked, TypeOK, Section
    <3> QED
      BY <3>1, <3>5, <3>6, <3>7 DEF Tracked, Pooled
  <2>8. Sockets'
    BY DEF TypeOK, Section, Unheld, Sockets
  <2> QED
    BY <2>1, <2>2, <2>3, <2>4, <2>5, <2>6, <2>7, <2>8
<1>4. ASSUME Dropped PROVE Inv'
  <2> USE <1>4 DEF Dropped, Untracked, Removed, Forget, Fresh, Garbage, Leave, Enter
  <2>1. TypeOK'
    BY DEF TypeOK, Operations, SessionStates
  <2>2. Listed'
    BY DEF Listed
  <2>3. Holding'
    BY DEF TypeOK, Holding, Section, Unheld
  <2>4. Unborn'
    BY DEF Unborn, Unheld
  <2>5. Section'
    BY DEF Section
  <2>6. Limits'
    <3>1. \A r \in Sessions : active'[r] = 1 => active[r] = 1
      BY DEF TypeOK, Listed
    <3>2. target' \subseteq Sessions
      BY <2>1 DEF TypeOK
    <3> QED
      BY <3>1, <3>2, LentShrinks
  <2>7. Tracked'
    <3>1. all' \subseteq all /\ cancels' = cancels
      OBVIOUS
    <3>2. cancels = 0 => \A h \in Hosts : Cardinality(Pooled(h)') <= MaxPerHost
      BY <3>1, PoolShrinks, PoolAssumption DEF Tracked
    <3>3. cancels = 0 => \A s \in all' : active'[s] = 1 \/ idle'[s] = 1
      BY DEF Tracked, TypeOK, Section
    <3> QED
      BY <3>1, <3>2, <3>3 DEF Tracked, Pooled
  <2>8. Sockets'
    BY DEF TypeOK, Section, Unheld, Sockets
  <2> QED
    BY <2>1, <2>2, <2>3, <2>4, <2>5, <2>6, <2>7, <2>8
<1> QED
  BY <1>1, <1>2, <1>3, <1>4

\* What callers do with their sessions, and what happens to them, keeps it.
LEMMA UseSteps ==
  ASSUME Inv
  PROVE  /\ \A t \in Tasks, s \in Sessions : SendFails(t, s) => Inv'
         /\ \A t \in Tasks, s \in Sessions : HolderCloses(t, s) => Inv'
         /\ \A s \in Sessions : PeerLost(s) \/ Degrades(s) => Inv'
<1> USE DEF Inv
<1>1. ASSUME NEW t \in Tasks, NEW s \in Sessions, SendFails(t, s) PROVE Inv'
  <2> USE <1>1 DEF SendFails, lists, section
  <2>1. TypeOK'
    BY DEF TypeOK, SessionStates
  <2>2. Listed'
    BY DEF Listed
  <2>3. Holding'
    BY DEF Holding
  <2>4. Unborn'
    BY DEF Unborn, Unheld
  <2>5. Section'
    BY DEF Section, Unheld
  <2>6. Limits' /\ Tracked'
    BY DEF Limits, Tracked, Lent, OfHost, Pooled
  <2>7. Sockets'
    BY DEF Unheld, Sockets
  <2> QED
    BY <2>1, <2>2, <2>3, <2>4, <2>5, <2>6, <2>7
<1>2. ASSUME NEW t \in Tasks, NEW s \in Sessions, HolderCloses(t, s) PROVE Inv'
  <2> USE <1>2 DEF HolderCloses, Closed, lists, section
  <2>1. TypeOK'
    BY DEF TypeOK, SessionStates
  <2>2. Listed'
    BY DEF Listed
  <2>3. Holding'
    BY DEF TypeOK, Holding
  <2>4. Unborn'
    BY DEF TypeOK, Unborn, Unheld
  <2>5. Section'
    BY DEF TypeOK, Section, Unheld
  <2>6. Limits' /\ Tracked'
    BY DEF Limits, Tracked, Lent, OfHost, Pooled
  <2>7. Sockets'
    BY DEF TypeOK, Unheld, Sockets
  <2> QED
    BY <2>1, <2>2, <2>3, <2>4, <2>5, <2>6, <2>7
<1>3. ASSUME NEW s \in Sessions, PeerLost(s) \/ Degrades(s) PROVE Inv'
  <2>0. /\ state[s] = "ACTIVE"
        /\ state' = [state EXCEPT ![s] = "WORN"]
        /\ UNCHANGED <<running, lists, socks, closing, held, bg, section, cancels>>
    BY <1>3 DEF PeerLost, Degrades
  <2> USE <2>0 DEF lists, section
  <2>1. TypeOK'
    BY DEF TypeOK, SessionStates
  <2>2. Listed'
    BY DEF Listed
  <2>3. Holding'
    BY DEF Holding
  <2>4. Unborn'
    BY DEF Unborn, Unheld
  <2>5. Section'
    BY DEF Section, Unheld
  <2>6. Limits' /\ Tracked'
    BY DEF Limits, Tracked, Lent, OfHost, Pooled
  <2>7. Sockets'
    BY DEF Unheld, Sockets
  <2> QED
    BY <2>1, <2>2, <2>3, <2>4, <2>5, <2>6, <2>7
<1> QED
  BY <1>1, <1>2, <1>3

\* The steps of start, stop and the background tasks keep it.
LEMMA TaskSteps ==
  ASSUME Inv
  PROVE  /\ Start => Inv'
         /\ \A k \in Background : Sweep(k) => Inv'
         /\ \A k \in Background : Swept(k) => Inv'
         /\ Stop => Inv'
         /\ \A k \in Background : TaskCancelled(k) => Inv'
         /\ StopTasksEnded => Inv'
         /\ Stopped => Inv'
<1> USE DEF Inv
<1>1. ASSUME Start PROVE Inv'
  <2> USE <1>1 DEF Start, lists, sessions, section
  <2>1. TypeOK'
    BY DEF TypeOK, TaskStates
  <2>2. Listed'
    BY DEF Listed
  <2>3. Holding'
    BY DEF Holding
  <2>4. Unborn'
    BY DEF Unborn, Unheld
  <2>5. Section'
    BY DEF Section
  <2>6. Limits' /\ Tracked'
    BY DEF Limits, Tracked, Lent, OfHost, Pooled
  <2>7. Sockets'
    BY DEF Unheld, Sockets
  <2> QED
    BY <2>1, <2>2, <2>3, <2>4, <2>5, <2>6, <2>7
<1>2. ASSUME NEW k \in Background, Sweep(k) PROVE Inv'
  <2> USE <1>2 DEF Sweep, Doomed, Idle, Healthy, BeginClose, ToClose, Enter
  <2>1. TypeOK'
    BY DEF TypeOK, Operations, SessionStates, TaskStates
  <2>2. Listed'
    BY DEF Listed
  <2>3. Holding'
    BY DEF TypeOK, Holding
  <2>4. Unborn'
    BY DEF Unborn, Unheld
  <2>5. Section'
    BY DEF Holding, Section, Unheld
  <2>6. Limits'
    BY DEF Limits, Lent, OfHost
  <2>7. Tracked'
    BY DEF Tracked, Pooled, Listed, Section, TypeOK
  <2>8. Sockets'
    BY DEF TypeOK, Holding, Section, Unheld, Sockets
  <2> QED
    BY <2>1, <2>2, <2>3, <2>4, <2>5, <2>6, <2>7, <2>8
<1>3. ASSUME NEW k \in Background, Swept(k) PROVE Inv'
  <2> USE <1>3 DEF Swept, Untracked, Removed, Forget, Fresh, Garbage, Leave, Enter
  <2>1. TypeOK'
    BY DEF TypeOK, Operations, SessionStates, TaskStates
  <2>2. Listed'
    BY DEF Listed
  <2>3. Holding'
    BY DEF TypeOK, Holding, Section, Unheld
  <2>4. Unborn'
    BY DEF Unborn, Unheld
  <2>5. Section'
    BY DEF Section
  <2>6. Limits'
    <3>1. \A r \in Sessions : active'[r] = 1 => active[r] = 1
      BY DEF TypeOK, Listed
    <3>2. target' \subseteq Sessions
      BY <2>1 DEF TypeOK
    <3> QED
      BY <3>1, <3>2, LentShrinks
  <2>7. Tracked'
    <3>1. all' \subseteq all /\ cancels' = cancels
      OBVIOUS
    <3>2. cancels = 0 => \A h \in Hosts : Cardinality(Pooled(h)') <= MaxPerHost
      BY <3>1, PoolShrinks, PoolAssumption DEF Tracked
    <3>3. cancels = 0 => \A s \in all' : active'[s] = 1 \/ idle'[s] = 1
      BY DEF Tracked, TypeOK, Section
    <3> QED
      BY <3>1, <3>2, <3>3 DEF Tracked, Pooled
  <2>8. Sockets'
    BY DEF TypeOK, Section, Unheld, Sockets
  <2> QED
    BY <2>1, <2>2, <2>3, <2>4, <2>5, <2>6, <2>7, <2>8
<1>4. ASSUME Stop PROVE Inv'
  <2> USE <1>4 DEF Stop, Enter, lists, sessions
  <2>1. TypeOK'
    BY DEF TypeOK, Operations, TaskStates, Section
  <2>2. Listed'
    BY DEF Listed
  <2>3. Holding'
    BY DEF Holding
  <2>4. Unborn'
    BY DEF Unborn, Unheld
  <2>5. Section'
    BY DEF Section
  <2>6. Limits' /\ Tracked'
    BY DEF Limits, Tracked, Lent, OfHost, Pooled
  <2>7. Sockets'
    BY DEF Unheld, Sockets
  <2> QED
    BY <2>1, <2>2, <2>3, <2>4, <2>5, <2>6, <2>7
<1>5. ASSUME NEW k \in Background, TaskCancelled(k) PROVE Inv'
  <2> USE <1>5 DEF TaskCancelled, lists, sessions, section
  <2>1. TypeOK'
    BY DEF TypeOK, TaskStates
  <2>2. Listed'
    BY DEF Listed
  <2>3. Holding'
    BY DEF Holding
  <2>4. Unborn'
    BY DEF Unborn, Unheld
  <2>5. Section'
    BY DEF Section, Unheld
  <2>6. Limits' /\ Tracked'
    BY DEF Limits, Tracked, Lent, OfHost, Pooled
  <2>7. Sockets'
    BY DEF Unheld, Sockets
  <2> QED
    BY <2>1, <2>2, <2>3, <2>4, <2>5, <2>6, <2>7
<1>6. ASSUME StopTasksEnded PROVE Inv'
  <2> USE <1>6 DEF StopTasksEnded, BeginClose, ToClose, Enter, lists
  <2>1. TypeOK'
    BY DEF TypeOK, Operations, SessionStates
  <2>2. Listed'
    BY DEF Listed
  <2>3. Holding'
    BY DEF TypeOK, Holding
  <2>4. Unborn'
    BY DEF Unborn, Unheld
  <2>5. Section'
    BY DEF TypeOK, Section
  <2>6. Limits'
    BY DEF Limits, Lent, OfHost
  <2>7. Tracked'
    BY DEF Tracked, Pooled
  <2>8. Sockets'
    BY DEF TypeOK, Section, Unheld, Sockets
  <2> QED
    BY <2>1, <2>2, <2>3, <2>4, <2>5, <2>6, <2>7, <2>8
<1>7. ASSUME Stopped PROVE Inv'
  <2> USE <1>7 DEF Stopped, Forget, Fresh, Garbage, Leave, Enter
  <2>1. TypeOK'
    BY DEF TypeOK, Operations, SessionStates
  <2>2. Listed'
    BY DEF Listed
  <2>3. Holding'
    BY DEF TypeOK, Holding, Section
  <2>4. Unborn'
    BY DEF Unborn, Unheld
  <2>5. Section'
    BY DEF Section
  <2>6. Limits'
    <3>1. \A r \in Sessions : active'[r] = 1 => active[r] = 1
      BY DEF TypeOK, Listed
    <3>2. target' \subseteq Sessions
      BY <2>1 DEF TypeOK
    <3> QED
      BY <3>1, <3>2, LentShrinks
  <2>7. Tracked'
    <3>1. all' \subseteq all /\ cancels' = cancels
      OBVIOUS
    <3>2. cancels = 0 => \A h \in Hosts : Cardinality(Pooled(h)') <= MaxPerHost
      BY <3>1, PoolShrinks, PoolAssumption DEF Tracked
    <3>3. cancels = 0 => \A s \in all' : active'[s] = 1 \/ idle'[s] = 1
      BY DEF Tracked, TypeOK, Section
    <3> QED
      BY <3>1, <3>2, <3>3 DEF Tracked, Pooled
  <2>8. Sockets'
    BY DEF TypeOK, Section, Unheld, Sockets
  <2> QED
    BY <2>1, <2>2, <2>3, <2>4, <2>5, <2>6, <2>7, <2>8
<1> QED
  BY <1>1, <1>2, <1>3, <1>4, <1>5, <1>6, <1>7

\* The initial state satisfies the invariant.
LEMMA InitInv == Init => Inv
<1> SUFFICES ASSUME Init PROVE Inv
  OBVIOUS
<1> USE DEF Init
<1>1. TypeOK
  <2>1. cancels \in 0..MaxCancels
    BY PoolAssumption
  <2>2. active \in [Sessions -> Nat] /\ idle \in [Sessions -> Nat]
    OBVIOUS
  <2>3. running \in BOOLEAN /\ bg \in [Background -> TaskStates]
    BY DEF TaskStates
  <2> QED
    BY <2>1, <2>2, <2>3 DEF TypeOK, SessionStates, Operations
<1>2. Listed /\ Holding /\ Unborn /\ Section /\ Sockets
  BY DEF Listed, Holding, Unborn, Unheld, Section, Sockets
<1>3. \A S \in SUBSET Sessions : Lent(S) = {}
  BY DEF Lent
<1>4. \A h \in Hosts : OfHost(h) \in SUBSET Sessions /\ Pooled(h) = {}
  BY DEF OfHost, Pooled
<1>5. Limits /\ Tracked
  BY <1>3, <1>4, FS_EmptySet, PoolAssumption DEF Limits, Tracked
<1> QED
  BY <1>1, <1>2, <1>5 DEF Inv

\* A step that changes nothing keeps the invariant.
LEMMA StutterInv == Inv /\ UNCHANGED vars => Inv'
<1> SUFFICES ASSUME Inv, UNCHANGED vars PROVE Inv'
  OBVIOUS
<1>1. TypeOK' /\ Listed' /\ Holding' /\ Unborn' /\ Section' /\ Sockets'
  BY DEF Inv, vars, TypeOK, Listed, Holding, Unborn, Unheld, Section, Sockets
<1>2. Limits' /\ Tracked'
  BY DEF Inv, vars, Limits, Tracked, Lent, OfHost, Pooled
<1> QED
  BY <1>1, <1>2 DEF Inv

\* Every step keeps the invariant.
LEMMA NextInv == Inv /\ [Next]_vars => Inv'
BY BorrowSteps, ReturnSteps, UseSteps, TaskSteps, StutterInv
   DEF Next, Borrow, Proceed

\* The invariant holds throughout.
LEMMA InvHolds == Spec => []Inv
BY InitInv, NextInv, PTL DEF Spec

-----------------------------------------------------------------------------
(***************************************************************************)
(* The properties.                                                         *)
(***************************************************************************)

\* The pool's lists and the sessions keep their types.
THEOREM TypeCorrect == Spec => []TypeOK
<1>1. Inv => TypeOK
  BY DEF Inv
<1> QED
  BY <1>1, InvHolds, PTL

\* borrow_connection, return_connection and the background tasks never let two
\* callers share a session, nor lend or expire one that is in use, for callers
\* that return a session once.
THEOREM ExclusiveUseSafe == Spec => []ExclusiveUse
<1>1. Inv => ExclusiveUse
  BY DEF Inv, Holding, ExclusiveUse
<1> QED
  BY <1>1, InvHolds, PTL

\* borrow_connection, although it suspends in connect() after it has tested the
\* limits, never lends more sessions than max_connections.
THEOREM LentWithinLimitSafe == Spec => []LentWithinLimit
<1>1. ASSUME Inv PROVE LentWithinLimit
  <2> DEFINE L == {s \in all : \E t \in Tasks : s \in held[t]}
  <2>1. L \subseteq Lent(Sessions) /\ Lent(Sessions) \subseteq Sessions
    BY <1>1 DEF Inv, TypeOK, Holding, Lent
  <2>2. Cardinality(Lent(Sessions)) <= MaxConnections
    BY <1>1 DEF Inv, Limits
  <2> QED
    BY <2>1, <2>2, Fewer, PoolAssumption DEF LentWithinLimit
<1> QED
  BY <1>1, InvHolds, PTL

\* Without cancelled calls the pool never has more sessions of a host, idle
\* ones included, than max_connections_per_host.
THEOREM HostWithinLimitSafe == Spec => []HostWithinLimit
<1>1. Inv => HostWithinLimit
  BY DEF Inv, Tracked, Pooled, HostWithinLimit
<1> QED
  BY <1>1, InvHolds, PTL

\* Without cancelled calls stop() leaves no connection open but those whose
\* close() failed, whoever held them.
THEOREM StopClosesAllSafe == Spec => []StopClosesAll
<1>1. Inv => StopClosesAll
  BY DEF Inv, Sockets, StopClosesAll
<1> QED
  BY <1>1, InvHolds, PTL
=============================================================================
