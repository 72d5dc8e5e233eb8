------------------------ MODULE TunnelRegistryProofs ------------------------
(***************************************************************************)
(* Proofs about TunnelRegistry, for any tunnels, URLs and clients, and any *)
(* size of the affinity cache: the registry, the tunnels and the listening *)
(* ports agree, Del only ever takes a URL from its owner, and the cache    *)
(* that all managers share stays consistent.                               *)
(***************************************************************************)
EXTENDS TunnelRegistry, Sequences, TLAPS

\* The cache once more, with what LRUCacheProofs proves of it.
Lib == INSTANCE LRUCacheProofs
    WITH Keys <- CacheKeys, Values <- Urls, ValueSize <- UrlSize,
         Capacity <- CacheCapacity, Width <- CacheWidth

\* What NewTunnel has in its hands when it registers: a name that was asked
\* for, a random one that is not yet in Tunnel.url, or a port bound for it.
Given(t) ==
    \/ req[t] \in HttpUrls /\ cand[t] = req[t] /\ url[t] = req[t]
    \/ req[t] = "http" /\ cand[t] \in HttpUrls /\ url[t] = NoUrl
    \/ req[t] \in Ports \cup {"tcp"} /\ cand[t] \in Ports /\ url[t] = cand[t]

\* How the locals of NewTunnel go with the stage it has reached.
Shape ==
    \A t \in Tunnels :
        /\ pc[t] = "new" => url[t] = NoUrl
        /\ pc[t] \in {"idKey", "ipKey"} => req[t] \in Requests /\ url[t] = NoUrl
        /\ pc[t] = "bind" => req[t] \in Ports \cup {"tcp"} /\ cand[t] \in Ports \cup {NoUrl}
        /\ pc[t] \in {"register", "cacheIp", "cacheId", "assign"} => Given(t)
        /\ pc[t] \in {"cacheIp", "cacheId", "assign"} =>
              tunnels[cand[t]] = t /\ req[t] \notin HttpUrls
        /\ pc[t] = "assign" => req[t] = "http"
        /\ pc[t] \in {"open", "closing"} => url[t] \in Urls

\* A cache key names the protocol of the URL cached under it.
Cached == {x \in CacheKeys \X Urls : x[1][2] = "tcp" <=> x[2] \in Ports}

CacheInv == Lib!LRUInv /\ Lib!Holds(Cached)

RInv == TypeOK /\ CacheInv /\ Shape /\ RegistryAgrees

-----------------------------------------------------------------------------
(* The constants *)

\* What TunnelRegistry assumes of them.
Assumptions == /\ Owner \in [Tunnels -> Ctls] /\ NoTunnel \notin Tunnels /\ IdOf \in [Ctls -> Ids]
               /\ MaxAttempts \in Nat /\ MaxAttempts > 1 /\ MaxReopens \in Nat
               /\ NoUrl \notin Urls /\ HttpUrls \cap Ports = {} /\ Requests \cap Urls = {}

LEMMA Assumed == Assumptions
  BY OwnerAssumption, IdAssumption, AttemptsAssumption, ReopensAssumption, UrlAssumption,
     RequestAssumption DEF Assumptions, Urls

-----------------------------------------------------------------------------
(* The affinity cache *)

\* The two instances have the same definitions.
LEMMA SameParts ==
    /\ Affinity!SizesFit = Lib!SizesFit
    /\ \A l : Affinity!Total(l) = Lib!Total(l)
    /\ \A l : Affinity!KeysOf(l) = Lib!KeysOf(l)
    /\ \A c, k : Affinity!Find(c, k) = Lib!Find(c, k)
    /\ \A c, k : Affinity!Others(c, k) = Lib!Others(c, k)
    /\ Affinity!EmptyCache = Lib!EmptyCache /\ Affinity!NoFile = Lib!NoFile
<1>1. Affinity!SizesFit = Lib!SizesFit
    BY DEF Affinity!SizesFit, Lib!SizesFit
<1>2. \A l : Affinity!Total(l) = Lib!Total(l)
    BY DEF Affinity!Total, Lib!Total
<1>3. \A l : Affinity!KeysOf(l) = Lib!KeysOf(l)
    BY DEF Affinity!KeysOf, Lib!KeysOf
<1>4. \A c, k : Affinity!Find(c, k) = Lib!Find(c, k)
    BY DEF Affinity!Find, Lib!Find, Affinity!Place, Lib!Place
<1>5. \A c, k : Affinity!Others(c, k) = Lib!Others(c, k)
    BY DEF Affinity!Others, Lib!Others, Affinity!Place, Lib!Place,
           Affinity!RemoveAt, Lib!RemoveAt
<1>6. Affinity!EmptyCache = Lib!EmptyCache /\ Affinity!NoFile = Lib!NoFile
    BY DEF Affinity!EmptyCache, Lib!EmptyCache, Affinity!NoFile, Lib!NoFile
<1>7. QED
    BY <1>1, <1>2, <1>3, <1>4, <1>5, <1>6

\* So have the operators that are built from these.
LEMMA SameSet ==
    /\ \A c, k, v : Affinity!AfterSet(c, k, v) = Lib!AfterSet(c, k, v)
    /\ \A items : Affinity!LoadedCache(items) = Lib!LoadedCache(items)
<1>1. \A c, n : Affinity!SizeWithout(c, n) = Lib!SizeWithout(c, n)
    BY DEF Affinity!SizeWithout, Lib!SizeWithout, Affinity!Total, Lib!Total
<1>2. \A c : Affinity!CheckCapacity(c) = Lib!CheckCapacity(c)
    BY DEF Affinity!CheckCapacity, Lib!CheckCapacity, Affinity!FitsWithout, Lib!FitsWithout,
           Affinity!SizeWithout, Lib!SizeWithout, Affinity!KeysOf, Lib!KeysOf,
           Affinity!Total, Lib!Total
<1>3. \A c, k, v : Affinity!AfterSet(c, k, v) = Lib!AfterSet(c, k, v)
    BY DEF Affinity!AfterSet, Lib!AfterSet, Affinity!NewEntry, Lib!NewEntry,
           Affinity!Others, Lib!Others, Affinity!Place, Lib!Place,
           Affinity!SizeDiff, Lib!SizeDiff, Affinity!Find, Lib!Find,
           Affinity!RemoveAt, Lib!RemoveAt,
           Affinity!CheckCapacity, Lib!CheckCapacity, Affinity!FitsWithout, Lib!FitsWithout,
           Affinity!SizeWithout, Lib!SizeWithout, Affinity!KeysOf, Lib!KeysOf,
           Affinity!Total, Lib!Total
<1>4. \A items : Affinity!LoadedCache(items) = Lib!LoadedCache(items)
    <2> SUFFICES ASSUME NEW items PROVE Affinity!LoadedCache(items) = Lib!LoadedCache(items)
        OBVIOUS
    <2> DEFINE N == Len(items)
               A(f, n) == IF n = 0 THEN Affinity!EmptyCache
                          ELSE Affinity!AfterSet(f[n - 1], items[n][1], items[n][2])
               L(f, n) == IF n = 0 THEN Lib!EmptyCache
                          ELSE Lib!AfterSet(f[n - 1], items[n][1], items[n][2])
    <2>1. Affinity!LoadedCache(items) = (CHOOSE f : f = [n \in 0..N |-> A(f, n)])[N]
        BY DEF Affinity!LoadedCache
    <2>2. Lib!LoadedCache(items) = (CHOOSE f : f = [n \in 0..N |-> L(f, n)])[N]
        BY DEF Lib!LoadedCache
    <2>3. \A f, n : A(f, n) = L(f, n)
        BY <1>3, SameParts
    <2> HIDE DEF N, A, L
    <2>4. \A f : [n \in 0..N |-> A(f, n)] = [n \in 0..N |-> L(f, n)]
        BY <2>3
    <2>5. (CHOOSE f : f = [n \in 0..N |-> A(f, n)]) = (CHOOSE f : f = [n \in 0..N |-> L(f, n)])
        BY <2>4, Zenon
    <2>6. QED
        BY <2>1, <2>2, <2>5
<1>5. QED
    BY <1>3, <1>4

\* So have the operations of the cache,
LEMMA SameActions ==
    /\ Affinity!Init = Lib!Init
    /\ Affinity!TypeOK = Lib!TypeOK
    /\ \A k, v : Affinity!Set(k, v) = Lib!Set(k, v)
    /\ \A k : Affinity!Get(k) = Lib!Get(k)
    /\ Affinity!SaveBegin = Lib!SaveBegin /\ Affinity!SaveEnd = Lib!SaveEnd
    /\ Affinity!Reload = Lib!Reload
<1>1. Affinity!Init = Lib!Init
    BY SameParts DEF Affinity!Init, Lib!Init
<1>2. Affinity!TypeOK = Lib!TypeOK
    BY DEF Affinity!TypeOK, Lib!TypeOK
<1>3. \A k, v : Affinity!Set(k, v) = Lib!Set(k, v)
    BY SameSet DEF Affinity!Set, Lib!Set
<1>4. \A k : Affinity!Get(k) = Lib!Get(k)
    BY SameParts DEF Affinity!Get, Lib!Get, Affinity!AfterGet, Lib!AfterGet
<1>5. Affinity!SaveBegin = Lib!SaveBegin /\ Affinity!SaveEnd = Lib!SaveEnd
    BY SameParts DEF Affinity!SaveBegin, Lib!SaveBegin, Affinity!SaveEnd, Lib!SaveEnd
<1>6. Affinity!Reload = Lib!Reload
    BY SameParts, SameSet DEF Affinity!Reload, Lib!Reload
<1>7. QED
    BY <1>1, <1>2, <1>3, <1>4, <1>5, <1>6

\* and what is asked of them.
LEMMA SameStep == Affinity!CacheStep = Lib!CacheStep /\ Affinity!TypeOK' = Lib!TypeOK'
<1>1. Affinity!CacheConsistent' = Lib!CacheConsistent'
    BY SameParts DEF Affinity!CacheConsistent, Lib!CacheConsistent,
       Affinity!IsInjective, Lib!IsInjective
<1>2. Affinity!EvictsLeastRecent = Lib!EvictsLeastRecent
    BY SameParts, SameActions DEF Affinity!EvictsLeastRecent, Lib!EvictsLeastRecent
<1>3. Affinity!ReloadKeepsItems = Lib!ReloadKeepsItems
    BY SameActions DEF Affinity!ReloadKeepsItems, Lib!ReloadKeepsItems,
       Affinity!ToSet, Lib!ToSet
<1>4. Affinity!TypeOK' = Lib!TypeOK'
    BY DEF Affinity!TypeOK, Lib!TypeOK
<1>5. QED
    BY <1>1, <1>2, <1>3, <1>4 DEF Affinity!CacheStep, Lib!CacheStep

\* cacheKeys makes keys that name the protocol.
LEMMA KeysAreTyped ==
    ASSUME TypeOK, NEW t \in Tunnels, NEW kind \in {"ip", "id"}
    PROVE  /\ CacheKey(kind, t) \in CacheKeys
           /\ CacheKey(kind, t)[2] = "tcp" <=> req[t] \in Ports \cup {"tcp"}
  BY Assumed DEF Assumptions, CacheKey, CacheKeys, Requests, TypeOK

\* Whatever a step does to the cache is one of its operations, and what it puts
\* there is of the protocol that the key names.
LEMMA CacheOperation ==
    ASSUME RInv, Next
    PROVE  UNCHANGED <<lru, file>> \/ Lib!OperationIn(Cached)
<1>0. TypeOK /\ Shape
    BY DEF RInv
<1>1. ASSUME NEW t \in Tunnels, NEW kind \in {"id", "ip"}, LookUp(t, kind)
      PROVE  Lib!OperationIn(Cached)
    <2>1. Affinity!Get(CacheKey(kind, t)) /\ CacheKey(kind, t) \in CacheKeys
        BY <1>0, <1>1, KeysAreTyped DEF LookUp
    <2>2. QED
        BY <2>1, SameActions DEF Lib!OperationIn
<1>2. ASSUME NEW t \in Tunnels, NEW kind \in {"id", "ip"}, Cache(t, kind)
      PROVE  Lib!OperationIn(Cached)
    <2>1. Affinity!Set(CacheKey(kind, t), cand[t]) /\ pc[t] \in {"cacheIp", "cacheId"}
        BY <1>2 DEF Cache
    <2>2. CacheKey(kind, t) \in CacheKeys
          /\ (CacheKey(kind, t)[2] = "tcp" <=> req[t] \in Ports \cup {"tcp"})
        BY <1>0, KeysAreTyped
    <2>3. cand[t] \in Urls /\ (req[t] \in Ports \cup {"tcp"} <=> cand[t] \in Ports)
        BY <1>0, <2>1, Assumed DEF Shape, Given, Assumptions, Urls, Requests
    <2>4. <<CacheKey(kind, t), cand[t]>> \in Cached
        BY <2>2, <2>3 DEF Cached
    <2>5. QED
        BY <2>1, <2>2, <2>3, <2>4, SameActions DEF Lib!OperationIn
<1>3. ASSUME Save PROVE Lib!OperationIn(Cached)
    BY <1>3, SameActions DEF Save, Lib!OperationIn
<1>4. ASSUME Restart PROVE Lib!OperationIn(Cached)
    BY <1>4, SameActions, SameParts DEF Restart, Lib!OperationIn
<1>5. ASSUME NEW t \in Tunnels,
             \/ \E r \in Requests \cup Urls : Start(t, r)
             \/ \E p \in Ports : Bind(t, p)
             \/ BindFails(t) \/ Registered(t) \/ HostTaken(t) \/ PortTaken(t) \/ Assign(t)
             \/ CloseListener(t) \/ Unlist(t)
      PROVE  UNCHANGED <<lru, file>>
    BY <1>5 DEF Start, Bind, BindFails, Registered, HostTaken, PortTaken, Assign,
                CloseListener, Unlist
<1>6. ASSUME NEW c \in Ctls, ManagerStops(c) \/ Replaced(c) PROVE UNCHANGED <<lru, file>>
    BY <1>6 DEF ManagerStops, Replaced
<1>7. QED
    BY <1>1, <1>2, <1>3, <1>4, <1>5, <1>6 DEF Next, Manager

\* So the cache keeps its invariant, and does what is asked of it.
LEMMA CacheKeeps ==
    ASSUME RInv, [Next]_vars
    PROVE  /\ CacheInv' /\ Affinity!TypeOK'
           /\ [Affinity!CacheStep]_<<lru, file>>
<1>0. Lib!SizesFit /\ Lib!LRUInv /\ Lib!Holds(Cached) /\ Affinity!TypeOK
    BY SizeAssumption, SameParts DEF RInv, CacheInv, TypeOK
<1>1. CASE UNCHANGED <<lru, file>>
    <2>1. CacheInv'
        BY <1>0, <1>1 DEF CacheInv, Lib!LRUInv, Lib!Holds
    <2>2. Affinity!TypeOK'
        BY <1>0, <1>1 DEF Affinity!TypeOK
    <2>3. QED
        BY <1>1, <2>1, <2>2
<1>2. CASE Lib!OperationIn(Cached)
    <2>1. Lib!Operation
        BY <1>2 DEF Lib!OperationIn, Lib!Operation
    <2>2. Lib!LRUInv' /\ Lib!CacheStep
        BY <1>0, <2>1, Lib!InvStep
    <2>3. Lib!Holds(Cached)'
        BY <1>0, <1>2, Lib!HoldsStep
    <2>4. Lib!TypeOK'
        BY <1>0, <2>2, Lib!InvTyped
    <2>5. QED
        BY <2>2, <2>3, <2>4, SameActions, SameStep DEF CacheInv
<1>3. QED
    BY <1>1, <1>2, CacheOperation DEF vars

-----------------------------------------------------------------------------
(* The registry *)

\* What the affinity cache finds is a URL of the protocol looked for.
LEMMA Found ==
    ASSUME RInv, NEW t \in Tunnels, NEW kind \in {"id", "ip"}, CacheKey(kind, t) \in lru.table
    PROVE  /\ Affinity!Find(lru, CacheKey(kind, t)).value \in Urls
           /\ req[t] \in Ports \cup {"tcp"} <=>
                 Affinity!Find(lru, CacheKey(kind, t)).value \in Ports
<1> DEFINE k == CacheKey(kind, t)
<1>1. k[2] = "tcp" <=> req[t] \in Ports \cup {"tcp"}
    BY KeysAreTyped DEF RInv
<1> HIDE DEF k
<1>2. <<k, Lib!Find(lru, k).value>> \in Cached /\ Lib!Find(lru, k).value \in Urls
    BY Lib!FoundIsHeld DEF RInv, CacheInv, k
<1>3. Lib!Find(lru, k) = Affinity!Find(lru, k)
    BY SameParts
<1>4. QED
    BY <1>1, <1>2, <1>3 DEF Cached, k

\* So GetCachedRegistration, or what NewTunnel falls back on, gives a URL to
\* register or a port to bind.
Outcome(t) ==
    \/ pc' = [pc EXCEPT ![t] = "ipKey"] /\ cand' = cand
    \/ /\ pc' = [pc EXCEPT ![t] = "bind"] /\ req[t] = "tcp"
       /\ \E u \in Ports \cup {NoUrl} : cand' = [cand EXCEPT ![t] = u]
    \/ /\ pc' = [pc EXCEPT ![t] = "register"] /\ req[t] = "http"
       /\ \E u \in HttpUrls : cand' = [cand EXCEPT ![t] = u]

\* LookUp has one of these outcomes.
LEMMA LookedUp ==
    ASSUME RInv, NEW t \in Tunnels, NEW kind \in {"id", "ip"}, LookUp(t, kind)
    PROVE  /\ UNCHANGED <<tunnels, req, url, listening>> /\ Outcome(t)
           /\ req[t] \in Requests /\ url[t] = NoUrl
<1> DEFINE k == CacheKey(kind, t)
           found == IF k \in lru.table THEN {Affinity!Find(lru, k).value} ELSE AnotherUrl(t)
<1>1. req[t] \in Requests /\ url[t] = NoUrl
    BY DEF RInv, Shape, LookUp
<1>2. UNCHANGED <<tunnels, req, url, listening>>
    BY DEF LookUp
<1>3. found \subseteq IF req[t] = "tcp" THEN Ports \cup {NoUrl} ELSE HttpUrls
    <2>1. ("tcp" \in Ports \cup {"tcp"}) /\ ("http" \notin Ports \cup {"tcp"})
        BY Assumed DEF Assumptions, Requests, Urls
    <2>2. req[t] = "tcp" \/ req[t] = "http"
        BY <1>1 DEF Requests
    <2>3. AnotherUrl(t) \subseteq IF req[t] = "tcp" THEN Ports \cup {NoUrl} ELSE HttpUrls
        BY <2>2 DEF AnotherUrl
    <2>4. ASSUME k \in lru.table
          PROVE  Affinity!Find(lru, k).value \in IF req[t] = "tcp" THEN Ports ELSE HttpUrls
        <3>1. /\ Affinity!Find(lru, k).value \in Urls
              /\ req[t] \in Ports \cup {"tcp"} <=> Affinity!Find(lru, k).value \in Ports
            BY <2>4, Found
        <3> HIDE DEF k
        <3>2. QED
            BY <2>1, <2>2, <3>1 DEF Urls
    <2> HIDE DEF k
    <2>5. QED
        BY <2>2, <2>3, <2>4
<1>4. \/ pc' = [pc EXCEPT ![t] = "ipKey"] /\ cand' = cand
      \/ /\ pc' = [pc EXCEPT ![t] = IF req[t] = "tcp" THEN "bind" ELSE "register"]
         /\ \E u \in found : cand' = [cand EXCEPT ![t] = u]
    BY DEF LookUp, Continue, Goto
<1> HIDE DEF found
<1>5. Outcome(t)
    <2>1. req[t] = "tcp" \/ req[t] = "http"
        BY <1>1 DEF Requests
    <2>2. QED
        BY <1>3, <1>4, <2>1 DEF Outcome
<1>6. QED
    BY <1>1, <1>2, <1>5

\* Every step keeps the types.
LEMMA TypeKept ==
    ASSUME RInv, [Next]_vars
    PROVE  TypeOK'
<1> USE Assumed DEF Assumptions, Urls, Requests
<1>0. TypeOK /\ Shape
    BY DEF RInv, RegistryAgrees
<1>a. Affinity!TypeOK'
    BY CacheKeeps
<1> USE <1>0, <1>a DEF TypeOK, NewStages, envVars
<1>1. ASSUME NEW t \in Tunnels, NEW r \in Requests \cup Urls, Start(t, r) PROVE TypeOK'
    BY <1>1 DEF Start, Goto
<1>2. ASSUME NEW t \in Tunnels, NEW kind \in {"id", "ip"}, LookUp(t, kind) PROVE TypeOK'
    <2>1. Affinity!TypeOK' /\ cand' \in [Tunnels -> Urls \cup {NoUrl}]
        <3>1. ASSUME NEW u \in IF CacheKey(kind, t) \in lru.table
                               THEN {Affinity!Find(lru, CacheKey(kind, t)).value} ELSE AnotherUrl(t)
              PROVE  u \in Urls \cup {NoUrl}
            BY <3>1, Found DEF AnotherUrl
        <3>2. QED
            BY <1>2, <3>1, CacheKeeps DEF LookUp, Continue
    <2>2. QED
        BY <1>2, <2>1 DEF LookUp, Goto, Continue
<1>3. ASSUME NEW t \in Tunnels, NEW p \in Ports, Bind(t, p) PROVE TypeOK'
    BY <1>3 DEF Bind, Goto
<1>4. ASSUME NEW t \in Tunnels, BindFails(t) PROVE TypeOK'
    BY <1>4 DEF BindFails, RetryBind, Return, Goto
<1>5. ASSUME NEW t \in Tunnels, Registered(t) PROVE TypeOK'
    <2>1. TypeOK' <=>
              /\ tunnels' \in [Urls -> Tunnels \cup {NoTunnel}]
              /\ pc' \in [Tunnels -> NewStages \cup {"new", "failed", "open", "closing", "closed"}]
              /\ cand' \in [Tunnels -> Urls \cup {NoUrl}]
              /\ tries' \in [Tunnels -> 0..(MaxAttempts - 1)]
        BY <1>5 DEF Registered
    <2>2. tunnels' \in [Urls -> Tunnels \cup {NoTunnel}]
        BY <1>5 DEF Registered, Register
    <2>3. CASE req[t] \in HttpUrls
        BY <1>5, <2>1, <2>2, <2>3 DEF Registered, Return, Goto
    <2>4. CASE req[t] \notin HttpUrls
        BY <1>5, <2>1, <2>2, <2>4 DEF Registered, Continue, Goto
    <2>5. QED
        BY <2>3, <2>4
<1>6. ASSUME NEW t \in Tunnels, HostTaken(t) PROVE TypeOK'
    BY <1>6 DEF HostTaken, LastAttempt, Return, Goto
<1>7. ASSUME NEW t \in Tunnels, PortTaken(t) PROVE TypeOK'
    BY <1>7 DEF PortTaken, ListenerClosed, RetryBind, Return, Goto
<1>8. ASSUME NEW t \in Tunnels, NEW kind \in {"id", "ip"}, Cache(t, kind) PROVE TypeOK'
    BY <1>8 DEF Cache, Return, Continue, Goto
<1>9. ASSUME NEW t \in Tunnels, Assign(t) PROVE TypeOK'
    BY <1>9 DEF Assign, Return, Goto
<1>10. ASSUME NEW t \in Tunnels, CloseListener(t) PROVE TypeOK'
    BY <1>10 DEF CloseListener, ListenerClosed, Goto
<1>11. ASSUME NEW t \in Tunnels, Unlist(t) PROVE TypeOK'
    BY <1>11 DEF Unlist, Unregister, Goto
<1>12. ASSUME NEW c \in Ctls, ManagerStops(c) PROVE TypeOK'
    BY <1>12 DEF ManagerStops, openVars
<1>13. ASSUME NEW c \in Ctls, Replaced(c) PROVE TypeOK'
    BY <1>13 DEF Replaced, openVars
<1>14. ASSUME Save PROVE TypeOK'
    BY <1>14 DEF Save, openVars
<1>15. ASSUME Restart PROVE TypeOK'
    <2>1. /\ tunnels' \in [Urls -> Tunnels \cup {NoTunnel}]
          /\ listening' \in [Ports -> Tunnels \cup {NoTunnel}]
        BY <1>15 DEF Restart, Everywhere
    <2>2. pc' \in [Tunnels -> NewStages \cup {"new", "failed", "open", "closing", "closed"}]
        BY <1>15 DEF Restart, Everywhere
    <2>3. /\ req' \in [Tunnels -> Requests \cup Urls]
          /\ url' \in [Tunnels -> Urls \cup {NoUrl}]
          /\ cand' \in [Tunnels -> Urls \cup {NoUrl}]
        BY <1>15 DEF Restart, Everywhere
    <2>4. tries' \in [Tunnels -> 0..(MaxAttempts - 1)]
        BY <1>15 DEF Restart, Everywhere
    <2>5. blank' = {} /\ down' = {} /\ saving' = FALSE /\ restarts' \in 0..MaxReopens
        BY <1>15 DEF Restart
    <2>6. QED
        BY <2>1, <2>2, <2>3, <2>4, <2>5
<1>16. CASE UNCHANGED vars
    BY <1>16 DEF vars, openVars
<1>17. QED
    BY <1>1, <1>2, <1>3, <1>4, <1>5, <1>6, <1>7, <1>8, <1>9, <1>10, <1>11, <1>12,
       <1>13, <1>14, <1>15, <1>16 DEF Next, Manager

\* Every step keeps the locals of NewTunnel in shape.
LEMMA ShapeKept ==
    ASSUME RInv, [Next]_vars
    PROVE  Shape'
<1> USE Assumed DEF Assumptions, Urls, Requests
<1>0. TypeOK /\ Shape /\ EntriesMatch
    BY DEF RInv, RegistryAgrees
<1> USE <1>0 DEF TypeOK, NewStages, envVars, Shape, Given, EntriesMatch
<1>1. ASSUME NEW t \in Tunnels, NEW r \in Requests \cup Urls, Start(t, r) PROVE Shape'
    BY <1>1 DEF Start, Goto
<1>2. ASSUME NEW t \in Tunnels, NEW kind \in {"id", "ip"}, LookUp(t, kind) PROVE Shape'
    <2>1. UNCHANGED <<tunnels, req, url, listening>> /\ Outcome(t)
        BY <1>2, LookedUp
    <2>2. req[t] \in Requests /\ url[t] = NoUrl
        BY <1>2, LookedUp
    <2>3. CASE pc' = [pc EXCEPT ![t] = "ipKey"] /\ cand' = cand
        BY <2>1, <2>2, <2>3
    <2>4. CASE /\ pc' = [pc EXCEPT ![t] = "bind"] /\ req[t] = "tcp"
               /\ \E u \in Ports \cup {NoUrl} : cand' = [cand EXCEPT ![t] = u]
        BY <2>1, <2>2, <2>4
    <2>5. CASE /\ pc' = [pc EXCEPT ![t] = "register"] /\ req[t] = "http"
               /\ \E u \in HttpUrls : cand' = [cand EXCEPT ![t] = u]
        BY <2>1, <2>2, <2>5
    <2>6. QED
        BY <2>1, <2>3, <2>4, <2>5 DEF Outcome
<1>3. ASSUME NEW t \in Tunnels, NEW p \in Ports, Bind(t, p) PROVE Shape'
    BY <1>3 DEF Bind, Goto
<1>4. ASSUME NEW t \in Tunnels, BindFails(t) PROVE Shape'
    BY <1>4 DEF BindFails, RetryBind, Return, Goto
<1>5. ASSUME NEW t \in Tunnels, Registered(t) PROVE Shape'
    BY <1>5 DEF Registered, Register, Return, Continue, Goto
<1>6. ASSUME NEW t \in Tunnels, HostTaken(t) PROVE Shape'
    BY <1>6 DEF HostTaken, LastAttempt, Return, Goto
<1>7. ASSUME NEW t \in Tunnels, PortTaken(t) PROVE Shape'
    BY <1>7 DEF PortTaken, ListenerClosed, RetryBind, Return, Goto
<1>8. ASSUME NEW t \in Tunnels, NEW kind \in {"id", "ip"}, Cache(t, kind) PROVE Shape'
    BY <1>8 DEF Cache, Return, Continue, Goto
<1>9. ASSUME NEW t \in Tunnels, Assign(t) PROVE Shape'
    BY <1>9 DEF Assign, Return, Goto
<1>10. ASSUME NEW t \in Tunnels, CloseListener(t) PROVE Shape'
    BY <1>10 DEF CloseListener, ListenerClosed, Goto
<1>11. ASSUME NEW t \in Tunnels, Unlist(t) PROVE Shape'
    BY <1>11 DEF Unlist, Unregister, Goto
<1>12. ASSUME NEW c \in Ctls, ManagerStops(c) PROVE Shape'
    BY <1>12 DEF ManagerStops, openVars
<1>13. ASSUME NEW c \in Ctls, Replaced(c) PROVE Shape'
    BY <1>13 DEF Replaced, openVars
<1>14. ASSUME Save PROVE Shape'
    BY <1>14 DEF Save, openVars
<1>15. ASSUME Restart PROVE Shape'
    BY <1>15 DEF Restart, Everywhere
<1>16. CASE UNCHANGED vars
    BY <1>16 DEF vars, openVars
<1>17. QED
    BY <1>1, <1>2, <1>3, <1>4, <1>5, <1>6, <1>7, <1>8, <1>9, <1>10, <1>11, <1>12,
       <1>13, <1>14, <1>15, <1>16 DEF Next, Manager

\* Every step keeps registry and tunnels in agreement.
LEMMA EntriesKept ==
    ASSUME RInv, [Next]_vars
    PROVE  EntriesMatch'
<1> USE Assumed DEF Assumptions, Urls, Requests
<1>0. TypeOK /\ Shape /\ EntriesMatch
    BY DEF RInv, RegistryAgrees
<1> USE <1>0 DEF TypeOK, NewStages, envVars, Shape, Given, EntriesMatch
<1>1. ASSUME NEW t \in Tunnels, NEW r \in Requests \cup Urls, Start(t, r) PROVE EntriesMatch'
    BY <1>1 DEF Start, Goto
<1>2. ASSUME NEW t \in Tunnels, NEW kind \in {"id", "ip"}, LookUp(t, kind) PROVE EntriesMatch'
    BY <1>2 DEF LookUp, Goto, Continue
<1>3. ASSUME NEW t \in Tunnels, NEW p \in Ports, Bind(t, p) PROVE EntriesMatch'
    BY <1>3 DEF Bind, Goto
<1>4. ASSUME NEW t \in Tunnels, BindFails(t) PROVE EntriesMatch'
    BY <1>4 DEF BindFails, RetryBind, Return, Goto
<1>5. ASSUME NEW t \in Tunnels, Registered(t) PROVE EntriesMatch'
    BY <1>5 DEF Registered, Register, Return, Continue, Goto
<1>6. ASSUME NEW t \in Tunnels, HostTaken(t) PROVE EntriesMatch'
    BY <1>6 DEF HostTaken, LastAttempt, Return, Goto
<1>7. ASSUME NEW t \in Tunnels, PortTaken(t) PROVE EntriesMatch'
    BY <1>7 DEF PortTaken, ListenerClosed, RetryBind, Return, Goto
<1>8. ASSUME NEW t \in Tunnels, NEW kind \in {"id", "ip"}, Cache(t, kind) PROVE EntriesMatch'
    BY <1>8 DEF Cache, Return, Continue, Goto
<1>9. ASSUME NEW t \in Tunnels, Assign(t) PROVE EntriesMatch'
    BY <1>9 DEF Assign, Return, Goto
<1>10. ASSUME NEW t \in Tunnels, CloseListener(t) PROVE EntriesMatch'
    BY <1>10 DEF CloseListener, ListenerClosed, Goto
<1>11. ASSUME NEW t \in Tunnels, Unlist(t) PROVE EntriesMatch'
    BY <1>11 DEF Unlist, Unregister, Goto
<1>12. ASSUME NEW c \in Ctls, ManagerStops(c) PROVE EntriesMatch'
    BY <1>12 DEF ManagerStops, openVars
<1>13. ASSUME NEW c \in Ctls, Replaced(c) PROVE EntriesMatch'
    BY <1>13 DEF Replaced, openVars
<1>14. ASSUME Save PROVE EntriesMatch'
    BY <1>14 DEF Save, openVars
<1>15. ASSUME Restart PROVE EntriesMatch'
    BY <1>15 DEF Restart, Everywhere
<1>16. CASE UNCHANGED vars
    BY <1>16 DEF vars, openVars
<1>17. QED
    BY <1>1, <1>2, <1>3, <1>4, <1>5, <1>6, <1>7, <1>8, <1>9, <1>10, <1>11, <1>12,
       <1>13, <1>14, <1>15, <1>16 DEF Next, Manager

\* Every step keeps ports and tunnels in agreement.
LEMMA ListenersKept ==
    ASSUME RInv, [Next]_vars
    PROVE  ListenersMatch'
<1> USE Assumed DEF Assumptions, Urls, Requests
<1>0. TypeOK /\ Shape /\ EntriesMatch /\ ListenersMatch
    BY DEF RInv, RegistryAgrees
<1> USE <1>0 DEF TypeOK, NewStages, envVars, Shape, Given, EntriesMatch, ListenersMatch
<1>1. ASSUME NEW t \in Tunnels, NEW r \in Requests \cup Urls, Start(t, r) PROVE ListenersMatch'
    BY <1>1 DEF Start, Goto
<1>2. ASSUME NEW t \in Tunnels, NEW kind \in {"id", "ip"}, LookUp(t, kind) PROVE ListenersMatch'
    <2>1. UNCHANGED <<tunnels, req, url, listening>> /\ Outcome(t)
        BY <1>2, LookedUp
    <2>2. req[t] \in Requests /\ url[t] = NoUrl
        BY <1>2, LookedUp
    <2>3. CASE pc' = [pc EXCEPT ![t] = "ipKey"] /\ cand' = cand
        BY <2>1, <2>2, <2>3
    <2>4. CASE /\ pc' = [pc EXCEPT ![t] = "bind"] /\ req[t] = "tcp"
               /\ \E u \in Ports \cup {NoUrl} : cand' = [cand EXCEPT ![t] = u]
        BY <2>1, <2>2, <2>4
    <2>5. CASE /\ pc' = [pc EXCEPT ![t] = "register"] /\ req[t] = "http"
               /\ \E u \in HttpUrls : cand' = [cand EXCEPT ![t] = u]
        BY <2>1, <2>2, <2>5
    <2>6. QED
        BY <2>1, <2>3, <2>4, <2>5 DEF Outcome
<1>3. ASSUME NEW t \in Tunnels, NEW p \in Ports, Bind(t, p) PROVE ListenersMatch'
    BY <1>3 DEF Bind, Goto
<1>4. ASSUME NEW t \in Tunnels, BindFails(t) PROVE ListenersMatch'
    BY <1>4 DEF BindFails, RetryBind, Return, Goto
<1>5. ASSUME NEW t \in Tunnels, Registered(t) PROVE ListenersMatch'
    BY <1>5 DEF Registered, Register, Return, Continue, Goto
<1>6. ASSUME NEW t \in Tunnels, HostTaken(t) PROVE ListenersMatch'
    BY <1>6 DEF HostTaken, LastAttempt, Return, Goto
<1>7. ASSUME NEW t \in Tunnels, PortTaken(t) PROVE ListenersMatch'
    BY <1>7 DEF PortTaken, ListenerClosed, RetryBind, Return, Goto
<1>8. ASSUME NEW t \in Tunnels, NEW kind \in {"id", "ip"}, Cache(t, kind) PROVE ListenersMatch'
    BY <1>8 DEF Cache, Return, Continue, Goto
<1>9. ASSUME NEW t \in Tunnels, Assign(t) PROVE ListenersMatch'
    BY <1>9 DEF Assign, Return, Goto
<1>10. ASSUME NEW t \in Tunnels, CloseListener(t) PROVE ListenersMatch'
    BY <1>10 DEF CloseListener, ListenerClosed, Goto
<1>11. ASSUME NEW t \in Tunnels, Unlist(t) PROVE ListenersMatch'
    BY <1>11 DEF Unlist, Unregister, Goto
<1>12. ASSUME NEW c \in Ctls, ManagerStops(c) PROVE ListenersMatch'
    BY <1>12 DEF ManagerStops, openVars
<1>13. ASSUME NEW c \in Ctls, Replaced(c) PROVE ListenersMatch'
    BY <1>13 DEF Replaced, openVars
<1>14. ASSUME Save PROVE ListenersMatch'
    BY <1>14 DEF Save, openVars
<1>15. ASSUME Restart PROVE ListenersMatch'
    BY <1>15 DEF Restart, Everywhere
<1>16. CASE UNCHANGED vars
    BY <1>16 DEF vars, openVars
<1>17. QED
    BY <1>1, <1>2, <1>3, <1>4, <1>5, <1>6, <1>7, <1>8, <1>9, <1>10, <1>11, <1>12,
       <1>13, <1>14, <1>15, <1>16 DEF Next, Manager

\* A server that starts with no tunnels and no cache.
LEMMA InvInit == Init => RInv
<1> SUFFICES ASSUME Init PROVE RInv
    OBVIOUS
<1> USE Assumed DEF Assumptions, Urls, Requests
<1>1. Affinity!Init /\ Lib!Init
    BY SameActions DEF Init
<1>2. Lib!LRUInv
    BY <1>1, SizeAssumption, SameParts, Lib!InvInit
<1>3. Lib!TypeOK /\ Affinity!TypeOK
    BY <1>2, SizeAssumption, SameParts, SameActions, Lib!InvImplies
<1>4. Lib!Holds(Cached)
    BY <1>1 DEF Lib!Init, Lib!Holds, Lib!Items, Lib!ToSet, Lib!EmptyCache, Lib!NoFile
<1>5. TypeOK
    <2>1. /\ tunnels \in [Urls -> Tunnels \cup {NoTunnel}]
          /\ listening \in [Ports -> Tunnels \cup {NoTunnel}]
          /\ pc \in [Tunnels -> NewStages \cup {"new", "failed", "open", "closing", "closed"}]
        BY DEF Init, Everywhere
    <2>2. /\ req \in [Tunnels -> Requests \cup Urls]
          /\ url \in [Tunnels -> Urls \cup {NoUrl}]
          /\ cand \in [Tunnels -> Urls \cup {NoUrl}]
          /\ tries \in [Tunnels -> 0..(MaxAttempts - 1)]
        BY DEF Init, Everywhere
    <2>3. /\ blank \subseteq Ctls /\ down \subseteq Ctls
          /\ saving \in BOOLEAN /\ restarts \in 0..MaxReopens
        <3>1. blank = {} /\ down = {} /\ saving = FALSE /\ restarts = 0
            BY DEF Init
        <3>2. restarts \in 0..MaxReopens
            BY <3>1
        <3>3. saving \in BOOLEAN
            BY <3>1, Zenon
        <3>4. QED
            BY <3>1, <3>2, <3>3
    <2>4. QED
        BY <1>3, <2>1, <2>2, <2>3 DEF TypeOK
<1>6. Shape
    BY DEF Init, Everywhere, Shape
<1>7. RegistryAgrees
    BY DEF Init, Everywhere, RegistryAgrees, EntriesMatch, ListenersMatch
<1>8. QED
    BY <1>2, <1>4, <1>5, <1>6, <1>7 DEF RInv, CacheInv

\* All of the above.
LEMMA InvStep == RInv /\ [Next]_vars => RInv'
  BY CacheKeeps, TypeKept, ShapeKept, EntriesKept, ListenersKept DEF RInv, RegistryAgrees

\* Of all steps only Unlist, for its own tunnel, and Restart take a URL away.
LEMMA OwnStep ==
    ASSUME RInv, Next, NEW u \in Urls, NEW o \in Tunnels, tunnels[u] = o, tunnels'[u] # o
    PROVE  \/ pc[o] = "closing" /\ pc'[o] = "closed"
           \/ restarts' # restarts
<1> USE Assumed DEF Assumptions
<1>0. TypeOK /\ Shape /\ EntriesMatch
    BY DEF RInv, RegistryAgrees
<1>1. ASSUME NEW t \in Tunnels, Unlist(t)
      PROVE  pc[o] = "closing" /\ pc'[o] = "closed"
    <2>1. pc[t] = "closing" /\ tunnels[url[t]] = t /\ url[t] \in Urls
        BY <1>0, <1>1 DEF Unlist, EntriesMatch, Shape
    <2>2. u = url[t]
        BY <1>0, <1>1, <2>1 DEF Unlist, Unregister, TypeOK
    <2>3. QED
        BY <1>0, <1>1, <2>1, <2>2 DEF Unlist, Goto, TypeOK
<1>2. ASSUME NEW t \in Tunnels, Registered(t) PROVE FALSE
    BY <1>0, <1>2 DEF Registered, Register, TypeOK
<1>3. ASSUME Restart PROVE restarts' # restarts
    BY <1>0, <1>3 DEF Restart, TypeOK
<1>4. ASSUME NEW t \in Tunnels,
             \/ \E r \in Requests \cup Urls : Start(t, r)
             \/ \E k \in {"id", "ip"} : LookUp(t, k) \/ Cache(t, k)
             \/ \E p \in Ports : Bind(t, p)
             \/ BindFails(t) \/ HostTaken(t) \/ PortTaken(t) \/ Assign(t) \/ CloseListener(t)
      PROVE  UNCHANGED tunnels
    BY <1>4 DEF Start, LookUp, Cache, Bind, BindFails, HostTaken, PortTaken, Assign, CloseListener
<1>5. ASSUME NEW c \in Ctls, ManagerStops(c) \/ Replaced(c) PROVE UNCHANGED tunnels
    BY <1>5 DEF ManagerStops, Replaced
<1>6. ASSUME Save PROVE UNCHANGED tunnels
    BY <1>6 DEF Save
<1>7. QED
    BY <1>1, <1>2, <1>3, <1>4, <1>5, <1>6 DEF Next, Manager

-----------------------------------------------------------------------------
(* Theorems *)

\* The variables of NewTunnel, the registry and its cache have their types; what
\* the affinity cache brings up is always a URL that can be tried.
THEOREM TunnelTypeCorrect == Spec => []TypeOK
<1>1. RInv => TypeOK
    BY DEF RInv
<1>2. QED
    BY <1>1, InvInit, InvStep, PTL DEF Spec

\* TunnelRegistry.tunnels, Tunnel.url and the listening ports of server/tunnel.go
\* and server/registry.go agree, whatever managers, stoppers and restarts do.
THEOREM RegistryIsRight == Spec => []RegistryAgrees
<1>1. RInv => RegistryAgrees
    BY DEF RInv
<1>2. QED
    BY <1>1, InvInit, InvStep, PTL DEF Spec

\* Del of server/registry.go, which does not look whose the URL is, takes none
\* from another tunnel.
THEOREM DelTakesOnlyItsOwn == Spec => OnlyOwnerUnlists
<1> DEFINE Own == \A u \in Urls, t \in Tunnels :
                      tunnels[u] = t /\ tunnels'[u] # t =>
                          \/ pc[t] = "closing" /\ pc'[t] = "closed"
                          \/ restarts' # restarts
<1>1. RInv /\ [Next]_vars => [Own]_vars
    BY OwnStep
<1>2. QED
    BY <1>1, InvInit, InvStep, PTL DEF Spec, OnlyOwnerUnlists

\* Used by NewTunnel, SaveCacheThread and a restarted server only, the affinity
\* cache stays consistent, evicts the oldest and is loaded as it was saved.
THEOREM AffinityIsKept == Spec => AffinityKept
<1>1. RInv /\ [Next]_vars => [Affinity!CacheStep]_<<lru, file>>
    BY CacheKeeps
<1>2. QED
    BY <1>1, InvInit, InvStep, PTL DEF Spec, AffinityKept
=============================================================================
