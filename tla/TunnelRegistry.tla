--------------------------- MODULE TunnelRegistry ---------------------------
(***************************************************************************)
(* How public URLs are given to tunnels and taken back: NewTunnel,         *)
(* registerVhost, bindTcp and Tunnel.Shutdown (server/tunnel.go) over the  *)
(* TunnelRegistry and its affinity cache (server/registry.go).             *)
(*                                                                         *)
(* The managers of several Controls open tunnels at once and the stoppers  *)
(* of others shut theirs down; each access to the registry, to the cache,  *)
(* to a listening port or to Tunnel.url is a step of its own.  "http"      *)
(* stands for the two virtually hosted protocols, which differ only in the *)
(* name their URLs carry.                                                  *)
(***************************************************************************)
EXTENDS Integers, FiniteSets

CONSTANTS Ctls, Tunnels, NoTunnel,
          Owner,       \* the Control each Tunnel belongs to
          Ids, NoId,   \* client ids
          IdOf, IpOf,  \* id and address of each Control's client
          HttpUrls, Ports, NoUrl,  \* a port stands for its tcp:// URL
          UrlSize, CacheCapacity, CacheWidth,
          MaxAttempts, \* registrations RegisterRepeat tries
          MaxReopens   \* bound: tunnels opened again by a restarted server

ASSUME OwnerAssumption == Owner \in [Tunnels -> Ctls] /\ NoTunnel \notin Tunnels
ASSUME IdAssumption == IdOf \in [Ctls -> Ids]
ASSUME AttemptsAssumption == MaxAttempts \in Nat /\ MaxAttempts > 1
ASSUME UrlAssumption == NoUrl \notin HttpUrls \cup Ports /\ HttpUrls \cap Ports = {}

Urls == HttpUrls \cup Ports
Requests == {"http", "tcp"}   \* with no name or port asked for

ASSUME RequestAssumption == Requests \cap Urls = {}
ASSUME ReopensAssumption == MaxReopens \in Nat

CacheKeys == {"ip", "id"} \X Requests \X ({IpOf[c] : c \in Ctls} \cup Ids \cup {NoId})

VARIABLES
    tunnels,    \* TunnelRegistry.tunnels
    lru, file,  \* the affinity cache and its file
    pc,         \* how far NewTunnel or Shutdown has got with each Tunnel
    req,        \* what each Tunnel was asked for: a protocol, or a URL
    url,        \* Tunnel.url
    cand,       \* the URL tried next
    tries,      \* attempts made by RegisterRepeat
    listening,  \* the Tunnel whose listener is bound to each port
    blank,      \* Controls that have been replaced: their id is ""
    down,       \* Controls whose manager has stopped
    saving, restarts

vars == <<tunnels, lru, file, pc, req, url, cand, tries, listening, blank, down,
          saving, restarts>>
openVars == <<pc, req, url, cand, tries>>
envVars == <<blank, down, saving, restarts>>

Affinity == INSTANCE LRUCache
    WITH Keys <- CacheKeys, Values <- Urls, ValueSize <- UrlSize,
         Capacity <- CacheCapacity, Width <- CacheWidth

ASSUME SizeAssumption == Affinity!SizesFit

NewStages == {"idKey", "ipKey", "bind", "register", "cacheIp", "cacheId", "assign"}

TypeOK ==
    /\ tunnels \in [Urls -> Tunnels \cup {NoTunnel}]
    /\ Affinity!TypeOK
    /\ pc \in [Tunnels -> NewStages \cup {"new", "failed", "open", "closing", "closed"}]
    /\ req \in [Tunnels -> Requests \cup Urls]
    /\ url \in [Tunnels -> Urls \cup {NoUrl}]
    /\ cand \in [Tunnels -> Urls \cup {NoUrl}]
    /\ tries \in [Tunnels -> 0..(MaxAttempts - 1)]
    /\ listening \in [Ports -> Tunnels \cup {NoTunnel}]
    /\ blank \subseteq Ctls /\ down \subseteq Ctls
    /\ saving \in BOOLEAN /\ restarts \in 0..MaxReopens

Everywhere(T, x) == [t \in T |-> x]

Init ==
    /\ tunnels = Everywhere(Urls, NoTunnel) /\ listening = Everywhere(Ports, NoTunnel)
    /\ pc = Everywhere(Tunnels, "new") /\ req = Everywhere(Tunnels, "http")
    /\ url = Everywhere(Tunnels, NoUrl) /\ cand = Everywhere(Tunnels, NoUrl)
    /\ tries = Everywhere(Tunnels, 0)
    /\ blank = {} /\ down = {} /\ saving = FALSE /\ restarts = 0
    /\ Affinity!Init

-----------------------------------------------------------------------------
(* The registry *)

\* Mutant: Register overwrites.
RegisterOver(u, t) == tunnels' = [tunnels EXCEPT ![u] = t]

Register(u, t) ==
    /\ tunnels[u] = NoTunnel
    /\ tunnels' = [tunnels EXCEPT ![u] = t]

\* Del is unconditional.
Unregister(u) == tunnels' = [tunnels EXCEPT ![u] = NoTunnel]

\* cacheKeys, with the id the Control has at that moment.
CacheKey(kind, t) ==
    <<kind, IF req[t] \in Ports \cup {"tcp"} THEN "tcp" ELSE "http",
      IF kind = "ip" THEN IpOf[Owner[t]]
      ELSE IF Owner[t] \in blank THEN NoId ELSE IdOf[Owner[t]]>>

Goto(t, stage) == pc' = [pc EXCEPT ![t] = stage]

\* NewTunnel goes on, or returns and has no more use for its locals.
Continue(t, stage) == Goto(t, stage) /\ UNCHANGED <<cand, tries>>
Return(t, stage) ==
    /\ Goto(t, stage)
    /\ cand' = [cand EXCEPT ![t] = NoUrl]
    /\ tries' = [tries EXCEPT ![t] = 0]

-----------------------------------------------------------------------------
(* NewTunnel, called by the manager of Owner[t] *)

\* A manager serves one protocol of one request at a time.
Start(t, r) ==
    /\ pc[t] = "new" /\ Owner[t] \notin down
    /\ \A o \in Tunnels : Owner[o] = Owner[t] => pc[o] \notin NewStages
    /\ req' = [req EXCEPT ![t] = r]
    /\ IF r \in HttpUrls
       THEN url' = [url EXCEPT ![t] = r] ELSE UNCHANGED url
    /\ cand' = [cand EXCEPT ![t] = IF r \in Urls THEN r ELSE NoUrl]
    /\ Goto(t, IF r \in HttpUrls THEN "register" ELSE IF r \in Ports THEN "bind" ELSE "idKey")
    /\ UNCHANGED <<tunnels, lru, file, tries, listening, envVars>>

\* Another URL to try: a random virtual host, or any port (which is bound
\* next, so that it is open what the system picks).
AnotherUrl(t) == IF req[t] = "http" THEN HttpUrls ELSE {NoUrl}

\* GetCachedRegistration: the URL last given to this client id, or else to
\* this address, if the cache still has it.  (A tcp tunnel counts in tries
\* that there is no other port left to try.)
LookUp(t, kind) ==
    LET k == CacheKey(kind, t) IN
    /\ pc[t] = IF kind = "id" THEN "idKey" ELSE "ipKey"
    /\ Affinity!Get(k)
    /\ IF k \notin lru.table /\ kind = "id"
       THEN Continue(t, "ipKey")
       ELSE /\ Goto(t, IF req[t] = "tcp" THEN "bind" ELSE "register")
            /\ \E u \in IF k \in lru.table THEN {Affinity!Find(lru, k).value}
                                           ELSE AnotherUrl(t) :
                  cand' = [cand EXCEPT ![t] = u]
            /\ tries' = [tries EXCEPT ![t] = IF req[t] = "tcp" /\ k \notin lru.table
                                             THEN 1 ELSE @]
    /\ UNCHANGED <<tunnels, req, url, listening, envVars>>

\* bindTcp: listen on the port, or on any free one, and name the URL after it.
Bind(t, p) ==
    /\ pc[t] = "bind"
    /\ cand[t] \in {p, NoUrl} /\ listening[p] = NoTunnel
    /\ listening' = [listening EXCEPT ![p] = t]
    /\ url' = [url EXCEPT ![t] = p]
    /\ cand' = [cand EXCEPT ![t] = p]
    /\ Goto(t, "register")
    /\ UNCHANGED <<tunnels, lru, file, req, tries, envVars>>

\* bindTcp failed: after a cached port any port is tried, else NewTunnel fails.
RetryBind(t) ==
    /\ IF req[t] = "tcp" /\ tries[t] = 0
       THEN /\ Goto(t, "bind")
            /\ cand' = [cand EXCEPT ![t] = NoUrl]
            /\ tries' = [tries EXCEPT ![t] = 1]
       ELSE Return(t, "failed")

\* The port is in use, by a tunnel or by another program.
BindFails(t) ==
    /\ pc[t] = "bind"
    /\ RetryBind(t)
    /\ UNCHANGED <<tunnels, lru, file, req, url, listening, envVars>>

\* Register succeeds.  A URL asked for by name is not cached, and was assigned
\* to Tunnel.url before.
Registered(t) ==
    /\ pc[t] = "register"
    /\ Register(cand[t], t)
    /\ IF req[t] \in HttpUrls THEN Return(t, "open") ELSE Continue(t, "cacheIp")
    /\ UNCHANGED <<lru, file, req, url, listening, envVars>>

\* Mutant: one attempt too many.
LastAttemptLater(t) == tries[t] = MaxAttempts

LastAttempt(t) == tries[t] + 1 = MaxAttempts

\* Register finds the virtual host taken: RegisterRepeat tries another one,
\* for a URL asked for by name there is none.
HostTaken(t) ==
    /\ pc[t] = "register" /\ cand[t] \in HttpUrls /\ tunnels[cand[t]] # NoTunnel
    /\ IF req[t] \in HttpUrls \/ LastAttempt(t)
       THEN Return(t, "failed")
       ELSE /\ \E u \in HttpUrls : cand' = [cand EXCEPT ![t] = u]
            /\ tries' = [tries EXCEPT ![t] = @ + 1]
            /\ UNCHANGED pc
    /\ UNCHANGED <<tunnels, lru, file, req, url, listening, envVars>>

\* Mutant: bindTcp keeps the listener it could not register.
ListenerKept(t) == listening

ListenerClosed(t) == [p \in Ports |-> IF listening[p] = t THEN NoTunnel ELSE listening[p]]

\* Register finds the tcp:// URL taken although the port was free: the
\* listener is closed again.
PortTaken(t) ==
    /\ pc[t] = "register" /\ cand[t] \in Ports /\ tunnels[cand[t]] # NoTunnel
    /\ listening' = ListenerClosed(t)
    /\ RetryBind(t)
    /\ UNCHANGED <<tunnels, lru, file, req, url, envVars>>

\* RegisterAndCache remembers the URL under the client's address, then its id.
Cache(t, kind) ==
    /\ pc[t] = IF kind = "ip" THEN "cacheIp" ELSE "cacheId"
    /\ Affinity!Set(CacheKey(kind, t), cand[t])
    /\ IF kind = "ip" THEN Continue(t, "cacheId")
       ELSE IF req[t] = "http" THEN Continue(t, "assign") ELSE Return(t, "open")
    /\ UNCHANGED <<tunnels, req, url, listening, envVars>>

\* RegisterRepeat has returned: only now does a random URL get into Tunnel.url.
Assign(t) ==
    /\ pc[t] = "assign"
    /\ url' = [url EXCEPT ![t] = cand[t]]
    /\ Return(t, "open")
    /\ UNCHANGED <<tunnels, lru, file, req, listening, envVars>>

-----------------------------------------------------------------------------
(* Shutdown of the tunnels of a Control, by its stopper *)

\* The manager stops between two requests; from then on stopper may run (of a
\* Control with no tunnel it has none to shut down).
ManagerStops(c) ==
    /\ c \notin down
    /\ \A t \in Tunnels : Owner[t] = c => pc[t] \notin NewStages
    /\ \E t \in Tunnels : Owner[t] = c /\ pc[t] = "open"
    /\ down' = down \cup {c}
    /\ UNCHANGED <<tunnels, lru, file, openVars, listening, blank, saving, restarts>>

\* Tunnel.Shutdown: closing is set and the listener, if any, closed;
CloseListener(t) ==
    /\ pc[t] = "open" /\ Owner[t] \in down
    /\ \A o \in Tunnels : Owner[o] = Owner[t] => pc[o] # "closing"
    /\ listening' = ListenerClosed(t)
    /\ Goto(t, "closing")
    /\ UNCHANGED <<tunnels, lru, file, req, url, cand, tries, envVars>>

\* then the URL is unregistered.
Unlist(t) ==
    /\ pc[t] = "closing"
    /\ Unregister(url[t])
    /\ Goto(t, "closed")
    /\ UNCHANGED <<lru, file, req, url, cand, tries, listening, envVars>>

-----------------------------------------------------------------------------
(* The rest of the server *)

\* Replaced blanks the Control's id.  Only NewTunnel reads it, so it is enough
\* to let this happen while one of its tunnels is being opened.
Replaced(c) ==
    /\ c \notin blank
    /\ \E t \in Tunnels : Owner[t] = c /\ pc[t] \in NewStages
    /\ blank' = blank \cup {c}
    /\ UNCHANGED <<tunnels, lru, file, openVars, listening, down, saving, restarts>>

\* SaveCacheThread, every cacheSaveInterval.  What it saves is left out once
\* no restart can follow.
Save ==
    /\ restarts < MaxReopens
    /\ IF saving THEN Affinity!SaveEnd ELSE Affinity!SaveBegin
    /\ saving' = ~saving
    /\ UNCHANGED <<tunnels, openVars, listening, blank, down, restarts>>

\* The server dies at any moment; the next one has only the file (which the
\* model forgets when no other restart can follow).
Restart ==
    /\ restarts < MaxReopens
    /\ restarts' = restarts + 1
    /\ tunnels' = Everywhere(Urls, NoTunnel) /\ listening' = Everywhere(Ports, NoTunnel)
    /\ pc' = Everywhere(Tunnels, "new") /\ req' = Everywhere(Tunnels, "http")
    /\ url' = Everywhere(Tunnels, NoUrl) /\ cand' = Everywhere(Tunnels, NoUrl)
    /\ tries' = Everywhere(Tunnels, 0)
    /\ blank' = {} /\ down' = {} /\ saving' = FALSE
    /\ Affinity!Reload
    /\ file' = IF restarts' = MaxReopens THEN Affinity!NoFile ELSE file

-----------------------------------------------------------------------------
Manager(t) ==
    \/ (\E k \in {"id", "ip"} : LookUp(t, k) \/ Cache(t, k))
    \/ (\E p \in Ports : Bind(t, p))
    \/ BindFails(t) \/ Registered(t) \/ HostTaken(t) \/ PortTaken(t) \/ Assign(t)

Next ==
    \/ \E t \in Tunnels : \/ Manager(t) \/ CloseListener(t) \/ Unlist(t)
                          \/ \E r \in Requests \cup Urls : Start(t, r)
    \/ \E c \in Ctls : ManagerStops(c) \/ Replaced(c)
    \/ Save \/ Restart

Spec == Init /\ [][Next]_vars

-----------------------------------------------------------------------------
(* Properties *)

\* Registry and tunnels agree: an open tunnel is found under its URL, one that
\* failed or was shut down under none, and whoever is found under a URL is a
\* tunnel being given exactly that one.
EntriesMatch ==
    /\ \A t \in Tunnels : pc[t] \in {"open", "closing"} => tunnels[url[t]] = t
    /\ \A u \in Urls, t \in Tunnels : tunnels[u] = t =>
          /\ pc[t] \in {"cacheIp", "cacheId", "assign", "open", "closing"}
          /\ \/ url[t] = u
             \/ req[t] = "http" /\ pc[t] \in {"cacheIp", "cacheId", "assign"} /\ cand[t] = u

\* Del is unconditional, yet a URL is only ever taken from the tunnel that has
\* it by that tunnel's own Shutdown, or by the server's death.
OnlyOwnerUnlists ==
    [][\A u \in Urls, t \in Tunnels :
          tunnels[u] = t /\ tunnels'[u] # t =>
              \/ pc[t] = "closing" /\ pc'[t] = "closed"
              \/ restarts' # restarts]_vars

\* A port is bound as long as its tunnel is open and no longer: no listener is
\* left behind by a failed attempt, and no open tcp tunnel has lost its own.  Of a
\* bound port whose URL cannot be registered tunnel.go:118 says "this should never
\* be possible"; it is, but only while the tunnel that had the port has closed its
\* listener and not yet removed its URL.
ListenersMatch ==
    \A p \in Ports, t \in Tunnels :
        /\ listening[p] = t <=> /\ url[t] = p
                                /\ pc[t] \in {"register", "cacheIp", "cacheId", "open"}
        /\ pc[t] = "register" /\ cand[t] = p =>
              tunnels[p] = NoTunnel \/ pc[tunnels[p]] = "closing"

\* Registry, tunnels and listeners agree.
RegistryAgrees == EntriesMatch /\ ListenersMatch

\* The affinity cache, used through the registry by all managers at once.
AffinityKept == [][Affinity!CacheStep]_<<lru, file>>
=============================================================================
