----------------------------- MODULE ClientConfig ----------------------------
(***************************************************************************)
(* How clients are configured (client/cli.go, client/config.go): several   *)
(* client processes read, at their start and whenever the server has       *)
(* accepted them, the one configuration file, which the user edits and in  *)
(* which they save their auth token.  Saving truncates the file and writes *)
(* it anew, and nothing excludes other processes meanwhile.  Of a file the *)
(* settings matter that the program knows, of an address whether           *)
(* net.SplitHostPort accepts it: p stands for a port, h for a host name, l *)
(* for 127.0.0.1 and v6 for an IPv6 address.                               *)
(***************************************************************************)
EXTENDS Naturals, Sequences, Functions

CONSTANTS
    Clients,     \* client processes
    Written,     \* what the user writes into the file
    Invocations, \* how the user starts a client
    Dotted,      \* the tunnels' names that have a dot
    EnvProxy,    \* $http_proxy
    MaxEdits, MaxStarts \* bounds: edits of the file, starts of clients

VARIABLES
    file,    \* the configuration file
    proc,    \* where each client is
    conf,    \* what it has been configured with
    copy,    \* what SaveAuthToken is about to write
    due,     \* history: the file, if every save were one step
    spoilt,  \* history: a save was cut short, or has overlapped with another
             \* one or with an edit
    edits, starts

hist == <<due, spoilt>>
configVars == <<file, proc, conf, copy, hist, edits, starts>>

----------------------------------------------------------------------------
\* Addresses.

\* net.SplitHostPort, and Sprintf("%s:%s") of a host and a port.
HostIn ==
    [addr \in {":p", "h:p", "l:p", "[v6]:p"} |->
        CASE addr = ":p" -> "" [] addr = "h:p" -> "h" [] addr = "l:p" -> "l" [] OTHER -> "v6"]
Joined == [h |-> "h:p", l |-> "l:p", v6 |-> "v6:p"]
Splits(addr) == addr \in DOMAIN HostIn

\* strconv.Atoi succeeds.
WithColon(addr) == IF addr = "p" THEN ":p" ELSE addr

HostOr127(addr) == IF HostIn[addr] = "" THEN "l" ELSE HostIn[addr]

\* Mutant: an address without a host is left without one.
NormalizeKeepsHost(addr) ==
    IF Splits(WithColon(addr)) THEN WithColon(addr) ELSE "error"

normalizeAddress(addr) ==
    IF Splits(WithColon(addr)) THEN Joined[HostOr127(WithColon(addr))] ELSE "error"

validProtocols == {"http", "https", "http+https", "tcp"}

----------------------------------------------------------------------------
\* Files and settings.

Blank == [token |-> "", server |-> "", inspect |-> "", proxy |-> "", tunnels |-> <<>>]

\* The forms are "absent", "malformed", "old" (only a token) and "yaml".
File(form, settings) == [form |-> form, says |-> settings]
Truncated == File("yaml", Blank)

\* Of a tunnel it matters whether it has a public name, and which kind of one.
PublicNames == {"", "hostname", "subdomain"}

IsSettings(s) ==
    /\ s = [token |-> s.token, server |-> s.server, inspect |-> s.inspect,
            proxy |-> s.proxy, tunnels |-> s.tunnels]
    /\ \A n \in DOMAIN s.tunnels : s.tunnels[n].public \in PublicNames

\* Of a file that is not yaml, at most a token is a setting.
IsFile(f) ==
    /\ f = File(f.form, f.says) /\ IsSettings(f.says)
    /\ f.form \in {"absent", "malformed", "old", "yaml"}
    /\ f.form # "yaml" => f.says = [Blank EXCEPT !.token = f.says.token]

ASSUME WrittenAssumption == \A f \in Written : IsFile(f)
ASSUME InvocationsAssumption ==
    \A inv \in Invocations : inv.public \in PublicNames
ASSUME BoundsAssumption == MaxEdits \in Nat /\ MaxStarts \in Nat

\* Reading and parsing succeeds; a missing file is fatal if it was asked for.
Readable(f, inv) == f.form # "malformed" /\ ~ (f.form = "absent" /\ inv.config)

WithDefaults(s) ==
    [token |-> s.token,
     server |-> IF s.server = "" THEN "h:p" ELSE s.server,
     inspect |-> IF s.inspect = "" THEN "l:p" ELSE s.inspect,
     proxy |-> IF s.proxy = "" THEN EnvProxy ELSE s.proxy,
     tunnels |-> s.tunnels]

\* The tunnel's name serves as its subdomain, or its host name.
NamedTunnel(name, t) ==
    [public |-> IF t.public # "" THEN t.public
                ELSE IF name \in Dotted THEN "hostname" ELSE "subdomain",
     protocols |-> [p \in DOMAIN t.protocols |-> normalizeAddress(t.protocols[p])]]

Normalized(s) ==
    [token |-> s.token,
     server |-> normalizeAddress(s.server),
     inspect |-> IF s.inspect = "disabled" THEN s.inspect ELSE normalizeAddress(s.inspect),
     proxy |-> s.proxy,
     tunnels |-> [n \in DOMAIN s.tunnels |-> NamedTunnel(n, s.tunnels[n])]]

ValidTunnel(t) ==
    /\ DOMAIN t.protocols # {} /\ DOMAIN t.protocols \subseteq validProtocols
    /\ "error" \notin Range(t.protocols)

\* Of normalized settings.
ValidSettings(s) ==
    /\ s.server # "error" /\ s.inspect # "error"
    /\ s.proxy \in {"", "http", "https"}
    /\ \A n \in DOMAIN s.tunnels : ValidTunnel(s.tunnels[n])

----------------------------------------------------------------------------
\* The command line: inv has the flags, and argv what is not a flag.

Commands == {"list", "start", "start-all"}
Command(inv) == IF inv.argv[1] \in Commands THEN inv.argv[1] ELSE "default"
Args(inv) == Range(Tail(inv.argv))

\* ParseArgs neither fails nor exits.
Parses(inv) ==
    /\ inv.argv # <<>> /\ inv.argv[1] \notin {"version", "help"}
    /\ Command(inv) = "default" => Len(inv.argv) = 1

OnlyTunnel(inv) ==
    [public |-> inv.public,
     protocols |-> [p \in inv.protocols |-> normalizeAddress(inv.argv[1])]]

\* The command can be carried out with the file's tunnels; list exits.
Possible(inv, tunnels) ==
    CASE Command(inv) = "default" -> ValidTunnel(OnlyTunnel(inv))
      [] Command(inv) = "start" -> Args(inv) # {} /\ Args(inv) \subseteq DOMAIN tunnels
      [] OTHER -> Command(inv) = "start-all"

\* Mutant: start does not drop the tunnels it was not asked for.
ChosenAll(inv, tunnels) ==
    IF Command(inv) = "default" THEN [default |-> OnlyTunnel(inv)] ELSE tunnels

Chosen(inv, tunnels) ==
    CASE Command(inv) = "default" -> [default |-> OnlyTunnel(inv)]
      [] Command(inv) = "start" -> Restrict(tunnels, Args(inv))
      [] OTHER -> tunnels

\* LoadConfiguration succeeds, and what it then returns.
Loads(inv) ==
    LET s == Normalized(WithDefaults(file.says))
    IN  Readable(file, inv) /\ ValidSettings(s) /\ Possible(inv, s.tunnels)

LoadConfiguration(inv) ==
    LET s == Normalized(WithDefaults(file.says))
    IN  [s EXCEPT !.token = IF inv.authtoken # "" THEN inv.authtoken ELSE @,
                  !.tunnels = Chosen(inv, @)]

----------------------------------------------------------------------------
\* Clients and the user.

Idle == [inv |-> [argv |-> <<>>], settings |-> Blank]

ConfigInit ==
    /\ file \in {f \in Written : f.form # "malformed"} /\ due = file
    /\ proc = [c \in Clients |-> "off"]
    /\ conf = [c \in Clients |-> Idle] /\ copy = [c \in Clients |-> Blank]
    /\ spoilt = FALSE /\ edits = 0 /\ starts = 0

Saving(c) == proc[c] \in {"truncate", "write"}

\* serverName, which newClientModel calls for TLS, panics.
NoServerName(addr) == ~ Splits(addr)

\* Main, when it gets past LoadConfiguration; otherwise the program exits.
Start(c, inv) ==
    /\ proc[c] = "off" /\ starts < MaxStarts
    /\ Parses(inv) /\ Loads(inv)
    /\ LET s == LoadConfiguration(inv)
       IN  /\ conf' = [conf EXCEPT ![c] = [inv |-> inv, settings |-> s]]
           /\ proc' = [proc EXCEPT ![c] = IF NoServerName(s.server) THEN "panic" ELSE "connecting"]
    /\ starts' = starts + 1
    /\ UNCHANGED <<file, copy, hist, edits>>

\* SaveAuthToken, which control calls when the server has accepted the client,
\* has found the settings s in the file.
TokenRead(c, s) ==
    IF s.token = conf[c].settings.token
    THEN /\ proc' = [proc EXCEPT ![c] = "connected"]
         /\ UNCHANGED copy
    ELSE /\ proc' = [proc EXCEPT ![c] = "truncate"]
         /\ copy' = [copy EXCEPT ![c] = [s EXCEPT !.token = conf[c].settings.token]]

\* It is going to save what it has read of a file that is being written.
ReadsTorn(c) == proc'[c] = "truncate" /\ \E d \in Clients : proc[d] = "write"

\* Mutant: what is saved is the client's own configuration.
SaveOwnSettings(c) ==
    /\ proc[c] = "connecting" /\ file.form # "malformed"
    /\ IF file.says.token = conf[c].settings.token
       THEN TokenRead(c, file.says)
       ELSE /\ proc' = [proc EXCEPT ![c] = "truncate"]
            /\ copy' = [copy EXCEPT ![c] = conf[c].settings]
    /\ spoilt' = (spoilt \/ ReadsTorn(c))
    /\ UNCHANGED <<file, conf, due, edits, starts>>

\* The token of the old format is no setting to yaml.
SaveReads(c) ==
    /\ proc[c] = "connecting" /\ file.form # "malformed"
    /\ TokenRead(c, IF file.form = "old" THEN Blank ELSE file.says)
    /\ spoilt' = (spoilt \/ ReadsTorn(c))
    /\ UNCHANGED <<file, conf, due, edits, starts>>

\* os.ReadFile fails, though the file is there: it is taken for an empty one.
SaveCannotRead(c) ==
    /\ proc[c] = "connecting" /\ file.form # "absent"
    /\ TokenRead(c, Blank)
    /\ spoilt' = (spoilt \/ proc'[c] = "truncate")
    /\ UNCHANGED <<file, conf, due, edits, starts>>

\* yaml.Unmarshal fails.
SaveRefuses(c) ==
    /\ proc[c] = "connecting" /\ file.form = "malformed"
    /\ proc' = [proc EXCEPT ![c] = "connected"]
    /\ UNCHANGED <<file, conf, copy, hist, edits, starts>>

SaveTruncates(c) ==
    /\ proc[c] = "truncate"
    /\ file' = Truncated
    /\ proc' = [proc EXCEPT ![c] = "write"]
    /\ UNCHANGED <<conf, copy, hist, edits, starts>>

\* What somebody else has written since is overwritten as far as this text
\* reaches; and it may be in another file, if an editor has replaced this one.
SaveWrites(c) ==
    LET new == File("yaml", copy[c])
    IN  /\ proc[c] = "write"
        /\ IF file \in {Truncated, new}
           THEN file' = new /\ UNCHANGED spoilt
           ELSE file' \in {new, File("malformed", Blank), file} /\ spoilt' = TRUE
        /\ proc' = [proc EXCEPT ![c] = "connected"]
        /\ due' = File("yaml", [due.says EXCEPT !.token = copy[c].token])
        /\ UNCHANGED <<conf, copy, edits, starts>>

\* os.WriteFile fails to open the file, or to write it.
SaveFails(c) ==
    /\ Saving(c)
    /\ proc' = [proc EXCEPT ![c] = "connected"]
    /\ spoilt' = (spoilt \/ proc[c] = "write")
    /\ UNCHANGED <<file, conf, copy, due, edits, starts>>

\* The connection is lost; control begins again.
Reconnect(c) ==
    /\ proc[c] = "connected"
    /\ proc' = [proc EXCEPT ![c] = "connecting"]
    /\ UNCHANGED <<file, conf, copy, hist, edits, starts>>

\* The process ends, wherever it is.
End(c) ==
    /\ proc[c] # "off"
    /\ proc' = [proc EXCEPT ![c] = "off"]
    /\ conf' = [conf EXCEPT ![c] = Idle] /\ copy' = [copy EXCEPT ![c] = Blank]
    /\ spoilt' = (spoilt \/ proc[c] = "write")
    /\ UNCHANGED <<file, due, edits, starts>>

UserEdits ==
    /\ edits < MaxEdits
    /\ file' \in Written \ {file} /\ due' = file'
    /\ spoilt' = \E c \in Clients : Saving(c)
    /\ edits' = edits + 1
    /\ UNCHANGED <<proc, conf, copy, starts>>

ConfigNext ==
    \/ UserEdits
    \/ \E c \in Clients :
        \/ \E inv \in Invocations : Start(c, inv)
        \/ SaveReads(c) \/ SaveCannotRead(c) \/ SaveRefuses(c)
        \/ SaveTruncates(c) \/ SaveWrites(c) \/ SaveFails(c)
        \/ Reconnect(c) \/ End(c)

ConfigSpec == ConfigInit /\ [][ConfigNext]_configVars

----------------------------------------------------------------------------
\* A client's addresses are normalized, those in the file need not be.
IsConfiguration(s) ==
    /\ IsSettings(s)
    /\ s.server \in Range(Joined) /\ s.inspect \in Range(Joined) \cup {"disabled"}
    /\ s.proxy \in {"", "http", "https"}
    /\ \A n \in DOMAIN s.tunnels : Range(s.tunnels[n].protocols) \subseteq Range(Joined)

ConfigTypeOK ==
    /\ IsFile(file) /\ IsFile(due)
    /\ proc \in [Clients -> {"off", "panic", "connecting", "truncate", "write", "connected"}]
    /\ conf = [c \in Clients |-> [inv |-> conf[c].inv, settings |-> conf[c].settings]]
    /\ copy = [c \in Clients |-> copy[c]]
    /\ \A c \in Clients :
        /\ proc[c] # "off" => IsConfiguration(conf[c].settings)
        /\ IsSettings(copy[c])
    /\ spoilt \in BOOLEAN /\ edits \in 0..MaxEdits /\ starts \in 0..MaxStarts

\* However many clients save their tokens, and however their reading, truncating
\* and writing mix with each other and with edits, the file is as if each save
\* had replaced the token in one step and nothing else: what the user has
\* written stays (config.go:247-277).  Except while one is writing, and after a
\* save was cut short, had begun with a file that could not be read or was being
\* written, or has overlapped with another one or with an edit.
SavesOnlyToken ==
    spoilt \/ (\E c \in Clients : proc[c] = "write") \/ file = due

\* Whatever the file and the command line, a client that starts has a token if
\* one was given, the tunnels asked for and no others, each with a public name
\* unless the command line left it out, and every address can be dialled: it
\* splits again.  Only one whose host is an IPv6 address does not, since
\* normalizeAddress drops the brackets: as the server's it makes serverName
\* panic, of which model.go:128 says that it never does.
RunsAsAsked ==
    \A c \in Clients : proc[c] # "off" =>
        LET s == conf[c].settings
            inv == conf[c].inv
        IN  /\ inv.authtoken # "" => s.token = inv.authtoken
            /\ Command(inv) = "default" => DOMAIN s.tunnels = {"default"}
            /\ Command(inv) = "start" => DOMAIN s.tunnels = Args(inv)
            /\ \A n \in DOMAIN s.tunnels :
                /\ s.tunnels[n].public # "" \/ Command(inv) = "default"
                /\ DOMAIN s.tunnels[n].protocols # {}
                /\ \A addr \in Range(s.tunnels[n].protocols) : Splits(addr) \/ addr = "v6:p"
            /\ proc[c] = "panic" <=> s.server = "v6:p"
=============================================================================
