--------------------------- MODULE MCClientConfig ----------------------------
(***************************************************************************)
(* A TLC instance of ClientConfig: files of every form, valid or not, and  *)
(* command lines of every kind.                                            *)
(***************************************************************************)
EXTENDS ClientConfig, TLC

Tunnel(public, protocols) == [public |-> public, protocols |-> protocols]

\* A file with two tunnels, one of them named after its host, and its variants.
Usual ==
    [token |-> "k1", server |-> "", inspect |-> "disabled", proxy |-> "",
     tunnels |-> "web" :> Tunnel("", "http" :> "p")
              @@ "a.b" :> Tunnel("", "tcp" :> ":p" @@ "https" :> "h:p")]

MCWritten ==
    {File("absent", Blank), File("malformed", Blank),
     File("old", [Blank EXCEPT !.token = "k1"]),
     File("yaml", Usual),
     File("yaml", [Usual EXCEPT !.token = "", !.proxy = "https", !.inspect = "p"]),
     File("yaml", [Usual EXCEPT !.server = "[v6]:p"]),
     File("yaml", [Usual EXCEPT !.server = "h"]),
     File("yaml", [Usual EXCEPT !.proxy = "ftp"]),
     File("yaml", [Usual EXCEPT !.tunnels = "web" :> Tunnel("subdomain", <<>>)]),
     File("yaml", [Usual EXCEPT !.tunnels = "web" :> Tunnel("", "udp" :> "p")]),
     File("yaml", [Usual EXCEPT !.tunnels = "web" :> Tunnel("", "tcp" :> "[v6]:p")])}

Invocation(argv, authtoken, config) ==
    [argv |-> argv, authtoken |-> authtoken, config |-> config,
     protocols |-> {"http", "https"}, public |-> ""]

MCInvocations ==
    {Invocation(<<"p">>, "", FALSE), Invocation(<<"p">>, "k2", FALSE),
     Invocation(<<"[v6]:p">>, "", FALSE), Invocation(<<"h">>, "", FALSE),
     Invocation(<<"p", "p">>, "", FALSE), Invocation(<<>>, "", FALSE),
     Invocation(<<"list">>, "", FALSE), Invocation(<<"version">>, "", FALSE),
     Invocation(<<"start", "web">>, "k3", TRUE), Invocation(<<"start">>, "", FALSE),
     Invocation(<<"start-all">>, "", FALSE),
     [Invocation(<<"p">>, "", FALSE) EXCEPT !.protocols = {"udp"}]}

Symmetry == Permutations(Clients)
=============================================================================
