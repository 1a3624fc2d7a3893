------------------------------ MODULE MCDiscovery ------------------------------
(***************************************************************************)
(* A small instance of Discovery: one domain besides that of the user, two *)
(* computers, one of them under two names, and two checkers.               *)
(***************************************************************************)
EXTENDS Discovery

CONSTANTS own, foreign, h1, h2, a1, c1, c2

MCDomains == {own, foreign}
MCTargets == {<<"host", h1>>, <<"host", h2>>, <<"ip", a1>>}
MCCheckers == {c1, c2}

Dc(scheme, port) == [scheme |-> scheme, port |-> port, bare |-> TRUE]
Plain == [form |-> "plain", domain |-> None]
Opts(transport, auth, user, domain, dc) ==
    [transport |-> transport, auth |-> auth, user |-> user, password |-> TRUE,
     domain |-> domain, dc |-> dc, baseDN |-> FALSE]

MCOptions ==
    {Opts(t, "", Plain, own, None) : t \in {"", "ldaps"}}
    \cup {Opts("auto", "simple", Plain, None, dc) :
             dc \in {None, Dc("", 636), Dc("ldap", 0), Dc("http", 0)}}
    \cup {Opts("ldaps", auth, Plain, None, Dc("ldap", 0)) : auth \in {"", "ntlm"}}
    \cup {Opts("ldaps", "kerberos", Plain, None, None)}
    \cup {Opts("", "ntlm", [form |-> "down", domain |-> own], own, Dc("", 0)),
          Opts("", "gssapi", [form |-> "none", domain |-> None], None, Dc("", 0)),
          [Opts("", "", [form |-> "none", domain |-> None], own, None)
               EXCEPT !.baseDN = TRUE, !.password = FALSE]}

\* Machines that know a domain from different places, or not at all.
Machine(env, suffix, resolv, dc) ==
    [userDNSDomain |-> None, userDomainFQDN |-> None, dnsDomain |-> None,
     userDomain |-> env, hostnameD |-> None, hostnameF |-> None,
     hostname |-> None, hostSuffix |-> suffix, resolvConf |-> resolv,
     srv |-> [d \in {own, foreign} |-> dc], ccache |-> (env = None)]

MCMachines == {Machine(foreign, None, <<>>, Dc("", 0)),
               Machine(None, foreign, <<>>, Dc("", 0)),
               Machine(None, None, <<None, own>>, None)}

Name(kind, id, form) == [kind |-> kind, id |-> id, form |-> form]
Blank == Name("blank", None, "")
Entry(dns, name, ip) == [dns |-> dns, name |-> name, ip |-> ip]
UNC(server, share, path) == [server |-> server, share |-> share, path |-> path]
Host2 == Name("host", h2, "upper")
Host1 == Name("host", h1, "lower")
MCDirectories ==
    {[computers |-> <<Entry(Host1, Host1, None), Entry(Blank, Name("host", h1, "upper"), None),
                      Entry(Blank, Blank, None)>>,
      links |-> << <<UNC(Host2, <<"data">>, <<"finance">>), UNC(Blank, <<"data">>, None)>>, <<UNC(Host2, <<"pub">>, None)>> >>]}

Config(cli, file, noLDAP, dfs, skip) ==
    [cli |-> cli, file |-> file, noLDAP |-> noLDAP, dfs |-> dfs, skip |-> skip]
MCConfigs ==
    {Config(<<>>, <<>>, FALSE, FALSE, FALSE), Config(<<>>, <<>>, FALSE, TRUE, TRUE),
     Config(<<Host1, Name("host", h1, "upper")>>, <<>>, FALSE, TRUE, FALSE),
     Config(<<>>, <<Name("ip", a1, "port"), Blank>>, FALSE, FALSE, FALSE),
     Config(<<>>, <<Blank>>, FALSE, FALSE, FALSE),
     Config(<<>>, <<Name("unreadable", None, "")>>, FALSE, FALSE, FALSE)}
===============================================================================
