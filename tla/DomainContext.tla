----------------------------- MODULE DomainContext -----------------------------
(***************************************************************************)
(* What internal/discovery works out before it talks to a domain           *)
(* controller: the domain and its controller (domain.go), the LDAP         *)
(* endpoint (auth.go) and the names it tries to bind with (ldap.go,        *)
(* auth_gssapi_kerberos.go).  A domain, a host and a user are model        *)
(* values; None stands for the empty string.                               *)
(***************************************************************************)
EXTENDS Naturals, SequencesExt

CONSTANT None

\* The first value that is not None, or None.
FirstNamed(values) ==
    LET named == {i \in DOMAIN values : values[i] # None}
    IN IF named = {} THEN None ELSE values[Min(named)]

\* A duplicate keeps the place of its first occurrence, None is left out.
Distinct(values) ==
    LET isNew(i) == values[i] # None /\ \A j \in 1 .. i - 1 : values[j] # values[i]
        new == SelectSeq([i \in DOMAIN values |-> i], isNew)
    IN [k \in DOMAIN new |-> values[new[k]]]
-------------------------------------------------------------------------------
(***************************************************************************)
(* The machine: four environment variables, the hostname command with -d,  *)
(* with -f and alone, the suffix of os.Hostname, the search and domain     *)
(* lines of resolv.conf, and what the resolver says of _ldap._tcp.dc.      *)
(* Every value is already normalised (normalizeDetectedDomain gives None   *)
(* for a placeholder such as "(none)").                                    *)
(***************************************************************************)
DetectDomainFromEnvironment(m) ==
    FirstNamed(<<m.userDNSDomain, m.userDomainFQDN, m.dnsDomain, m.userDomain>>)

DetectDomainFromHostname(m) ==
    FirstNamed(<<m.hostnameD, m.hostnameF, m.hostname, m.hostSuffix>>)

DetectDomainFromResolvConf(m) == FirstNamed(m.resolvConf)

\* The code lists a name once and leaves None out; the answer is the same.
SrvDiscoveryCandidates(m) ==
    <<m.userDNSDomain, m.userDomain, m.hostSuffix>> \o m.resolvConf

\* The controller the resolver lists first, None if it lists none.
LocateDomainController(m, domain) == m.srv[domain]

\* The first candidate that has a controller.
DetectDomainBySRV(m) ==
    FirstNamed([i \in DOMAIN SrvDiscoveryCandidates(m) |->
        LET d == SrvDiscoveryCandidates(m)[i]
        IN IF d # None /\ LocateDomainController(m, d) # None THEN d ELSE None])

\* "cli" stands for the detection methods that start with "cli-domain".
DetectDomainContext(opts, m) ==
    LET detected == FirstNamed(<<DetectDomainFromEnvironment(m),
                                 DetectDomainFromHostname(m),
                                 DetectDomainFromResolvConf(m)>>)
        srv == DetectDomainBySRV(m)
        found(d, how, dc) == [domain |-> d, how |-> how, dc |-> dc]
        named == CASE opts.domain # None -> found(opts.domain, "cli", opts.dc)
                   [] opts.domain = None /\ detected # None
                        -> found(detected, "local", opts.dc)
                   [] opts.domain = None /\ detected = None /\ srv # None
                        -> found(srv, "srv", LocateDomainController(m, srv))
                   [] OTHER -> found(None, "none", opts.dc)
    IN IF named.dc = None /\ named.domain # None
       THEN [named EXCEPT !.dc = LocateDomainController(m, named.domain)]
       ELSE named
-------------------------------------------------------------------------------
(***************************************************************************)
(* A controller is given as a name, as a name with the port 636 or another *)
(* one, or as a URL: [scheme, port, bare], where bare says that a URL has  *)
(* a host and neither path nor query.                                      *)
(***************************************************************************)
NormalizeLDAPTransport(value) == IF value = "" THEN "auto" ELSE value

DefaultPort(transport) == IF transport = "ldaps" THEN 636 ELSE 389

LDAPAddress(dc, transport) == IF dc.port # 0 THEN dc.port ELSE DefaultPort(transport)

NoEndpoint == [transport |-> "none", port |-> 0, explicit |-> FALSE]

\* Mutant: the scheme of the URL wins over ldap_transport.
EndpointOfURL(dc, requested) ==
    LET transport == IF dc.scheme # "" THEN dc.scheme
                     ELSE IF requested \in {"", "auto"} THEN "ldap" ELSE requested
    IN IF dc.scheme \in {"", "ldap", "ldaps"}
       THEN [transport |-> transport, port |-> LDAPAddress(dc, transport),
             explicit |-> dc.scheme # ""]
       ELSE NoEndpoint

\* NoEndpoint stands for the error.
LDAPEndpointForController(dc, requested) ==
    LET wanted == NormalizeLDAPTransport(requested)
        chosen == CASE wanted # "auto" -> wanted
                    [] wanted = "auto" /\ dc.port = 636 -> "ldaps"
                    [] OTHER -> "ldap"
    IN IF dc.scheme = ""
       THEN [transport |-> chosen, port |-> LDAPAddress(dc, chosen), explicit |-> FALSE]
       ELSE IF dc.scheme \in {"ldap", "ldaps"} /\ wanted \in {"auto", dc.scheme} /\ dc.bare
       THEN [transport |-> dc.scheme, port |-> LDAPAddress(dc, dc.scheme), explicit |-> TRUE]
       ELSE NoEndpoint
-------------------------------------------------------------------------------
(***************************************************************************)
(* A user is None, "user", "user@domain" or "domain\user": [form, domain]. *)
(* A bind candidate is the form sent and the domain in it.                 *)
(***************************************************************************)
BindCandidates(user, domain) ==
    CASE user.form = "none" -> <<>>
      [] user.form \in {"upn", "down"} -> <<user>>
      [] user.form = "plain" /\ domain = None -> <<user>>
      [] OTHER -> <<user, [form |-> "upn", domain |-> domain],
                    [form |-> "down", domain |-> domain]>>

NTLMBindIdentity(user, domain) ==
    IF user.form \in {"upn", "down"} THEN user.domain ELSE domain

\* The realm, None if there is none to be had.
KerberosBindIdentity(user, domain) ==
    CASE user.form = "upn" -> user.domain
      [] user.form = "down" /\ domain = None -> user.domain
      [] OTHER -> domain
===============================================================================
