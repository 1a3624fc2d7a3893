------------------------------ MODULE LDAPSession ------------------------------
(***************************************************************************)
(* One LDAP session of internal/discovery: DiscoverLDAP, DiscoverDFS and   *)
(* ValidateLDAPCredentials find the domain and its controller, dial it,    *)
(* read its RootDSE, bind, search and close the connection.  With the      *)
(* transport left to "auto" a dial that fails and a bind that the server   *)
(* wants signed are tried again over LDAPS.  The network and the server    *)
(* answer as they like.                                                    *)
(***************************************************************************)
EXTENDS DomainContext

CONSTANTS Options,    \* the LDAPOptions a run may be given
          Machines,   \* the machines it may run on
          Domains,    \* the domains that RootDSE may name
          OtherNC     \* a naming context that names no domain

ASSUME LDAPAssumption == \A m \in Machines : m.resolvConf \in Seq(Domains \cup {None})

VARIABLES
    opts,       \* the options
    machine,    \* the machine, the answers of its resolver included
    purpose,    \* "hosts", "dfs" or "validate"
    at,         \* where the session is
    context,    \* the domain context; how tells whether the user named the domain
    endpoint,   \* the endpoint dialled last
    conns,      \* the connections dialled: [transport, open, bound]
    attempts,   \* the bind candidates not yet tried
    rootDSE,    \* the naming contexts that the server has named
    answer,     \* "none", "found" or "error"
    sent        \* history: how credentials went out: [transport, method]

sessionVars == <<opts, machine, purpose, at, context, endpoint, conns,
                 attempts, rootDSE, answer, sent>>

NoContext == [domain |-> None, how |-> "none", dc |-> None]
NoRootDSE == [default |-> None, root |-> None]

SessionInit == /\ opts \in Options /\ machine \in Machines
               /\ purpose = "validate" /\ at = "idle"
               /\ context = NoContext /\ endpoint = NoEndpoint /\ conns = <<>>
               /\ attempts = <<>> /\ rootDSE = NoRootDSE /\ answer = "none" /\ sent = {}

Current == Len(conns)
Open == {i \in DOMAIN conns : conns[i].open}
Dialled(transport) == Append(conns, [transport |-> transport, open |-> TRUE, bound |-> FALSE])
Closed(set) == [i \in DOMAIN conns |->
                   IF i \in set THEN [conns[i] EXCEPT !.open = FALSE] ELSE conns[i]]

\* The session is over; what is left open is what the code left open.
Return(result) == at' = "idle" /\ answer' = result

\* Nothing of a session outlives it but its answer.
SessionGone == /\ purpose' = "validate" /\ at' = "idle" /\ answer' = "none"
               /\ context' = NoContext /\ endpoint' = NoEndpoint /\ conns' = <<>>
               /\ attempts' = <<>> /\ rootDSE' = NoRootDSE /\ sent' = {}
               /\ UNCHANGED <<opts, machine>>

Start(p) == /\ at = "idle"
            /\ purpose' = p /\ at' = "detect"
            /\ UNCHANGED <<opts, machine, context, endpoint, conns, attempts,
                           rootDSE, answer, sent>>

\* DetectDomainContext, and the endpoint of the controller.
Detect ==
    /\ at = "detect"
    /\ context' = DetectDomainContext(opts, machine)
    /\ IF context'.dc = None
       THEN Return("error") /\ UNCHANGED endpoint
       ELSE /\ endpoint' = LDAPEndpointForController(context'.dc, opts.transport)
            /\ IF endpoint' = NoEndpoint
               THEN Return("error")
               ELSE at' = "dial" /\ UNCHANGED answer
    /\ UNCHANGED <<opts, machine, purpose, conns, attempts, rootDSE, sent>>

DialLDAPEndpoint ==
    /\ at \in {"dial", "redial"}
    /\ \/ /\ conns' = Dialled(endpoint.transport)
          /\ at' = "prebind"
          /\ UNCHANGED <<endpoint, answer>>
       \/ /\ UNCHANGED conns
          /\ LET again == LDAPEndpointForController(context.dc, "ldaps")
             IN IF /\ at = "dial" /\ NormalizeLDAPTransport(opts.transport) = "auto"
                   /\ endpoint.transport = "ldap" /\ ~endpoint.explicit
                   /\ again # NoEndpoint
                THEN endpoint' = again /\ at' = "redial" /\ UNCHANGED answer
                ELSE Return("error") /\ UNCHANGED endpoint
    /\ UNCHANGED <<opts, machine, purpose, context, attempts, rootDSE, sent>>

NormalizeLDAPAuthMethod(value) ==
    CASE value \in {"", "auto", "simple"} -> "simple"
      [] value \in {"gssapi", "negotiate", "kerberos", "sspi"} -> "gssapi"
      [] OTHER -> value
Auth == NormalizeLDAPAuthMethod(opts.auth)

\* The candidates of bindLDAPSimple; an NTLM or a GSSAPI bind is one attempt.
Candidates(domain) == IF Auth = "simple"
                      THEN BindCandidates(opts.user, domain)
                      ELSE <<opts.user>>

NamingContexts == Domains \cup {OtherNC, None}
DomainFromNamingContext(nc) == IF nc \in Domains THEN nc ELSE None

\* queryRootDSE before the bind; a failure is only logged.
PreBindRootDSE ==
    /\ at = "prebind"
    /\ \E default, root \in NamingContexts :
          LET named == DomainFromNamingContext(FirstNamed(<<default, root>>))
          IN /\ rootDSE' = [default |-> default, root |-> root]
             /\ context' = IF \/ named = None
                              \/ context.domain # None /\ context.how = "cli"
                           THEN context
                           ELSE [context EXCEPT !.domain = named]
             /\ attempts' = Candidates(context'.domain)
             /\ at' = "bind"
    /\ UNCHANGED <<opts, machine, purpose, endpoint, conns, answer, sent>>

\* authenticateLDAP after a bind that failed: once more over LDAPS when the
\* server wants signing, else the connection is closed.
BindFailed(signing) ==
    /\ conns' = Closed({Current})
    /\ LET again == LDAPEndpointForController(context.dc, "ldaps")
       IN IF /\ at = "bind" /\ signing /\ endpoint.transport = "ldap"
             /\ NormalizeLDAPTransport(opts.transport) = "auto"
             /\ again # NoEndpoint
          THEN endpoint' = again /\ at' = "dialTLS" /\ UNCHANGED answer
          ELSE Return("error") /\ UNCHANGED endpoint

DialTLS ==
    /\ at = "dialTLS"
    /\ \/ /\ conns' = Dialled(endpoint.transport)
          /\ attempts' = Candidates(context.domain)
          /\ at' = "bindTLS" /\ UNCHANGED answer
       \/ Return("error") /\ UNCHANGED <<conns, attempts>>
    /\ UNCHANGED <<opts, machine, purpose, context, endpoint, rootDSE, sent>>

\* Mutant: the session keeps the connection that was dialled first.
BoundFirst(as) == [i \in DOMAIN conns |->
                      IF i = 1 THEN [conns[i] EXCEPT !.bound = as] ELSE conns[i]]

Bound(as) == [i \in DOMAIN conns |->
                 IF i = Current THEN [conns[i] EXCEPT !.bound = as] ELSE conns[i]]
AfterBind == IF purpose = "validate" THEN "close" ELSE "base"

\* What each method needs before it sends anything.  A GSSAPI bind without a
\* user takes the ticket of the credential cache.
CanBind ==
    CASE Auth = "simple" -> TRUE
      [] Auth = "ntlm" -> opts.user.form # "none" /\ opts.password
      [] Auth = "gssapi" ->
            /\ endpoint.transport = "ldaps"
            /\ IF opts.user.form = "none" THEN machine.ccache
               ELSE opts.password /\ KerberosBindIdentity(opts.user, context.domain) # None
      [] OTHER -> FALSE

\* Kerberos itself may fail: no configuration, no login, no certificate.
BindUnsent == /\ at \in {"bind", "bindTLS"}
              /\ ~CanBind \/ Auth = "gssapi"
              /\ BindFailed(FALSE)
              /\ UNCHANGED <<opts, machine, purpose, context, attempts, rootDSE, sent>>

\* bindLDAPSimple without a user sends nothing.
Anonymous == /\ at \in {"bind", "bindTLS"}
             /\ Auth = "simple" /\ opts.user.form = "none"
             /\ at' = AfterBind
             /\ UNCHANGED <<opts, machine, purpose, context, endpoint, conns,
                            attempts, rootDSE, answer, sent>>

\* The last error counts.  The GSSAPI client never asks for a second bind.
BindLDAP ==
    /\ at \in {"bind", "bindTLS"} /\ CanBind /\ attempts # <<>>
    /\ sent' = sent \cup {[transport |-> conns[Current].transport,
                           method |-> Auth]}
    /\ attempts' = Tail(attempts)
    /\ \/ at' = AfterBind /\ conns' = Bound(TRUE) /\ UNCHANGED <<endpoint, answer>>
       \/ /\ Len(attempts) > 1
          /\ UNCHANGED <<at, conns, endpoint, answer>>
       \/ /\ Len(attempts) = 1
          /\ \E signing \in BOOLEAN : BindFailed(signing)
    /\ UNCHANGED <<opts, machine, purpose, context, rootDSE>>

\* The base DN: as given, else of the RootDSE, which is asked again, whether
\* it is needed or not, if it has named nothing; that may fail.
BaseDN ==
    /\ at = "base"
    /\ \/ /\ \E default, root \in NamingContexts :
                IF rootDSE = NoRootDSE
                THEN rootDSE' = [default |-> default, root |-> root]
                ELSE default = None /\ root = None /\ UNCHANGED rootDSE
          /\ IF opts.baseDN \/ rootDSE' # NoRootDSE
             THEN at' = "search" /\ UNCHANGED answer
             ELSE at' = "close" /\ answer' = "error"
       \/ /\ rootDSE = NoRootDSE
          /\ at' = "close" /\ answer' = "error" /\ UNCHANGED rootDSE
    /\ UNCHANGED <<opts, machine, purpose, context, endpoint, conns, attempts, sent>>

\* The paged search.
Search ==
    /\ at = "search" /\ at' = "close"
    /\ answer' \in {"found", "error"}
    /\ UNCHANGED <<opts, machine, purpose, context, endpoint, conns, attempts,
                   rootDSE, sent>>

\* defer session.Conn.Close()
Close == /\ at = "close"
         /\ conns' = Closed({Current})
         /\ at' = "idle"
         /\ answer' = IF answer = "none" THEN "found" ELSE answer
         /\ UNCHANGED <<opts, machine, purpose, context, endpoint, attempts, rootDSE, sent>>

SessionNext == \/ Detect \/ DialLDAPEndpoint \/ PreBindRootDSE
               \/ BindUnsent \/ Anonymous \/ BindLDAP \/ DialTLS
               \/ BaseDN \/ Search \/ Close
-------------------------------------------------------------------------------
(***************************************************************************)
(* The inductive invariant behind the two properties.                      *)
(***************************************************************************)
Anonymously == Auth = "simple" /\ opts.user.form = "none"
Asked(transport) == NormalizeLDAPTransport(opts.transport) \in {"auto", transport}
Transports == {"ldap", "ldaps"} \cup {NormalizeLDAPTransport(o.transport) : o \in Options}
Connection == [transport : Transports, open : BOOLEAN, bound : BOOLEAN]

Before == {"idle", "detect"}
Dialling == {"dial", "redial", "dialTLS"}
Connected == {"prebind", "bind", "bindTLS", "base", "search", "close"}

\* No connection while there is none to use, and then one at a time.
ConnectionInv ==
    /\ conns \in Seq(Connection)
    /\ at \in Before \cup Dialling => Open = {}
    /\ at \in Connected => Open = {Current} /\ conns[Current].transport = endpoint.transport
    /\ at \in {"base", "search"} => conns[Current].bound \/ Anonymously

\* The endpoint is one that the user allows, of the controller the session has.
EndpointInv ==
    at \notin Before => /\ endpoint.transport \in Transports
                        /\ Asked(endpoint.transport)
                        /\ endpoint.explicit => endpoint.transport = context.dc.scheme

ContextInv ==
    /\ DOMAIN context = {"domain", "how", "dc"}
    /\ at \notin Before => /\ opts.dc # None => context.dc = opts.dc
                           /\ opts.domain # None => /\ context.domain = opts.domain
                                                    /\ context.how = "cli"

SentInv == \A s \in sent : /\ Asked(s.transport)
                           /\ s.method = "gssapi" => s.transport = "ldaps"

SessionInv == /\ opts \in Options /\ machine \in Machines
              /\ at \in Before \cup Dialling \cup Connected
              /\ ConnectionInv /\ EndpointInv /\ ContextInv /\ SentInv
-------------------------------------------------------------------------------
\* A search runs on the connection that the last bind succeeded on, whichever
\* dial and whichever retry it came from; only an anonymous session has none.
\* It is the session's only connection, and a session that has returned has none:
\* connectLDAPSession and authenticateLDAP close what they give up.
SearchesAreBound ==
    /\ at = "search" =>
          /\ Open = {Current}
          /\ conns[Current].bound \/ (Auth = "simple" /\ opts.user.form = "none")
    /\ at = "idle" => Open = {}

\* The user is taken at his word: the transport he chose, by ldap_transport or by
\* the URL of the controller, is the only one credentials go over, and a GSSAPI
\* bind never goes over plain LDAP; the controller he gave is the one the session
\* talks to, and his domain is never replaced by what the network says.
UsersWordIsKept ==
    /\ \A s \in sent : /\ NormalizeLDAPTransport(opts.transport) \in {"auto", s.transport}
                       /\ s.method = "gssapi" => s.transport = "ldaps"
    /\ at \notin {"idle", "detect"} =>
          /\ endpoint.explicit =>
                \A i \in Open : conns[i].transport = context.dc.scheme
          /\ opts.dc # None => context.dc = opts.dc
          /\ opts.domain # None => context.domain = opts.domain
===============================================================================
