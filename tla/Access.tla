------------------------------- MODULE Access -------------------------------
(***************************************************************************)
(* From the configuration to the answer of a request: config.Load with its *)
(* defaults and validate, the identity that cmd/pglockr builds from it     *)
(* (bearer tokens, or the headers of an SSO proxy), and the middlewares of *)
(* the router.  A request is served in one step: it shares no state with   *)
(* others.  Settings that are only handed on (addresses, header names) are *)
(* left out.  "" is the empty string, an unset variable or a missing       *)
(* entry, as in the code.  Texts that the code takes apart (group names,   *)
(* the header that lists them, Origin and Host) are sequences of pieces:   *)
(* words, blanks, delimiters and "://".                                    *)
(***************************************************************************)
EXTENDS Integers, Sequences, SequencesExt

CONSTANTS Starts,   \* [file, env]: a config file with an environment
          Requests  \* [route, host, origin, bearer, cookie, secret, user, groups]

\* What ends the scheme of an Origin.
SchemeEnd == "://"

\* The types that the YAML decoder and the requests' headers give.
ASSUME FilesTyped ==
    \A st \in Starts :
        /\ st.file.principals \in Seq([name : STRING, role : STRING, tokenEnv : STRING])
        /\ st.file.proxy.roleMappings \in Seq([group : Seq(STRING), role : STRING])
        /\ {st.file.interval, st.file.ringSize, st.file.statementTimeout, st.file.retention}
              \subseteq Int
\* An Origin is a scheme, "://" and a host, or the word null.
ASSUME HeadersTyped ==
    \A r \in Requests : /\ {r.groups, r.origin, r.host} \subseteq Seq(STRING)
                       /\ \A k \in DOMAIN r.origin : r.origin[k] = SchemeEnd => k = 2

VARIABLES
    start,     \* the file and the environment of this process
    phase,     \* "start", "loaded", "serving", "refused" by Load or "failed" later
    cfg,       \* what Load returned
    identity,  \* what buildIdentity returned
    answer     \* the request in hand with its status and the actor on record

vars == <<start, phase, cfg, identity, answer>>

Nothing == [kind |-> "nothing"]

Init == /\ start \in Starts
        /\ phase = "start" /\ cfg = Nothing /\ identity = Nothing /\ answer = Nothing

-----------------------------------------------------------------------------
(* Roles *)

validRoles == {"viewer", "operator", "admin"}

Rank(role) == CASE role = "viewer" -> 1 [] role = "operator" -> 2
                [] role = "admin" -> 3 [] OTHER -> 0

AtLeast(role, min) == Rank(role) > 0 /\ Rank(role) >= Rank(min)

-----------------------------------------------------------------------------
(* config.Load *)

Defaults == [interval |-> 1, ringSize |-> 300, statementTimeout |-> 3, retention |-> 86400]

\* A size or duration that is zero or less is replaced by its default.
Positive(v, d) == IF v <= 0 THEN d ELSE v

Getenv(env, name) == IF name = "" THEN "" ELSE env[name]

\* Load's result before validate.
Loaded(file, env) ==
    LET mode == IF file.mode = "" THEN "token" ELSE file.mode
        px == file.proxy
    IN  [kind |-> "config", dsn |-> env["PGLOCKR_DSN"], mode |-> mode,
         token |-> env["PGLOCKR_TOKEN"],
         principals |-> [i \in DOMAIN file.principals |->
             [p |-> file.principals[i], token |-> Getenv(env, file.principals[i].tokenEnv)]],
         trustMode |-> IF mode = "proxy" /\ px.trustMode = "" THEN "secret" ELSE px.trustMode,
         sep |-> IF mode = "proxy" /\ px.sep = "" THEN "," ELSE px.sep,
         secretEnv |-> px.secretEnv, secret |-> Getenv(env, px.secretEnv),
         defaultRole |-> px.defaultRole, roleMappings |-> px.roleMappings,
         path |-> env["PGLOCKR_DB_PATH"],
         enabled |-> file.enabled \/ env["PGLOCKR_DB_PATH"] # "",
         retention |-> Positive(file.retention, Defaults.retention),
         interval |-> Positive(file.interval, Defaults.interval),
         ringSize |-> Positive(file.ringSize, Defaults.ringSize),
         statementTimeout |-> Positive(file.statementTimeout, Defaults.statementTimeout)]

\* Faulty variant: an empty token is not noticed.
ValidTokenAuthLax(c) == /\ c.token # "" \/ c.principals # << >>
                        /\ \A i \in DOMAIN c.principals : c.principals[i].p.role \in validRoles

ValidTokenAuth(c) ==
    /\ c.token # "" \/ c.principals # << >>
    /\ \A i \in DOMAIN c.principals :
          LET p == c.principals[i].p
          IN  p.name # "" /\ p.role \in validRoles /\ p.tokenEnv # "" /\ c.principals[i].token # ""

ValidProxyAuth(c) ==
    /\ c.trustMode \in {"secret", "network"}
    /\ c.trustMode = "secret" => c.secretEnv # "" /\ c.secret # ""
    /\ c.roleMappings # << >> \/ c.defaultRole # ""
    /\ \A i \in DOMAIN c.roleMappings :
          c.roleMappings[i].group # << >> /\ c.roleMappings[i].role \in validRoles
    /\ c.defaultRole \in validRoles \cup {""}

Valid(c) == /\ c.dsn # ""
            /\ \/ c.mode = "token" /\ ValidTokenAuth(c)
               \/ c.mode = "proxy" /\ ValidProxyAuth(c)
            /\ c.enabled => c.path # ""

\* The file is missing or no YAML.
ReadFails == /\ phase = "start" /\ phase' = "refused"
             /\ UNCHANGED <<start, cfg, identity, answer>>

Load == /\ phase = "start"
        /\ LET c == Loaded(start.file, start.env)
           IN  IF Valid(c) THEN phase' = "loaded" /\ cfg' = c
               ELSE phase' = "refused" /\ UNCHANGED cfg
        /\ UNCHANGED <<start, identity, answer>>

-----------------------------------------------------------------------------
(* buildIdentity *)

\* The legacy token is an admin named default; principals come after it.
Entries(c) ==
    (IF c.token = "" THEN << >>
     ELSE <<[name |-> "default", role |-> "admin", token |-> c.token]>>)
    \o [i \in DOMAIN c.principals |->
           [name |-> c.principals[i].p.name, role |-> c.principals[i].p.role,
            token |-> c.principals[i].token]]

\* NewTokenIdentity: principals by (the hash of) their token, none by "".  The last
\* of several with one token stays.
NewTokenIdentity(entries) ==
    [kind |-> "token",
     byHash |-> [t \in {entries[i].token : i \in DOMAIN entries} \ {""} |->
                    entries[Max({i \in DOMAIN entries : entries[i].token = t})]]]

NewProxyIdentity(c) ==
    [kind |-> "proxy", trustMode |-> c.trustMode, secret |-> c.secret,
     defaultRole |-> c.defaultRole, sep |-> c.sep,
     groupToRole |-> [g \in {c.roleMappings[i].group : i \in DOMAIN c.roleMappings} |->
                         c.roleMappings[Max({i \in DOMAIN c.roleMappings : c.roleMappings[i].group = g})].role]]

\* ParseRole of every role, and the checks NewProxyIdentity makes of its own.  The two
\* on header names find nothing, as Load has filled those in.
Builds(c) ==
    IF c.mode = "proxy"
    THEN /\ \A i \in DOMAIN c.roleMappings : c.roleMappings[i].role \in validRoles
         /\ c.defaultRole \in validRoles \cup {""}
         /\ c.trustMode \in {"network", "secret"}
         /\ c.trustMode = "secret" => c.secret # ""
         /\ c.roleMappings # << >> \/ c.defaultRole # ""
    ELSE \A i \in DOMAIN c.principals : c.principals[i].p.role \in validRoles

Build == /\ phase = "loaded"
         /\ IF Builds(cfg)
            THEN /\ phase' = "serving"
                 /\ identity' = IF cfg.mode = "proxy" THEN NewProxyIdentity(cfg)
                                ELSE NewTokenIdentity(Entries(cfg))
            ELSE phase' = "failed" /\ UNCHANGED identity
         /\ UNCHANGED <<start, cfg, answer>>

-----------------------------------------------------------------------------
(* A request *)

NoOne == [name |-> "", role |-> ""]

\* The Authorization header comes first if it is a bearer token, also an empty one.
TokenFromRequest(r) == IF r.bearer # "none" THEN r.bearer ELSE r.cookie

AuthenticateToken(r) ==
    LET t == TokenFromRequest(r)
    IN  IF t \in DOMAIN identity.byHash
        THEN [name |-> identity.byHash[t].name, role |-> identity.byHash[t].role] ELSE NoOne

Blank == " "

\* strings.TrimSpace.
Trim(s) == LET solid == {i \in DOMAIN s : s[i] # Blank}
           IN  IF solid = {} THEN << >> ELSE SubSeq(s, Min(solid), Max(solid))

\* strings.Split: the part that ends before each delimiter and before the end.  The
\* other places get an empty part, which the loop skips.
Split(s, sep) ==
    LET ends == {k \in DOMAIN s : s[k] = sep} \cup {Len(s) + 1}
    IN  [k \in 1..Len(s) + 1 |->
            IF k \in ends THEN SubSeq(s, Max({0} \cup {e \in ends : e < k}) + 1, k - 1)
            ELSE << >>]

\* The groups the header lists.
GroupsOf(header) == LET parts == Split(header, identity.sep)
                    IN  [k \in DOMAIN parts |-> Trim(parts[k])]

\* The loop over the groups of a request, from the best role so far.
Better(best, g) == IF g # << >> /\ g \in DOMAIN identity.groupToRole
                      /\ Rank(identity.groupToRole[g]) > Rank(best)
                   THEN identity.groupToRole[g] ELSE best
\* Faulty variant: the first group that is mapped decides.
HighestRoleFirst(groups) ==
    FoldLeft(LAMBDA best, g : IF best = "" THEN Better(best, g) ELSE best, "", groups)
HighestRole(groups) ==
    LET best[k \in 0..Len(groups)] == IF k = 0 THEN "" ELSE Better(best[k - 1], groups[k])
    IN  best[Len(groups)]

\* The user header comes without outer blanks, as net/http hands over every header.
AuthenticateProxy(r) ==
    LET mapped == HighestRole(GroupsOf(r.groups))
        role == IF mapped = "" THEN identity.defaultRole ELSE mapped
    IN  IF (identity.trustMode = "secret" => r.secret = identity.secret)
           /\ r.user # "" /\ role # ""
        THEN [name |-> r.user, role |-> role] ELSE NoOne

Authenticate(r) == IF identity.kind = "token" THEN AuthenticateToken(r) ELSE AuthenticateProxy(r)

\* The role that the groups of the router ask for.
MinRole == [act |-> "operator", audit |-> "admin"]

\* Faulty variant: an Origin is taken as it comes.
CheckOriginAny(r) == TRUE
\* No Origin, or one that ends in the Host.
CheckOrigin(r) == \/ r.origin = << >>
                  \/ IsSuffix(<<SchemeEnd>> \o r.host, r.origin)
                  \/ IsSuffix(r.host, r.origin)

\* websocket.Accept, which upgrades a stream, wants the host of an Origin to be the Host.
Accept(r) == r.origin = << >> \/ Tail(r.origin) = <<SchemeEnd>> \o r.host

\* The routes that look at Origin: the actions, and the stream after its upgrade (it
\* closes the socket rather than answer 403).
OriginChecked(r) == CASE r.route = "act" -> CheckOrigin(r)
                      [] r.route = "stream" -> Accept(r) /\ CheckOrigin(r)
                      [] OTHER -> TRUE

\* What becomes of a request to a route under /api by principal p.
Outcome(r, p) == IF p = NoOne THEN 401
                 ELSE IF r.route \in DOMAIN MinRole /\ ~AtLeast(p.role, MinRole[r.route]) THEN 403
                 ELSE IF ~OriginChecked(r) THEN 403
                 ELSE 200

Serve(r) == /\ phase = "serving" /\ answer = Nothing
            /\ LET p == Authenticate(r)
               IN  answer' = [kind |-> "answer", req |-> r, status |-> Outcome(r, p),
                              actor |-> p.name]
            /\ UNCHANGED <<start, phase, cfg, identity>>

\* The answer goes out; the next request finds nothing of it.
Reply == /\ answer # Nothing /\ answer' = Nothing
         /\ UNCHANGED <<start, phase, cfg, identity>>

Next == ReadFails \/ Load \/ Build \/ Reply \/ \E r \in Requests : Serve(r)

Spec == Init /\ [][Next]_vars

-----------------------------------------------------------------------------
(* Properties *)

\* What validate accepts, the rest of the startup can use: buildIdentity, with its
\* own checks, does not fail, someone can sign in, the poller gets an interval and
\* the ring a size they can work with, and a durable history has a file.
ValidatedIsUsable ==
    /\ phase # "failed"
    /\ phase = "serving" =>
          /\ identity.kind = "token" => DOMAIN identity.byHash # {}
          /\ cfg.interval > 0 /\ cfg.ringSize > 0 /\ cfg.statementTimeout > 0
          /\ cfg.enabled => cfg.path # ""

\* The configuration as written grants a role under a name for each token and each
\* group.  One that is listed twice has several grants; which of them counts is not
\* documented.
ByToken(t) ==
    LET ps == Range(start.file.principals)
    IN  {<<p.name, p.role>> : p \in {q \in ps : start.env[q.tokenEnv] = t}}
        \cup (IF start.env["PGLOCKR_TOKEN"] = t THEN {<<"default", "admin">>} ELSE {})
ByGroup(r, g) == {<<r.user, m.role>> : m \in {n \in Range(start.file.proxy.roleMappings) : n.group = g}}

\* The header lists group g: nothing but blanks is between it and the delimiters or
\* ends around it.  A group that has the delimiter in it, or a blank at one of its
\* ends, cannot be listed; validate accepts a mapping of one all the same.
Listed(h, sep, g) ==
    /\ g # << >> /\ g[1] # Blank /\ g[Len(g)] # Blank
    /\ \A k \in DOMAIN g : g[k] # sep
    /\ \E i, j \in DOMAIN h :
          /\ SubSeq(h, i, j) = g
          /\ \E a \in 0..i-1 : /\ a = 0 \/ h[a] = sep
                              /\ \A k \in a+1..i-1 : h[k] = Blank
          /\ \E b \in j+1..Len(h)+1 : /\ b = Len(h) + 1 \/ h[b] = sep
                                      /\ \A k \in j+1..b-1 : h[k] = Blank

\* The grants a request can claim, a set for each of its credentials.
Claims(r) ==
    LET px == start.file.proxy
        sep == IF px.sep = "" THEN "," ELSE px.sep
        groups == {ByGroup(r, m.group) : m \in {n \in Range(px.roleMappings) :
                                                   Listed(r.groups, sep, n.group)}}
        trusted == px.trustMode = "network" \/ r.secret = start.env[px.secretEnv]
        t == TokenFromRequest(r)
    IN  IF start.file.mode # "proxy" THEN IF t = "" THEN {} ELSE {ByToken(t)} \ {{}}
        ELSE IF ~trusted \/ r.user = "" THEN {}
        ELSE IF groups # {} THEN groups
        ELSE IF px.defaultRole # "" THEN {{<<r.user, px.defaultRole>>}} ELSE {}

\* Who may do what, as the README has it.
Allowed(route) == CASE route = "act" -> {"operator", "admin"} [] route = "audit" -> {"admin"}
                    [] OTHER -> validRoles

\* A request of the UI that this server delivered, or of no browser.
SameOrigin(r) == r.origin = << >> \/ \E k \in DOMAIN r.origin :
                     /\ r.origin[k] = SchemeEnd
                     /\ SubSeq(r.origin, k + 1, Len(r.origin)) = r.host

\* The most that can be said of an action: its Origin, if it has one, ends in the Host.
\* That of another host whose name ends in this one passes too.
EndsInHost(r) == r.origin = << >> \/ \E k \in 0..Len(r.origin) :
                     SubSeq(r.origin, k + 1, Len(r.origin)) = r.host

\* A handler runs only for a request that the configuration grants the role for, and
\* the actor an audit record gets is the one of that grant: no default, no order of
\* groups or principals and no route opens more; and none that changes something or
\* streams runs for a page of a host with another name, but for the actions in the
\* case EndsInHost names.  And it does run for every granted request of the own UI: no
\* principal of an accepted configuration is locked out, whatever else its request or
\* the configuration holds, but one whose only groups are mapped under a name that
\* cannot be listed.
HandledIffGranted ==
    answer # Nothing =>
        LET r == answer.req
        IN  IF answer.status = 200
            THEN /\ \E G \in Claims(r) : \E g \in G :
                       g[1] = answer.actor /\ g[1] # "" /\ g[2] \in Allowed(r.route)
                 /\ r.route = "act" => EndsInHost(r)
                 /\ r.route = "stream" => SameOrigin(r)
            ELSE \/ r.route \in {"act", "stream"} /\ ~SameOrigin(r)
                 \/ \A G \in Claims(r) : \E g \in G : g[2] \notin Allowed(r.route)
=============================================================================
